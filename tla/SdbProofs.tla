------------------------------ MODULE SdbProofs ------------------------------
(***************************************************************************)
(* The debugger, whatever the sizes of the pools, the watched values and   *)
(* the order of commands, hits, mismatches and signals: the core is never  *)
(* clocked after ebreak, the exit status is the verdict, and the threaded  *)
(* pools are the set of points the user sees.                              *)
(***************************************************************************)
EXTENDS Sdb, WellFoundedInduction, TLAPS

\* sdb_state says what has happened to the program, and the place in the code
\* says which states are possible there.
Inv ==
    /\ got_ebreak \in BOOLEAN /\ mismatched \in BOOLEAN
    /\ sdb_state \in {"Running", "Stop", "End", "Abort", "Quit"}
    /\ sdb_state = "End" => got_ebreak /\ ~mismatched
    /\ sdb_state = "Abort" => mismatched
    /\ sdb_state \in {"Running", "Stop"} => ~got_ebreak /\ ~mismatched
    /\ at \in {"cycle", "poll", "batch"} => sdb_state \in {"Running", "Stop"}
    /\ sdb_state = "Quit" => at = "exited"

\* The invariant holds when the debugger starts.
LEMMA InvInit == Init => Inv
BY DEF Init, Inv

\* Entering cpu_exec preserves the invariant: an ended program is left alone.
LEMMA InvCpuExec ==
    ASSUME Inv, NEW k, CpuExec(k), UNCHANGED <<mismatched, got_ebreak>>
    PROVE  Inv'
BY DEF Inv, CpuExec

\* A cycle preserves the invariant: neither a watchpoint hit at ebreak nor a
\* mismatch found in the same cycle is taken for a program that goes on.
LEMMA InvCycle ==
    ASSUME Inv, NEW ready \in BOOLEAN, NEW ebreak \in BOOLEAN, NEW mismatch \in BOOLEAN,
           NEW x, NEW pc, NEW a0, Cycle(ready, ebreak, mismatch, x, pc, a0)
    PROVE  Inv'
<1>1. got_ebreak' = ebreak /\ mismatched' = (mismatched \/ mismatch)
      BY DEF Cycle
<1>2. sdb_state \in {"Running", "Stop"} /\ ~got_ebreak /\ ~mismatched
      BY DEF Cycle, Inv
<1>3. at' = IF sdb_state' = "Running" THEN "poll" ELSE "return"
      BY DEF Cycle
<1>4. CASE mismatch
  <2>1. sdb_state' = "Abort"
        BY <1>4 DEF Cycle, AfterCycle
  <2>2. QED
        BY <1>1, <1>2, <1>3, <1>4, <2>1 DEF Inv
<1>5. CASE ~mismatch /\ ebreak
  <2>1. sdb_state' = "End"
        BY <1>5 DEF Cycle, AfterCycle, Stopped
  <2>2. QED
        BY <1>1, <1>2, <1>3, <1>5, <2>1 DEF Inv
<1>6. CASE ~mismatch /\ ~ebreak
  <2>1. sdb_state' \in {"Running", "Stop"}
        BY <1>2, <1>6 DEF Cycle, AfterCycle, Stopped
  <2>2. QED
        BY <1>1, <1>2, <1>3, <1>6, <2>1 DEF Inv
<1>7. QED
      BY <1>4, <1>5, <1>6

\* Every step preserves the invariant.
LEMMA InvNext == Inv /\ [Next]_vars => Inv'
<1> SUFFICES ASSUME Inv, [Next]_vars PROVE Inv'
    OBVIOUS
<1>1. CASE SomeCycle
      BY <1>1, InvCycle DEF SomeCycle
<1>2. CASE Poll
      BY <1>2 DEF Poll, Inv, Requested, core_vars
<1>3. CASE Return
      BY <1>3 DEF Return, Inv, core_vars
<1>4. CASE BatchC
      BY <1>4, InvCpuExec DEF BatchC, core_vars
<1>5. CASE CmdC
      BY <1>5, InvCpuExec DEF CmdC, core_vars
<1>6. CASE \E k \in 0 .. MaxSi : CmdSi(k)
  <2>1. PICK k \in 0 .. MaxSi : CmdSi(k)
        BY <1>6
  <2>2. QED
        BY <2>1, InvCpuExec DEF CmdSi, core_vars
<1>7. CASE CmdQ
      BY <1>7 DEF CmdQ, Inv, core_vars
<1>8. CASE EndOfInput
      BY <1>8 DEF EndOfInput, Inv, state_vars, core_vars
<1>9. CASE CmdW
      BY <1>9 DEF CmdW, Crash, Inv, state_vars, core_vars
<1>10. CASE \E pc \in Pcs : CmdB(pc)
      BY <1>10 DEF CmdB, Crash, Inv, state_vars, core_vars
<1>11. CASE \E no \in 0 .. NR_WP + NR_BP - 1 : CmdD(no)
      BY <1>11 DEF CmdD, Crash, Inv, state_vars, core_vars
<1>12. CASE Signal
      BY <1>12 DEF Signal, Inv, state_vars, core_vars
<1>13. CASE UNCHANGED vars
      BY <1>13 DEF vars, Inv
<1>14. QED
      BY <1>1, <1>2, <1>3, <1>4, <1>5, <1>6, <1>7, <1>8, <1>9, <1>10, <1>11, <1>12, <1>13 DEF Next

\* The assertion of single_cycle never fails.
THEOREM NeverClockedAfterEbreak == Spec => []NoCycleAfterEbreak
<1>1. Inv => NoCycleAfterEbreak
      BY DEF Inv, NoCycleAfterEbreak
<1>2. QED
      BY InvInit, InvNext, <1>1, PTL DEF Spec

\* The exit status of the debugger is good exactly for a program that ended
\* with 0 and agreed with the reference.
THEOREM ExitStatusSound == Spec => []ExitStatusIsTheVerdict
<1>1. Inv => ExitStatusIsTheVerdict
      BY DEF Inv, ExitStatusIsTheVerdict, is_exit_status_bad
<1>2. QED
      BY InvInit, InvNext, <1>1, PTL DEF Spec

(***************************************************************************)
(* The pools.  A pool of N nodes is threaded when its nodes can be put in  *)
(* an order o such that the first m are the list in use and the others the *)
(* free list.  Creating and deleting a point is a rotation of the order,   *)
(* so the order is the witness that both lists end and share no node.      *)
(***************************************************************************)
Threaded(N, nx, hd, fr, m, o) ==
    /\ m \in 0 .. N /\ o \in [1 .. N -> 0 .. N - 1] /\ nx \in [0 .. N - 1 -> -1 .. N - 1]
    /\ \A i, j \in 1 .. N : o[i] = o[j] => i = j
    /\ \A x \in 0 .. N - 1 : \E i \in 1 .. N : o[i] = x
    /\ \A i \in 1 .. N : nx[o[i]] = IF i = m \/ i = N THEN -1 ELSE o[i + 1]
    /\ hd = IF m = 0 THEN -1 ELSE o[1]
    /\ fr = IF m = N THEN -1 ELSE o[m + 1]

\* The pool as init_wp_pool leaves it is threaded, with no node in use.
LEMMA ThreadedInit ==
    ASSUME NEW N \in Nat \ {0}
    PROVE  Threaded(N, [i \in 0 .. N - 1 |-> IF i = N - 1 THEN -1 ELSE i + 1], -1, 0, 0, [i \in 1 .. N |-> i - 1])
<1> DEFINE nx == [i \in 0 .. N - 1 |-> IF i = N - 1 THEN -1 ELSE i + 1]
           o == [i \in 1 .. N |-> i - 1]
<1>1. o \in [1 .. N -> 0 .. N - 1] /\ nx \in [0 .. N - 1 -> -1 .. N - 1]
      OBVIOUS
<1>2. \A x \in 0 .. N - 1 : x + 1 \in 1 .. N /\ o[x + 1] = x
      OBVIOUS
<1>3. \A i \in 1 .. N : nx[o[i]] = IF i = N THEN -1 ELSE o[i + 1]
      OBVIOUS
<1>4. \A i, j \in 1 .. N : o[i] = o[j] => i = j
      OBVIOUS
<1>5. 0 \in 0 .. N /\ o[1] = 0 /\ 0 # N
      OBVIOUS
<1> HIDE DEF nx, o
<1>6. Threaded(N, nx, -1, 0, 0, o)
      BY <1>1, <1>2, <1>3, <1>4, <1>5 DEF Threaded
<1>7. QED
      BY <1>6 DEF nx, o

\* new_wp, new_bp: the first free node moves to the front.
ToFront(N, m, o) == [i \in 1 .. N |-> IF i = 1 THEN o[m + 1] ELSE IF i <= m + 1 THEN o[i - 1] ELSE o[i]]

\* Taking the first free node keeps the pool threaded.
LEMMA ThreadedNew ==
    ASSUME NEW N \in Nat \ {0}, NEW nx, NEW hd, NEW fr, NEW m, NEW o, Threaded(N, nx, hd, fr, m, o), fr # -1
    PROVE  /\ fr = o[m + 1] /\ m + 1 \in 1 .. N
           /\ Threaded(N, [nx EXCEPT ![fr] = hd], fr, nx[fr], m + 1, ToFront(N, m, o))
<1>1. /\ m \in 0 .. N - 1 /\ m + 1 \in 1 .. N /\ fr = o[m + 1] /\ fr \in 0 .. N - 1
      /\ o \in [1 .. N -> 0 .. N - 1] /\ nx \in [0 .. N - 1 -> -1 .. N - 1] /\ hd \in -1 .. N - 1
  <2>1. m # N
        BY DEF Threaded
  <2>2. m \in 0 .. N /\ o \in [1 .. N -> 0 .. N - 1] /\ nx \in [0 .. N - 1 -> -1 .. N - 1] /\ fr = o[m + 1]
        BY <2>1 DEF Threaded
  <2>3. hd = -1 \/ (hd = o[1] /\ 1 \in 1 .. N)
        BY DEF Threaded
  <2>4. QED
        BY <2>1, <2>2, <2>3
<1> DEFINE p == ToFront(N, m, o)
           ny == [nx EXCEPT ![fr] = hd]
<1>2. /\ p \in [1 .. N -> 0 .. N - 1]
      /\ p[1] = o[m + 1] /\ (\A i \in 2 .. m + 1 : p[i] = o[i - 1]) /\ (\A i \in m + 2 .. N : p[i] = o[i])
      BY <1>1 DEF ToFront
<1>3. ny \in [0 .. N - 1 -> -1 .. N - 1] /\ ny[fr] = hd /\ \A x \in 0 .. N - 1 : x # fr => ny[x] = nx[x]
      BY <1>1
<1> HIDE DEF p, ny
<1>4. /\ \A i, j \in 1 .. N : o[i] = o[j] => i = j
      /\ \A x \in 0 .. N - 1 : \E i \in 1 .. N : o[i] = x
      /\ \A i \in 1 .. N : nx[o[i]] = IF i = m \/ i = N THEN -1 ELSE o[i + 1]
      /\ hd = IF m = 0 THEN -1 ELSE o[1]
      BY DEF Threaded
<1>5. \A i, j \in 1 .. N : p[i] = p[j] => i = j
  <2> DEFINE from(i) == IF i = 1 THEN m + 1 ELSE IF i <= m + 1 THEN i - 1 ELSE i
  <2>1. \A i \in 1 .. N : from(i) \in 1 .. N
        BY <1>1
  <2>3. \A i \in 1 .. N : p[i] = o[from(i)]
        BY <1>1 DEF p, ToFront
  <2>5. ASSUME NEW i \in 1 .. N
        PROVE  (i = 1 /\ from(i) = m + 1) \/ (1 < i /\ i <= m + 1 /\ from(i) = i - 1) \/ (i > m + 1 /\ from(i) = i)
        BY <1>1
  <2> HIDE DEF from
  <2>2. ASSUME NEW i \in 1 .. N, NEW j \in 1 .. N, from(i) = from(j) PROVE i = j
    <3>1. (i = 1 /\ from(i) = m + 1) \/ (1 < i /\ i <= m + 1 /\ from(i) = i - 1) \/ (i > m + 1 /\ from(i) = i)
          BY <2>5
    <3>2. (j = 1 /\ from(j) = m + 1) \/ (1 < j /\ j <= m + 1 /\ from(j) = j - 1) \/ (j > m + 1 /\ from(j) = j)
          BY <2>5
    <3>3. PICK a \in Int : a = from(i) /\ a = from(j)
          BY <2>1, <2>2
    <3>4. i \in Int /\ j \in Int /\ m \in Int /\ m >= 0
          BY <1>1
    <3>5. CASE i = 1
          BY <3>1, <3>2, <3>3, <3>4, <3>5
    <3>6. CASE i > m + 1
          BY <3>1, <3>2, <3>3, <3>4, <3>6
    <3>7. CASE 1 < i /\ i <= m + 1
          BY <3>1, <3>2, <3>3, <3>4, <3>7
    <3>8. QED
          BY <3>1, <3>5, <3>6, <3>7
  <2>4. QED
        BY <1>4, <2>1, <2>2, <2>3
<1>6. ASSUME NEW x \in 0 .. N - 1 PROVE \E i \in 1 .. N : p[i] = x
  <2>1. PICK i \in 1 .. N : o[i] = x
        BY <1>4
  <2>2. CASE i <= m
    <3>1. i + 1 \in 1 .. N /\ i + 1 \in 2 .. m + 1 /\ (i + 1) - 1 = i
          BY <1>1, <2>2
    <3>2. p[i + 1] = o[i]
          BY <1>2, <3>1
    <3>3. QED
          BY <2>1, <3>1, <3>2
  <2>3. CASE i = m + 1
        BY <1>1, <1>2, <2>1, <2>3
  <2>4. CASE i > m + 1
        BY <1>1, <1>2, <2>1, <2>4
  <2>5. QED
        BY <1>1, <2>2, <2>3, <2>4
<1>7. ASSUME NEW i \in 1 .. N PROVE ny[p[i]] = IF i = m + 1 \/ i = N THEN -1 ELSE p[i + 1]
  <2>1. CASE i = 1
    <3>1. ny[p[i]] = hd
          BY <1>1, <1>2, <1>3, <2>1
    <3>2. m = 0 => hd = -1 /\ i = m + 1
          BY <1>4, <2>1
    <3>3. m # 0 => hd = o[1] /\ i # m + 1 /\ i # N /\ p[i + 1] = o[1]
      <4>1. m # 0 => 2 \in 2 .. m + 1 /\ 2 - 1 = 1 /\ i + 1 = 2 /\ i # m + 1 /\ i # N
            BY <1>1, <2>1
      <4>2. m # 0 => p[2] = o[2 - 1]
            BY <1>2, <4>1
      <4>3. QED
            BY <1>4, <4>1, <4>2
    <3>4. QED
          BY <3>1, <3>2, <3>3
  <2>2. CASE i \in 2 .. m + 1
    <3>1. p[i] = o[i - 1] /\ i - 1 \in 1 .. m /\ i - 1 \in 1 .. N /\ i - 1 # m + 1
          BY <1>1, <1>2, <2>2
    <3>2. ny[p[i]] = nx[o[i - 1]]
      <4>1. o[i - 1] # fr /\ o[i - 1] \in 0 .. N - 1
            BY <1>1, <1>4, <3>1
      <4>2. QED
            BY <1>3, <3>1, <4>1
    <3>3. nx[o[i - 1]] = IF i - 1 = m THEN -1 ELSE o[i]
      <4>1. i - 1 # N /\ (i - 1) + 1 = i
            BY <1>1, <3>1
      <4>2. QED
            BY <1>4, <3>1, <4>1
    <3>4. i # m + 1 => p[i + 1] = o[i] /\ i # N
      <4>1. i # m + 1 => i + 1 \in 2 .. m + 1 /\ (i + 1) - 1 = i /\ i # N
            BY <1>1, <2>2
      <4>2. i # m + 1 => p[i + 1] = o[(i + 1) - 1]
            BY <1>2, <4>1
      <4>3. QED
            BY <4>1, <4>2
    <3>5. i - 1 = m <=> i = m + 1
          BY <1>1, <2>2
    <3>6. QED
          BY <3>2, <3>3, <3>4, <3>5
  <2>3. CASE i \in m + 2 .. N
    <3>1. p[i] = o[i] /\ i # m + 1 /\ i # m
      <4>1. i # m + 1 /\ i # m
            BY <1>1, <2>3
      <4>2. QED
            BY <1>2, <2>3, <4>1
    <3>2. ny[p[i]] = nx[o[i]]
      <4>1. o[i] # fr /\ o[i] \in 0 .. N - 1
            BY <1>1, <1>4, <3>1
      <4>2. QED
            BY <1>3, <3>1, <4>1
    <3>3. i # N => p[i + 1] = o[i + 1]
      <4>1. i # N => i + 1 \in m + 2 .. N
            BY <1>1, <2>3
      <4>2. QED
            BY <1>2, <4>1
    <3>4. QED
          BY <1>4, <3>1, <3>2, <3>3
  <2>4. QED
        BY <1>1, <2>1, <2>2, <2>3
<1>8. m + 1 # 0 /\ fr = p[1] /\ m + 1 \in 0 .. N
      BY <1>1, <1>2
<1>9. nx[fr] = IF m + 1 = N THEN -1 ELSE p[(m + 1) + 1]
  <2>1. nx[fr] = IF m + 1 = N THEN -1 ELSE o[(m + 1) + 1]
        BY <1>1, <1>4
  <2>2. m + 1 # N => p[(m + 1) + 1] = o[(m + 1) + 1]
    <3>1. m + 1 # N => (m + 1) + 1 \in m + 2 .. N
          BY <1>1
    <3>2. QED
          BY <1>2, <3>1
  <2>3. QED
        BY <2>1, <2>2
<1>10. Threaded(N, ny, fr, nx[fr], m + 1, p)
      BY <1>2, <1>3, <1>5, <1>6, <1>7, <1>8, <1>9 DEF Threaded
<1>11. QED
      BY <1>1, <1>10 DEF p, ny

\* free_wp, free_bp: the node at place i of the list becomes the first free one.
ToFree(N, m, o, i) == [j \in 1 .. N |-> IF j < i \/ j > m THEN o[j] ELSE IF j = m THEN o[i] ELSE o[j + 1]]

\* Freeing the node at place i keeps the pool threaded.
LEMMA ThreadedFree ==
    ASSUME NEW N \in Nat \ {0}, NEW nx, NEW hd, NEW fr, NEW m, NEW o, Threaded(N, nx, hd, fr, m, o),
           NEW i \in 1 .. m, NEW ny \in [0 .. N - 1 -> -1 .. N - 1],
           ny[o[i]] = fr, i > 1 => ny[o[i - 1]] = nx[o[i]],
           \A y \in 0 .. N - 1 : y # o[i] /\ (i > 1 => y # o[i - 1]) => ny[y] = nx[y]
    PROVE  Threaded(N, ny, IF i = 1 THEN nx[o[i]] ELSE hd, o[i], m - 1, ToFree(N, m, o, i))
<1> DEFINE p == ToFree(N, m, o, i)
<1>1. /\ m \in 1 .. N /\ i \in 1 .. N /\ i <= m /\ m - 1 \in 0 .. N
      /\ o \in [1 .. N -> 0 .. N - 1] /\ nx \in [0 .. N - 1 -> -1 .. N - 1]
  <2>1. m \in 0 .. N /\ o \in [1 .. N -> 0 .. N - 1] /\ nx \in [0 .. N - 1 -> -1 .. N - 1]
        BY DEF Threaded
  <2>2. i \in Int /\ 1 <= i /\ i <= m /\ m \in Int /\ 0 <= m /\ m <= N
        BY <2>1
  <2>3. m \in 1 .. N /\ i \in 1 .. N /\ m - 1 \in 0 .. N
        BY <2>2
  <2>4. QED
        BY <2>1, <2>2, <2>3
<1>2. /\ \A j, k \in 1 .. N : o[j] = o[k] => j = k
      /\ \A x \in 0 .. N - 1 : \E j \in 1 .. N : o[j] = x
      /\ \A j \in 1 .. N : nx[o[j]] = IF j = m \/ j = N THEN -1 ELSE o[j + 1]
      /\ hd = (IF m = 0 THEN -1 ELSE o[1]) /\ fr = IF m = N THEN -1 ELSE o[m + 1]
      BY DEF Threaded
<1> DEFINE from(j) == IF j < i \/ j > m THEN j ELSE IF j = m THEN i ELSE j + 1
<1>3. \A j \in 1 .. N : from(j) \in 1 .. N
      BY <1>1
<1>4. ASSUME NEW j \in 1 .. N
      PROVE  \/ (j < i \/ j > m) /\ from(j) = j
             \/ j = m /\ from(j) = i
             \/ i <= j /\ j < m /\ from(j) = j + 1
      BY <1>1
<1>5. \A j \in 1 .. N : p[j] = o[from(j)]
      BY <1>1 DEF ToFree
<1>6. p \in [1 .. N -> 0 .. N - 1]
  <2>1. p = [j \in 1 .. N |-> p[j]]
        BY DEF ToFree
  <2>2. \A j \in 1 .. N : p[j] \in 0 .. N - 1
    <3> HIDE DEF from, p
    <3>1. QED
          BY <1>1, <1>3, <1>5
  <2>3. QED
        BY <2>1, <2>2
<1> HIDE DEF from, p
<1>7. \A j, k \in 1 .. N : p[j] = p[k] => j = k
  <2> SUFFICES ASSUME NEW j \in 1 .. N, NEW k \in 1 .. N, p[j] = p[k] PROVE j = k
      OBVIOUS
  <2>1. from(j) = from(k)
    <3>1. p[j] = o[from(j)] /\ p[k] = o[from(k)]
          BY <1>5
    <3>2. from(j) \in 1 .. N /\ from(k) \in 1 .. N
          BY <1>3
    <3>3. o[from(j)] = o[from(k)]
          BY <3>1
    <3>4. QED
          BY <1>2, <3>2, <3>3
  <2>2. PICK a \in Int : a = from(j) /\ a = from(k)
        BY <1>3, <2>1
  <2>3. i \in Int /\ j \in Int /\ k \in Int /\ m \in Int /\ i <= m
        BY <1>1
  <2>4. ((j < i \/ j > m) /\ a = j) \/ (j = m /\ a = i) \/ (i <= j /\ j < m /\ a = j + 1)
    <3>1. \/ (j < i \/ j > m) /\ from(j) = j
          \/ j = m /\ from(j) = i
          \/ i <= j /\ j < m /\ from(j) = j + 1
          BY <1>4
    <3>2. QED
          BY <2>2, <3>1
  <2>5. ((k < i \/ k > m) /\ a = k) \/ (k = m /\ a = i) \/ (i <= k /\ k < m /\ a = k + 1)
    <3>1. \/ (k < i \/ k > m) /\ from(k) = k
          \/ k = m /\ from(k) = i
          \/ i <= k /\ k < m /\ from(k) = k + 1
          BY <1>4
    <3>2. QED
          BY <2>2, <3>1
  <2>6. QED
        BY <2>3, <2>4, <2>5
<1>8. ASSUME NEW x \in 0 .. N - 1 PROVE \E j \in 1 .. N : p[j] = x
  <2>1. PICK k \in 1 .. N : o[k] = x
        BY <1>2
  <2>2. i \in Int /\ k \in Int /\ m \in Int /\ i <= m
        BY <1>1
  <2>3. CASE k < i \/ k > m
    <3>1. from(k) = k
          BY <1>4, <2>2, <2>3
    <3>2. QED
          BY <1>5, <2>1, <3>1
  <2>4. CASE k = i
    <3>1. from(m) = i /\ m \in 1 .. N
          BY <1>1 DEF from
    <3>2. QED
          BY <1>5, <2>1, <2>4, <3>1
  <2>5. CASE i < k /\ k <= m
    <3>1. k - 1 \in 1 .. N /\ i <= k - 1 /\ k - 1 < m /\ (k - 1) + 1 = k
          BY <1>1, <2>5
    <3>2. from(k - 1) = (k - 1) + 1
          BY <1>1, <3>1 DEF from
    <3>3. QED
          BY <1>5, <2>1, <3>1, <3>2
  <2>6. QED
        BY <2>2, <2>3, <2>4, <2>5
<1>9. ASSUME NEW j \in 1 .. N, j < i \/ j > m PROVE p[j] = o[j]
  <2>1. from(j) = j
        BY <1>9 DEF from
  <2>2. QED
        BY <1>5, <2>1
<1>10. p[m] = o[i]
  <2>1. from(m) = i /\ m \in 1 .. N
        BY <1>1 DEF from
  <2>2. QED
        BY <1>5, <2>1
<1>11. ASSUME NEW j \in 1 .. N, i <= j, j < m PROVE p[j] = o[j + 1]
  <2>1. from(j) = j + 1
        BY <1>1, <1>11 DEF from
  <2>2. QED
        BY <1>5, <2>1
<1>12. ASSUME NEW k \in 1 .. N, k # i, k # i - 1 PROVE ny[o[k]] = nx[o[k]]
  <2>1. o[k] \in 0 .. N - 1 /\ o[k] # o[i]
        BY <1>1, <1>2, <1>12
  <2>2. i > 1 => o[k] # o[i - 1]
    <3>1. i > 1 => i - 1 \in 1 .. N
          BY <1>1
    <3>2. QED
          BY <1>2, <1>12, <3>1
  <2>3. QED
        BY <2>1, <2>2
<1>13. ASSUME NEW j \in 1 .. N PROVE ny[p[j]] = IF j = m - 1 \/ j = N THEN -1 ELSE p[j + 1]
  <2>0. i \in Int /\ j \in Int /\ m \in Int /\ i <= m /\ N \in Int /\ m <= N /\ j <= N /\ 1 <= j /\ 1 <= i
        BY <1>1
  <2>1. CASE j < i - 1
    <3>1. j # i /\ j # i - 1 /\ j < i /\ j + 1 < i /\ j + 1 \in 1 .. N /\ j # m - 1 /\ j # N /\ j # m
          BY <2>0, <2>1
    <3>2. p[j] = o[j] /\ p[j + 1] = o[j + 1]
          BY <1>9, <3>1
    <3>3. ny[o[j]] = nx[o[j]] /\ nx[o[j]] = o[j + 1]
          BY <1>2, <1>12, <3>1
    <3>4. QED
          BY <3>1, <3>2, <3>3
  <2>2. CASE j = i - 1
    <3>1. i > 1 /\ j < i /\ j # N /\ j + 1 = i /\ (j = m - 1 <=> i = m)
          BY <2>0, <2>2
    <3>2. p[j] = o[j] /\ ny[o[j]] = nx[o[i]]
      <4>1. p[j] = o[j]
            BY <1>9, <3>1
      <4>2. ny[o[i - 1]] = nx[o[i]]
            BY <3>1
      <4>3. QED
            BY <2>2, <4>1, <4>2
    <3>3. CASE i = m
          BY <1>1, <1>2, <3>1, <3>2, <3>3
    <3>4. CASE i # m
      <4>1. i < m /\ i # N
            BY <2>0, <3>4
      <4>2. p[i] = o[i + 1]
            BY <1>1, <1>11, <4>1
      <4>3. nx[o[i]] = o[i + 1]
            BY <1>1, <1>2, <3>4, <4>1
      <4>4. QED
            BY <3>1, <3>2, <3>4, <4>2, <4>3
    <3>5. QED
          BY <3>3, <3>4
  <2>3. CASE i <= j /\ j < m
    <3>1. j + 1 \in 1 .. N /\ j + 1 # i /\ j + 1 # i - 1 /\ j # N /\ (j + 1 = m <=> j = m - 1)
          BY <2>0, <2>3
    <3>2. p[j] = o[j + 1] /\ ny[o[j + 1]] = nx[o[j + 1]]
      <4>1. p[j] = o[j + 1]
            BY <1>11, <2>3
      <4>2. ny[o[j + 1]] = nx[o[j + 1]]
            BY <1>12, <3>1
      <4>3. QED
            BY <4>1, <4>2
    <3>3. nx[o[j + 1]] = IF j + 1 = m \/ j + 1 = N THEN -1 ELSE o[(j + 1) + 1]
          BY <1>2, <3>1
    <3>4. CASE j + 1 = m
          BY <3>1, <3>2, <3>3, <3>4
    <3>5. CASE j + 1 # m
      <4>1. i <= j + 1 /\ j + 1 < m /\ j + 1 # N
            BY <2>0, <2>3, <3>5
      <4>2. p[j + 1] = o[(j + 1) + 1]
            BY <1>11, <3>1, <4>1
      <4>3. QED
            BY <3>1, <3>2, <3>3, <3>5, <4>1, <4>2
    <3>6. QED
          BY <3>4, <3>5
  <2>4. CASE j = m
    <3>1. ny[p[j]] = fr /\ j # m - 1
          BY <1>10, <2>0, <2>4
    <3>2. m # N => m + 1 \in 1 .. N /\ m + 1 > m
          BY <2>0
    <3>3. m # N => p[m + 1] = o[m + 1]
          BY <1>9, <3>2
    <3>4. QED
          BY <1>2, <2>4, <3>1, <3>3
  <2>5. CASE j > m
    <3>1. j # i /\ j # i - 1 /\ j # m /\ j # m - 1 /\ (j # N => j + 1 \in 1 .. N /\ j + 1 > m)
          BY <2>0, <2>5
    <3>2. p[j] = o[j] /\ (j # N => p[j + 1] = o[j + 1])
          BY <1>9, <2>5, <3>1
    <3>3. ny[o[j]] = nx[o[j]] /\ nx[o[j]] = IF j = N THEN -1 ELSE o[j + 1]
          BY <1>2, <1>12, <3>1
    <3>4. QED
          BY <3>1, <3>2, <3>3
  <2>6. QED
        BY <2>0, <2>1, <2>2, <2>3, <2>4, <2>5
<1>14. (IF i = 1 THEN nx[o[i]] ELSE hd) = IF m - 1 = 0 THEN -1 ELSE p[1]
  <2>0. i \in Int /\ m \in Int /\ i <= m /\ N \in Int /\ m <= N /\ 1 <= i /\ 1 \in 1 .. N
        BY <1>1
  <2>1. CASE i = 1
    <3>1. nx[o[1]] = IF 1 = m \/ 1 = N THEN -1 ELSE o[1 + 1]
          BY <1>2, <2>0
    <3>2. CASE m = 1
          BY <2>1, <3>1, <3>2
    <3>3. CASE m # 1
      <4>1. 1 < m /\ 1 # N /\ m - 1 # 0
            BY <2>0, <3>3
      <4>2. p[1] = o[1 + 1]
            BY <1>11, <2>0, <2>1, <4>1
      <4>3. QED
            BY <2>1, <3>1, <3>3, <4>1, <4>2
    <3>4. QED
          BY <3>2, <3>3
  <2>2. CASE i # 1
    <3>1. 1 < i /\ m - 1 # 0 /\ m # 0
          BY <2>0, <2>2
    <3>2. p[1] = o[1]
          BY <1>9, <2>0, <3>1
    <3>3. QED
          BY <1>2, <2>2, <3>1, <3>2
  <2>3. QED
        BY <2>1, <2>2
<1>15. o[i] = IF m - 1 = N THEN -1 ELSE p[(m - 1) + 1]
  <2>1. m - 1 # N /\ (m - 1) + 1 = m
        BY <1>1
  <2>2. QED
        BY <1>10, <2>1
<1>16. QED
      BY <1>1, <1>6, <1>7, <1>8, <1>13, <1>14, <1>15 DEF Threaded, p

(***************************************************************************)
(* The lists as print and the updates walk them, read off the order.       *)
(***************************************************************************)
IsWalk(N, nx, p, f) ==
    f = [k \in 0 .. N |-> IF k = 0 THEN p ELSE IF f[k - 1] = -1 THEN -1 ELSE nx[f[k - 1]]]

\* A set of numbers has a least element.
LEMMA NatMin ==
    ASSUME NEW T \in SUBSET Nat, T # {}
    PROVE  \E n0 \in T : \A m \in T : n0 <= m
<1>1. IsWellFoundedOn(OpToRel(<, Nat), Nat)
      BY NatLessThanWellFounded
<1>2. \E n0 \in T : \A m \in T : ~(<<m, n0>> \in OpToRel(<, Nat))
      BY <1>1, WFMin
<1>3. \E n0 \in T : \A m \in T : ~(m < n0)
      BY <1>2 DEF OpToRel
<1>4. QED
      BY <1>3

\* A walk is determined by its start: two of them cannot differ at a first place.
LEMMA OneWalk ==
    ASSUME NEW N \in Nat, NEW nx, NEW p, NEW f, NEW g, IsWalk(N, nx, p, f), IsWalk(N, nx, p, g)
    PROVE  f = g
<1>1. ASSUME NEW k \in 0 .. N, f[k] # g[k] PROVE FALSE
  <2> DEFINE Bad == {j \in Nat : j <= N /\ f[j] # g[j]}
  <2>1. Bad \subseteq Nat /\ Bad # {}
        BY <1>1
  <2>2. PICK j \in Bad : \A i \in Bad : j <= i
        BY <2>1, NatMin
  <2>3. j \in 0 .. N /\ j \in Nat /\ f[j] # g[j]
        OBVIOUS
  <2>4. f[j] = IF j = 0 THEN p ELSE IF f[j - 1] = -1 THEN -1 ELSE nx[f[j - 1]]
        BY <2>3 DEF IsWalk
  <2>5. g[j] = IF j = 0 THEN p ELSE IF g[j - 1] = -1 THEN -1 ELSE nx[g[j - 1]]
        BY <2>3 DEF IsWalk
  <2>6. j # 0 => f[j - 1] = g[j - 1]
    <3>1. j # 0 => j - 1 \in Nat /\ j - 1 < j /\ j - 1 <= N
          BY <2>3
    <3>2. j # 0 => j - 1 \notin Bad
          BY <2>2, <3>1
    <3>3. QED
          BY <3>1, <3>2
  <2>7. QED
        BY <2>3, <2>4, <2>5, <2>6
<1>2. f = [k \in 0 .. N |-> f[k]] /\ g = [k \in 0 .. N |-> g[k]]
      BY DEF IsWalk
<1>3. QED
      BY <1>1, <1>2

WalkOf(N, nx, p) == CHOOSE f : IsWalk(N, nx, p, f)
ListedOf(N, nx, p) == {WalkOf(N, nx, p)[k] : k \in 0 .. N - 1} \ {-1}
BeforeOf(N, nx, hd, x) == {q \in ListedOf(N, nx, hd) : nx[q] = x}

\* Whatever is a walk is the one a list is read with.
LEMMA TheWalk ==
    ASSUME NEW N \in Nat, NEW nx, NEW p, NEW f, IsWalk(N, nx, p, f)
    PROVE  WalkOf(N, nx, p) = f
<1>1. IsWalk(N, nx, p, WalkOf(N, nx, p))
      BY Zenon DEF WalkOf
<1>2. QED
      BY <1>1, OneWalk

UsedWalk(N, m, o) == [k \in 0 .. N |-> IF k < m THEN o[k + 1] ELSE -1]
FreeWalk(N, m, o) == [k \in 0 .. N |-> IF m + k < N THEN o[(m + k) + 1] ELSE -1]

\* The list in use is met in the order of the nodes and ends behind the m-th.
LEMMA UsedIsWalk ==
    ASSUME NEW N \in Nat \ {0}, NEW nx, NEW hd, NEW fr, NEW m, NEW o, Threaded(N, nx, hd, fr, m, o)
    PROVE  IsWalk(N, nx, hd, UsedWalk(N, m, o))
<1> DEFINE w == UsedWalk(N, m, o)
<1>1. m \in 0 .. N /\ m \in Nat /\ o \in [1 .. N -> 0 .. N - 1]
      BY DEF Threaded
<1>2. w = [k \in 0 .. N |-> w[k]] /\ \A k \in 0 .. N : w[k] = IF k < m THEN o[k + 1] ELSE -1
      BY DEF UsedWalk
<1> HIDE DEF w
<1>3. ASSUME NEW k \in 0 .. N
      PROVE  w[k] = IF k = 0 THEN hd ELSE IF w[k - 1] = -1 THEN -1 ELSE nx[w[k - 1]]
  <2>1. CASE k = 0
    <3>1. 0 + 1 = 1 /\ 0 \in 0 .. N /\ (0 < m <=> m # 0)
          BY <1>1
    <3>2. w[0] = IF 0 < m THEN o[1] ELSE -1
          BY <1>2, <3>1
    <3>3. QED
          BY <2>1, <3>1, <3>2 DEF Threaded
  <2>2. CASE k # 0 /\ m < k
    <3>1. k - 1 \in 0 .. N /\ ~(k - 1 < m) /\ ~(k < m)
          BY <1>1, <2>2
    <3>2. QED
          BY <1>2, <2>2, <3>1
  <2>3. CASE k # 0 /\ k <= m
    <3>1. k - 1 \in 0 .. N /\ k - 1 < m /\ (k - 1) + 1 = k /\ k \in 1 .. N /\ (k < m <=> k # m) /\ (k = N => k = m)
          BY <1>1, <2>3
    <3>2. w[k - 1] = o[k] /\ o[k] # -1
          BY <1>1, <1>2, <3>1
    <3>3. nx[o[k]] = IF k = m \/ k = N THEN -1 ELSE o[k + 1]
          BY <3>1 DEF Threaded
    <3>4. w[k] = IF k < m THEN o[k + 1] ELSE -1
          BY <1>2
    <3>5. QED
          BY <2>3, <3>1, <3>2, <3>3, <3>4
  <2>4. QED
        BY <1>1, <2>1, <2>2, <2>3
<1>4. QED
      BY <1>2, <1>3 DEF IsWalk, w

\* So are the free nodes, from the one behind the m-th on.
LEMMA FreeIsWalk ==
    ASSUME NEW N \in Nat \ {0}, NEW nx, NEW hd, NEW fr, NEW m, NEW o, Threaded(N, nx, hd, fr, m, o)
    PROVE  IsWalk(N, nx, fr, FreeWalk(N, m, o))
<1> DEFINE w == FreeWalk(N, m, o)
<1>1. m \in 0 .. N /\ m \in Nat /\ o \in [1 .. N -> 0 .. N - 1]
      BY DEF Threaded
<1>2. w = [k \in 0 .. N |-> w[k]] /\ \A k \in 0 .. N : w[k] = IF m + k < N THEN o[(m + k) + 1] ELSE -1
      BY DEF FreeWalk
<1> HIDE DEF w
<1>3. ASSUME NEW k \in 0 .. N
      PROVE  w[k] = IF k = 0 THEN fr ELSE IF w[k - 1] = -1 THEN -1 ELSE nx[w[k - 1]]
  <2>1. CASE k = 0
    <3>1. m + 0 = m /\ 0 \in 0 .. N /\ (m < N <=> m # N)
          BY <1>1
    <3>2. w[0] = IF m < N THEN o[m + 1] ELSE -1
          BY <1>2, <3>1
    <3>3. QED
          BY <2>1, <3>1, <3>2 DEF Threaded
  <2>2. CASE k # 0 /\ N < m + k
    <3>1. k - 1 \in 0 .. N /\ ~(m + (k - 1) < N) /\ ~(m + k < N)
          BY <1>1, <2>2
    <3>2. QED
          BY <1>2, <2>2, <3>1
  <2>3. CASE k # 0 /\ m + k <= N
    <3>1. /\ k - 1 \in 0 .. N /\ m + (k - 1) < N /\ (m + (k - 1)) + 1 = m + k /\ m + k \in 1 .. N
          /\ (m + k < N <=> m + k # N) /\ m + k # m
          BY <1>1, <2>3
    <3>2. w[k - 1] = o[m + k] /\ o[m + k] # -1
          BY <1>1, <1>2, <3>1
    <3>3. nx[o[m + k]] = IF m + k = m \/ m + k = N THEN -1 ELSE o[(m + k) + 1]
          BY <3>1 DEF Threaded
    <3>4. w[k] = IF m + k < N THEN o[(m + k) + 1] ELSE -1
          BY <1>2
    <3>5. QED
          BY <2>3, <3>1, <3>2, <3>3, <3>4
  <2>4. QED
        BY <1>1, <2>1, <2>2, <2>3
<1>4. QED
      BY <1>2, <1>3 DEF IsWalk, w

\* The nodes met are the first m of the order, and the others.
Firsts(m, o) == {o[i] : i \in 1 .. m}
Lasts(N, m, o) == {o[i] : i \in m + 1 .. N}

\* The two walks meet every node exactly once and end.
LEMMA ListedNodes ==
    ASSUME NEW N \in Nat \ {0}, NEW nx, NEW hd, NEW fr, NEW m, NEW o, Threaded(N, nx, hd, fr, m, o)
    PROVE  /\ {UsedWalk(N, m, o)[k] : k \in 0 .. N - 1} \ {-1} = Firsts(m, o)
           /\ {FreeWalk(N, m, o)[k] : k \in 0 .. N - 1} \ {-1} = Lasts(N, m, o)
           /\ UsedWalk(N, m, o)[N] = -1 /\ FreeWalk(N, m, o)[N] = -1
           /\ Firsts(m, o) \cap Lasts(N, m, o) = {} /\ Firsts(m, o) \cup Lasts(N, m, o) = 0 .. N - 1
<1> DEFINE u == UsedWalk(N, m, o)
           v == FreeWalk(N, m, o)
<1>1. m \in 0 .. N /\ m \in Nat /\ o \in [1 .. N -> 0 .. N - 1]
      BY DEF Threaded
<1>2. \A k \in 0 .. N : u[k] = IF k < m THEN o[k + 1] ELSE -1
      BY DEF UsedWalk
<1>3. \A k \in 0 .. N : v[k] = IF m + k < N THEN o[(m + k) + 1] ELSE -1
      BY DEF FreeWalk
<1> HIDE DEF u, v
<1>4. u[N] = -1 /\ v[N] = -1
  <2>1. N \in 0 .. N /\ ~(N < m) /\ ~(m + N < N)
        BY <1>1
  <2>2. QED
        BY <1>2, <1>3, <2>1
<1>5. \A i \in 1 .. m : i \in 1 .. N /\ i - 1 \in 0 .. N - 1 /\ i - 1 \in 0 .. N /\ i - 1 < m /\ (i - 1) + 1 = i
      BY <1>1
<1>6. {u[k] : k \in 0 .. N - 1} \ {-1} \subseteq Firsts(m, o)
  <2> SUFFICES ASSUME NEW k \in 0 .. N - 1, u[k] # -1 PROVE u[k] \in Firsts(m, o)
      OBVIOUS
  <2>1. k \in 0 .. N
        OBVIOUS
  <2>2. k < m /\ u[k] = o[k + 1]
        BY <1>2, <2>1
  <2>3. k + 1 \in 1 .. m
        BY <1>1, <2>1, <2>2
  <2>4. QED
        BY <2>2, <2>3 DEF Firsts
<1>7. Firsts(m, o) \subseteq {u[k] : k \in 0 .. N - 1} \ {-1}
  <2> SUFFICES ASSUME NEW i \in 1 .. m PROVE o[i] \in {u[k] : k \in 0 .. N - 1} \ {-1}
      BY DEF Firsts
  <2>1. u[i - 1] = o[i] /\ o[i] # -1
        BY <1>1, <1>2, <1>5
  <2>2. QED
        BY <1>5, <2>1
<1>8. {v[k] : k \in 0 .. N - 1} \ {-1} \subseteq Lasts(N, m, o)
  <2> SUFFICES ASSUME NEW k \in 0 .. N - 1, v[k] # -1 PROVE v[k] \in Lasts(N, m, o)
      OBVIOUS
  <2>1. k \in 0 .. N
        OBVIOUS
  <2>2. m + k < N /\ v[k] = o[(m + k) + 1]
        BY <1>3, <2>1
  <2>3. (m + k) + 1 \in m + 1 .. N
        BY <1>1, <2>1, <2>2
  <2>4. QED
        BY <2>2, <2>3 DEF Lasts
<1>9. Lasts(N, m, o) \subseteq {v[k] : k \in 0 .. N - 1} \ {-1}
  <2> SUFFICES ASSUME NEW i \in m + 1 .. N PROVE o[i] \in {v[k] : k \in 0 .. N - 1} \ {-1}
      BY DEF Lasts
  <2>0. PICK k \in Int : k = (i - m) - 1
        BY <1>1
  <2>1. i \in 1 .. N /\ k \in 0 .. N - 1 /\ k \in 0 .. N /\ m + k < N /\ (m + k) + 1 = i
        BY <1>1, <2>0
  <2>2. v[k] = o[i] /\ o[i] # -1
        BY <1>1, <1>3, <2>1
  <2>3. QED
        BY <2>1, <2>2
<1>10. Firsts(m, o) \cap Lasts(N, m, o) = {}
  <2> SUFFICES ASSUME NEW i \in 1 .. m, NEW j \in m + 1 .. N, o[i] = o[j] PROVE FALSE
      BY DEF Firsts, Lasts
  <2>1. i \in 1 .. N /\ j \in 1 .. N /\ i # j
        BY <1>1
  <2>2. QED
        BY <2>1 DEF Threaded
<1>11. Firsts(m, o) \cup Lasts(N, m, o) = 0 .. N - 1
  <2>1. ASSUME NEW x \in 0 .. N - 1 PROVE x \in Firsts(m, o) \cup Lasts(N, m, o)
    <3>1. PICK i \in 1 .. N : o[i] = x
          BY DEF Threaded
    <3>2. i \in 1 .. m \/ i \in m + 1 .. N
          BY <1>1
    <3>3. QED
          BY <3>1, <3>2 DEF Firsts, Lasts
  <2>2. (\A i \in 1 .. m : i \in 1 .. N) /\ (\A i \in m + 1 .. N : i \in 1 .. N)
        BY <1>1
  <2>3. Firsts(m, o) \subseteq 0 .. N - 1 /\ Lasts(N, m, o) \subseteq 0 .. N - 1
        BY <1>1, <2>2 DEF Firsts, Lasts
  <2>4. QED
        BY <2>1, <2>3
<1>12. QED
      BY <1>4, <1>6, <1>7, <1>8, <1>9, <1>10, <1>11 DEF u, v

\* Both lists of a threaded pool end, and each node is in exactly one.
LEMMA Lists ==
    ASSUME NEW N \in Nat \ {0}, NEW nx, NEW hd, NEW fr, NEW m, NEW o, Threaded(N, nx, hd, fr, m, o)
    PROVE  /\ ListedOf(N, nx, hd) = Firsts(m, o) /\ ListedOf(N, nx, fr) = Lasts(N, m, o)
           /\ WalkOf(N, nx, hd)[N] = -1 /\ WalkOf(N, nx, fr)[N] = -1
           /\ Firsts(m, o) \cap Lasts(N, m, o) = {} /\ Firsts(m, o) \cup Lasts(N, m, o) = 0 .. N - 1
<1>1. WalkOf(N, nx, hd) = UsedWalk(N, m, o) /\ WalkOf(N, nx, fr) = FreeWalk(N, m, o)
      BY TheWalk, UsedIsWalk, FreeIsWalk
<1>2. QED
      BY <1>1, ListedNodes DEF ListedOf

\* The node a deletion finds before another one is the one before it in the
\* order, and only nodes in use are found.
LEMMA Befores ==
    ASSUME NEW N \in Nat \ {0}, NEW nx, NEW hd, NEW fr, NEW m, NEW o, Threaded(N, nx, hd, fr, m, o)
    PROVE  /\ \A i \in 1 .. m : i # 1 => i - 1 \in 1 .. m /\ BeforeOf(N, nx, hd, o[i]) = {o[i - 1]}
           /\ \A x \in 0 .. N - 1 : x = hd \/ BeforeOf(N, nx, hd, x) # {} => \E i \in 1 .. m : x = o[i]
<1>1. m \in 0 .. N /\ m \in Nat /\ o \in [1 .. N -> 0 .. N - 1]
      BY DEF Threaded
<1>2. ListedOf(N, nx, hd) = Firsts(m, o)
      BY Lists
<1>3. \A j \in 1 .. m : j \in 1 .. N /\ j + 1 \in 2 .. m + 1 /\ (j # m => j + 1 \in 1 .. m /\ j + 1 \in 1 .. N /\ j # N)
      BY <1>1
<1>4. \A j \in 1 .. m : nx[o[j]] = IF j = m THEN -1 ELSE o[j + 1]
      BY <1>3 DEF Threaded
<1>5. ASSUME NEW i \in 1 .. m, i # 1 PROVE i - 1 \in 1 .. m /\ BeforeOf(N, nx, hd, o[i]) = {o[i - 1]}
  <2>1. i - 1 \in 1 .. m /\ i - 1 # m /\ (i - 1) + 1 = i /\ i \in 1 .. N
        BY <1>1, <1>5
  <2>2. nx[o[i - 1]] = o[i] /\ o[i - 1] \in Firsts(m, o)
        BY <1>4, <2>1 DEF Firsts
  <2>3. ASSUME NEW j \in 1 .. m, nx[o[j]] = o[i] PROVE o[j] = o[i - 1]
    <3>1. o[i] # -1
          BY <1>1, <2>1
    <3>2. j # m /\ o[j + 1] = o[i]
          BY <1>4, <2>3, <3>1
    <3>3. j + 1 = i
          BY <1>3, <2>1, <3>2 DEF Threaded
    <3>4. j = i - 1
          BY <3>3
    <3>5. QED
          BY <3>4
  <2>4. \A q \in Firsts(m, o) : nx[q] = o[i] => q = o[i - 1]
        BY <2>3 DEF Firsts
  <2>5. {q \in Firsts(m, o) : nx[q] = o[i]} = {o[i - 1]}
        BY <2>2, <2>4
  <2>6. QED
        BY <1>2, <2>1, <2>5 DEF BeforeOf
<1>6. ASSUME NEW x \in 0 .. N - 1, x = hd \/ BeforeOf(N, nx, hd, x) # {} PROVE \E i \in 1 .. m : x = o[i]
  <2>1. CASE x = hd
    <3>1. m # 0 /\ x = o[1]
          BY <2>1 DEF Threaded
    <3>2. 1 \in 1 .. m
          BY <1>1, <3>1
    <3>3. QED
          BY <3>1, <3>2
  <2>2. CASE BeforeOf(N, nx, hd, x) # {}
    <3>1. PICK j \in 1 .. m : nx[o[j]] = x
          BY <1>2, <2>2 DEF BeforeOf, Firsts
    <3>2. j # m /\ x = o[j + 1]
          BY <1>4, <3>1
    <3>3. QED
          BY <1>3, <3>2
  <2>3. QED
        BY <1>6, <2>1, <2>2
<1>7. QED
      BY <1>5, <1>6

\* The parts of a threaded pool have their types.
LEMMA ThreadedTypes ==
    ASSUME NEW N \in Nat \ {0}, NEW nx, NEW hd, NEW fr, NEW m, NEW o, Threaded(N, nx, hd, fr, m, o)
    PROVE  /\ m \in 0 .. N /\ m \in Nat /\ o \in [1 .. N -> 0 .. N - 1]
           /\ nx \in [0 .. N - 1 -> -1 .. N - 1] /\ hd \in -1 .. N - 1 /\ fr \in -1 .. N - 1
           /\ (m # 0 => hd = o[1]) /\ \A i, j \in 1 .. N : o[i] = o[j] => i = j
<1>1. m \in 0 .. N /\ m \in Nat /\ o \in [1 .. N -> 0 .. N - 1] /\ nx \in [0 .. N - 1 -> -1 .. N - 1]
      BY DEF Threaded
<1>2. 1 \in 1 .. N /\ (m # N => m + 1 \in 1 .. N)
      BY <1>1
<1>3. (hd = -1 \/ hd = o[1]) /\ (fr = -1 \/ (m # N /\ fr = o[m + 1]))
      BY DEF Threaded
<1>4. (m # 0 => hd = o[1]) /\ \A i, j \in 1 .. N : o[i] = o[j] => i = j
      BY DEF Threaded
<1>5. QED
      BY <1>1, <1>2, <1>3, <1>4

\* What free_wp writes to next and head.
Frees(N, nx, hd, fr, x, ny, hd1) ==
    \/ x = hd /\ hd1 = nx[hd] /\ ny = [nx EXCEPT ![x] = fr]
    \/ /\ x # hd /\ hd1 = hd
       /\ \E q \in BeforeOf(N, nx, hd, x) : ny = [nx EXCEPT ![q] = nx[x], ![x] = fr]

\* Deleting a point as free_wp does it, from the front or from behind another.
LEMMA ThreadedDelete ==
    ASSUME NEW N \in Nat \ {0}, NEW nx, NEW hd, NEW fr, NEW m, NEW o, Threaded(N, nx, hd, fr, m, o),
           NEW x \in 0 .. N - 1, x = hd \/ BeforeOf(N, nx, hd, x) # {}, NEW ny, NEW hd1,
           Frees(N, nx, hd, fr, x, ny, hd1)
    PROVE  \E i \in 1 .. m : x = o[i] /\ Threaded(N, ny, hd1, x, m - 1, ToFree(N, m, o, i))
<1>1. /\ m \in 0 .. N /\ m \in Nat /\ o \in [1 .. N -> 0 .. N - 1]
      /\ nx \in [0 .. N - 1 -> -1 .. N - 1] /\ (m # 0 => hd = o[1])
      BY ThreadedTypes
<1>2. fr \in -1 .. N - 1 /\ \A i, j \in 1 .. N : o[i] = o[j] => i = j
      BY ThreadedTypes
<1>3. PICK i \in 1 .. m : x = o[i]
      BY Befores
<1>4. i \in 1 .. N /\ m # 0
      BY <1>1
<1>5. hd = o[1] /\ 1 \in 1 .. N
      BY <1>1, <1>4
<1>6. x = hd <=> i = 1
      BY <1>2, <1>3, <1>4, <1>5
<1>7. CASE i = 1
  <2>1. hd1 = nx[o[i]] /\ ny = [nx EXCEPT ![x] = fr]
        BY <1>3, <1>6, <1>7 DEF Frees
  <2>2. ny \in [0 .. N - 1 -> -1 .. N - 1] /\ ny[x] = fr /\ \A y \in 0 .. N - 1 : y # x => ny[y] = nx[y]
        BY <1>1, <1>2, <2>1
  <2>3. ~(i > 1)
        BY <1>7
  <2>4. Threaded(N, ny, IF i = 1 THEN nx[o[i]] ELSE hd, o[i], m - 1, ToFree(N, m, o, i))
        BY <1>3, <2>2, <2>3, ThreadedFree
  <2>5. QED
        BY <1>3, <1>7, <2>1, <2>4
<1>8. CASE i # 1
  <2>1. BeforeOf(N, nx, hd, x) = {o[i - 1]} /\ i - 1 \in 1 .. m
        BY <1>3, <1>8, Befores
  <2>2. i - 1 \in 1 .. N /\ i - 1 # i
        BY <1>1, <2>1
  <2>4. hd1 = hd /\ ny = [nx EXCEPT ![o[i - 1]] = nx[x], ![x] = fr]
        BY <1>6, <1>8, <2>1 DEF Frees
  <2>5. o[i - 1] \in 0 .. N - 1 /\ o[i - 1] # x /\ nx[x] \in -1 .. N - 1
        BY <1>1, <1>2, <1>3, <1>4, <2>2
  <2>6. /\ ny \in [0 .. N - 1 -> -1 .. N - 1] /\ ny[x] = fr /\ ny[o[i - 1]] = nx[x]
        /\ \A y \in 0 .. N - 1 : y # x /\ y # o[i - 1] => ny[y] = nx[y]
    <3> DEFINE z == o[i - 1]
    <3>1. z \in 0 .. N - 1 /\ z # x /\ ny = [nx EXCEPT ![z] = nx[x], ![x] = fr]
          BY <2>4, <2>5
    <3> HIDE DEF z
    <3>2. /\ ny \in [0 .. N - 1 -> -1 .. N - 1] /\ ny[x] = fr /\ ny[z] = nx[x]
          /\ \A y \in 0 .. N - 1 : y # x /\ y # z => ny[y] = nx[y]
          BY <1>1, <1>2, <2>5, <3>1
    <3>3. QED
          BY <3>2 DEF z
  <2>7. i > 1
        BY <1>8
  <2>8. Threaded(N, ny, IF i = 1 THEN nx[o[i]] ELSE hd, o[i], m - 1, ToFree(N, m, o, i))
    <3>1. ny[o[i]] = fr /\ (i > 1 => ny[o[i - 1]] = nx[o[i]])
          BY <1>3, <2>6
    <3>2. \A y \in 0 .. N - 1 : y # o[i] /\ (i > 1 => y # o[i - 1]) => ny[y] = nx[y]
          BY <1>3, <2>6, <2>7
    <3>3. ny \in [0 .. N - 1 -> -1 .. N - 1]
          BY <2>6
    <3>4. ny[o[i]] = fr
          BY <3>1
    <3>5. i > 1 => ny[o[i - 1]] = nx[o[i]]
          BY <3>1
    <3>6. QED
          BY <3>2, <3>3, <3>4, <3>5, ThreadedFree, Zenon
  <2>9. QED
        BY <1>3, <1>8, <2>4, <2>8
<1>9. QED
      BY <1>7, <1>8

(***************************************************************************)
(* The invariant: both pools stay threaded, the other variables typed.     *)
(***************************************************************************)
WpThreaded ==
    \E m \in 0 .. NR_WP : \E o \in [1 .. NR_WP -> 0 .. NR_WP - 1] :
        Threaded(NR_WP, wp_next, wp_head, wp_free, m, o)
BpThreaded ==
    \E m \in 0 .. NR_BP : \E o \in [1 .. NR_BP -> 0 .. NR_BP - 1] :
        Threaded(NR_BP, bp_next, bp_head, bp_free, m, o)
\* The loop of execute is never entered with nothing left to run, so the count
\* does not pass 0.
Places ==
    /\ sdb_state \in {"Running", "Stop", "End", "Quit", "Abort"} /\ sdb_halt_ret \in {0, 1}
    /\ at \in {"batch", "prompt", "cycle", "poll", "return", "exited", "crashed"}
    /\ n \in -1 .. MaxSi /\ (at = "cycle" => n # 0)
    /\ last_val \in [0 .. NR_WP - 1 -> Values \cup {"error"}] /\ bp_addr \in [0 .. NR_BP - 1 -> Pcs]
    /\ value \in Values \cup {"error"}
    /\ is_batch_mode \in BOOLEAN /\ resume_from_ctrl_c \in BOOLEAN /\ sim_stop_requested \in BOOLEAN
    /\ got_ebreak \in BOOLEAN /\ mismatched \in BOOLEAN

\* Nodes and pointers of the two pools.
LEMMA NodesAre ==
    /\ NR_WP \in Nat \ {0} /\ NR_BP \in Nat \ {0} /\ MaxSi \in Nat
    /\ WP!Nodes = 0 .. NR_WP - 1 /\ BP!Nodes = 0 .. NR_BP - 1
    /\ WP!Pointers = -1 .. NR_WP - 1 /\ BP!Pointers = -1 .. NR_BP - 1
<1>1. NR_WP \in Nat \ {0} /\ NR_BP \in Nat \ {0} /\ MaxSi \in Nat
      BY PoolsAssumption, MaxSiAssumption
<1>2. QED
      BY <1>1 DEF WP!Nodes, BP!Nodes, WP!Pointers, BP!Pointers, WP!Null, BP!Null

\* init_wp_pool and init_bp_pool thread all nodes into the free list.
LEMMA PoolsInit == Init => Places /\ WpThreaded /\ BpThreaded
<1> SUFFICES ASSUME Init PROVE Places /\ WpThreaded /\ BpThreaded
    OBVIOUS
<1>1. Places
  <2>1. (CHOOSE pc \in Pcs : TRUE) \in Pcs
        BY PcsAssumption
  <2>2. bp_addr \in [0 .. NR_BP - 1 -> Pcs]
        BY <2>1, NodesAre DEF Init
  <2>3. last_val \in [0 .. NR_WP - 1 -> Values \cup {"error"}]
        BY NodesAre DEF Init
  <2>4. /\ n = 0 /\ at \in {"batch", "prompt"} /\ value \in Values /\ is_batch_mode \in BOOLEAN
        /\ sdb_state = "Stop" /\ sdb_halt_ret = 0
        /\ mismatched = FALSE /\ resume_from_ctrl_c = FALSE /\ sim_stop_requested = FALSE /\ got_ebreak = FALSE
        BY DEF Init
  <2>5. n \in -1 .. MaxSi
        BY <2>4, NodesAre
  <2>6. QED
        BY <2>2, <2>3, <2>4, <2>5 DEF Places
<1>2. WpThreaded
  <2>1. /\ wp_next = [i \in 0 .. NR_WP - 1 |-> IF i = NR_WP - 1 THEN -1 ELSE i + 1]
        /\ wp_head = -1 /\ wp_free = 0
        BY NodesAre DEF Init, WP!InitPool, WP!Null
  <2>2. Threaded(NR_WP, wp_next, wp_head, wp_free, 0, [i \in 1 .. NR_WP |-> i - 1])
        BY <2>1, NodesAre, ThreadedInit
  <2>3. QED
        BY <2>2, NodesAre, ThreadedTypes DEF WpThreaded
<1>3. BpThreaded
  <2>1. /\ bp_next = [i \in 0 .. NR_BP - 1 |-> IF i = NR_BP - 1 THEN -1 ELSE i + 1]
        /\ bp_head = -1 /\ bp_free = 0
        BY NodesAre DEF Init, BP!InitPool, BP!Null
  <2>2. Threaded(NR_BP, bp_next, bp_head, bp_free, 0, [i \in 1 .. NR_BP |-> i - 1])
        BY <2>1, NodesAre, ThreadedInit
  <2>3. QED
        BY <2>2, NodesAre, ThreadedTypes DEF BpThreaded
<1>4. QED
      BY <1>1, <1>2, <1>3

\* new_wp keeps the pool of watchpoints threaded.
LEMMA WpNew == ASSUME WpThreaded, WP!Available, WP!New PROVE WpThreaded'
<1>1. PICK m, o : Threaded(NR_WP, wp_next, wp_head, wp_free, m, o)
      BY DEF WpThreaded
<1>2. /\ wp_free # -1 /\ wp_free' = wp_next[wp_free] /\ wp_head' = wp_free
      /\ wp_next' = [wp_next EXCEPT ![wp_free] = wp_head]
      BY DEF WP!Available, WP!New, WP!Null
<1>3. Threaded(NR_WP, wp_next', wp_head', wp_free', m + 1, ToFront(NR_WP, m, o))
      BY <1>1, <1>2, NodesAre, ThreadedNew
<1>4. QED
      BY <1>3, NodesAre, ThreadedTypes DEF WpThreaded

\* So does new_bp that of breakpoints.
LEMMA BpNew == ASSUME BpThreaded, BP!Available, BP!New PROVE BpThreaded'
<1>1. PICK m, o : Threaded(NR_BP, bp_next, bp_head, bp_free, m, o)
      BY DEF BpThreaded
<1>2. /\ bp_free # -1 /\ bp_free' = bp_next[bp_free] /\ bp_head' = bp_free
      /\ bp_next' = [bp_next EXCEPT ![bp_free] = bp_head]
      BY DEF BP!Available, BP!New, BP!Null
<1>3. Threaded(NR_BP, bp_next', bp_head', bp_free', m + 1, ToFront(NR_BP, m, o))
      BY <1>1, <1>2, NodesAre, ThreadedNew
<1>4. QED
      BY <1>3, NodesAre, ThreadedTypes DEF BpThreaded

\* The lists of Pool are the lists read off the order.
LEMMA WpLists ==
    /\ \A p : WP!Walk(p) = WalkOf(NR_WP, wp_next, p) /\ WP!Listed(p) = ListedOf(NR_WP, wp_next, p)
    /\ \A x : WP!Before(x) = BeforeOf(NR_WP, wp_next, wp_head, x)
<1>1. ASSUME NEW p PROVE WP!Walk(p) = WalkOf(NR_WP, wp_next, p)
      BY Zenon DEF WP!Walk, WP!Null, WalkOf, IsWalk
<1>2. ASSUME NEW p PROVE WP!Listed(p) = ListedOf(NR_WP, wp_next, p)
      BY <1>1, Zenon DEF WP!Listed, WP!Null, ListedOf
<1>3. \A x : WP!Before(x) = BeforeOf(NR_WP, wp_next, wp_head, x)
      BY <1>2, Zenon DEF WP!Before, BeforeOf
<1>4. QED
      BY <1>1, <1>2, <1>3

\* The same for breakpoints.
LEMMA BpLists ==
    \A p : BP!Walk(p) = WalkOf(NR_BP, bp_next, p) /\ BP!Listed(p) = ListedOf(NR_BP, bp_next, p)
<1>1. ASSUME NEW p PROVE BP!Walk(p) = WalkOf(NR_BP, bp_next, p)
      BY Zenon DEF BP!Walk, BP!Null, WalkOf, IsWalk
<1>2. ASSUME NEW p PROVE BP!Listed(p) = ListedOf(NR_BP, bp_next, p)
      BY <1>1, Zenon DEF BP!Listed, BP!Null, ListedOf
<1>3. QED
      BY <1>1, <1>2

\* free_wp keeps the pool of watchpoints threaded, and the node it frees was
\* one in use.
LEMMA WpFree ==
    ASSUME NEW m, NEW o, Threaded(NR_WP, wp_next, wp_head, wp_free, m, o),
           NEW x \in 0 .. NR_WP - 1, WP!InList(x), WP!Free(x)
    PROVE  \E i \in 1 .. m : /\ x = o[i]
                             /\ Threaded(NR_WP, wp_next', wp_head', wp_free', m - 1, ToFree(NR_WP, m, o, i))
<1> DEFINE before == BeforeOf(NR_WP, wp_next, wp_head, x)
<1>1. WP!Before(x) = before
      BY WpLists
<1> HIDE DEF before
<1>2. x = wp_head \/ before # {}
      BY <1>1 DEF WP!InList
<1>3. wp_free' = x
      BY DEF WP!Free
<1>4. \/ x = wp_head /\ wp_head' = wp_next[wp_head] /\ wp_next' = [wp_next EXCEPT ![x] = wp_free]
      \/ /\ x # wp_head /\ wp_head' = wp_head
         /\ \E q \in before : wp_next' = [wp_next EXCEPT ![q] = wp_next[x], ![x] = wp_free]
  <2>1. CASE x = wp_head
        BY <2>1 DEF WP!Free
  <2>2. CASE x # wp_head
    <3>1. (CHOOSE q \in before : TRUE) \in before
          BY <1>2, <2>2
    <3>2. /\ wp_head' = wp_head
          /\ wp_next' = [wp_next EXCEPT ![CHOOSE q \in before : TRUE] = wp_next[x], ![x] = wp_free]
          BY <1>1, <2>2, Zenon DEF WP!Free, WP!Unlink
    <3>3. QED
          BY <2>2, <3>1, <3>2, Zenon
  <2>3. QED
        BY <2>1, <2>2
<1>5. NR_WP \in Nat \ {0}
      BY NodesAre
<1>6. \E i \in 1 .. m : x = o[i] /\ Threaded(NR_WP, wp_next', wp_head', x, m - 1, ToFree(NR_WP, m, o, i))
  <2>1. PICK ny, hd1 : ny = wp_next' /\ hd1 = wp_head'
        OBVIOUS
  <2>2. x = wp_head \/ BeforeOf(NR_WP, wp_next, wp_head, x) # {}
        BY <1>2 DEF before
  <2>3. Frees(NR_WP, wp_next, wp_head, wp_free, x, ny, hd1)
        BY <1>4, <2>1, Zenon DEF Frees, before
  <2>4. \E i \in 1 .. m : x = o[i] /\ Threaded(NR_WP, ny, hd1, x, m - 1, ToFree(NR_WP, m, o, i))
        BY <1>5, <2>2, <2>3, ThreadedDelete
  <2>5. QED
        BY <2>1, <2>4
<1>7. QED
      BY <1>3, <1>6

\* Every command, cycle and signal keeps the variables typed.
LEMMA PlacesNext == Places /\ [Next]_vars => Places'
<1> SUFFICES ASSUME Places, [Next]_vars PROVE Places'
    OBVIOUS
<1> USE NodesAre
<1>0. ASSUME NEW k \in -1 .. MaxSi, CpuExec(k), UNCHANGED <<sdb_halt_ret, mismatched, mode_vars>>,
             UNCHANGED <<sim_stop_requested, pool_vars, last_val, core_vars>>
      PROVE  Places'
      BY <1>0 DEF CpuExec, Places, mode_vars, pool_vars, core_vars
<1>1. CASE SomeCycle
  <2>1. PICK ready, ebreak, mismatch \in BOOLEAN, x \in Values \cup {"error"},
             pc \in Pcs \cup {"elsewhere"}, a0 \in {0, 1} : Cycle(ready, ebreak, mismatch, x, pc, a0)
        BY <1>1 DEF SomeCycle
  <2>2. sdb_state' \in {"Running", "Stop", "End", "Quit", "Abort"} /\ sdb_halt_ret' \in {0, 1}
        BY <2>1 DEF Cycle, AfterCycle, Stopped, Places
  <2>3. at' \in {"poll", "return"} /\ value' \in Values \cup {"error"}
        BY <2>1 DEF Cycle
  <2>4. got_ebreak' \in BOOLEAN /\ mismatched' \in BOOLEAN
        BY <2>1 DEF Cycle, Places
  <2>5. n' \in -1 .. MaxSi
        BY <2>1 DEF Cycle, Places, Unbounded
  <2>6. last_val' \in [0 .. NR_WP - 1 -> Values \cup {"error"}]
    <3>1. PICK watched : last_val' = [i \in 0 .. NR_WP - 1 |->
                                        IF i \in watched THEN Updated(last_val[i], x) ELSE last_val[i]]
          BY <2>1 DEF Cycle
    <3>2. \A i \in 0 .. NR_WP - 1 : last_val[i] \in Values \cup {"error"}
          BY DEF Places
    <3>3. QED
          BY <3>1, <3>2 DEF Updated
  <2>7. UNCHANGED <<bp_addr, is_batch_mode, resume_from_ctrl_c, sim_stop_requested>>
        BY <2>1 DEF Cycle, mode_vars, pool_vars
  <2>8. QED
        BY <2>2, <2>3, <2>4, <2>5, <2>6, <2>7 DEF Places
<1>2. CASE Poll
      BY <1>2 DEF Poll, Places, Requested, core_vars, pool_vars
<1>3. CASE Return
      BY <1>3 DEF Return, Places, core_vars, pool_vars
<1>4. CASE BatchC
  <2>1. Unbounded \in -1 .. MaxSi
        BY DEF Unbounded
  <2>2. QED
        BY <1>0, <1>4, <2>1 DEF BatchC
<1>5. CASE CmdC
  <2>1. Unbounded \in -1 .. MaxSi
        BY DEF Unbounded
  <2>2. QED
        BY <1>0, <1>5, <2>1 DEF CmdC
<1>6. CASE \E k \in 0 .. MaxSi : CmdSi(k)
  <2>1. PICK k \in 0 .. MaxSi : CmdSi(k)
        BY <1>6
  <2>2. k \in -1 .. MaxSi
        OBVIOUS
  <2>3. QED
        BY <1>0, <2>1, <2>2 DEF CmdSi
<1>7. CASE CmdQ
      BY <1>7 DEF CmdQ, Places, mode_vars, core_vars, pool_vars
<1>8. CASE EndOfInput
      BY <1>8 DEF EndOfInput, Places, state_vars, mode_vars, core_vars, pool_vars
<1>9. CASE CmdW
      BY <1>9 DEF CmdW, Crash, Places, state_vars, mode_vars, core_vars
<1>10. CASE \E pc \in Pcs : CmdB(pc)
      BY <1>10 DEF CmdB, Crash, Places, state_vars, mode_vars, core_vars
<1>11. CASE \E no \in 0 .. NR_WP + NR_BP - 1 : CmdD(no)
      BY <1>11 DEF CmdD, Crash, Places, state_vars, mode_vars, core_vars
<1>12. CASE Signal
      BY <1>12 DEF Signal, Places, state_vars, mode_vars, core_vars, pool_vars
<1>13. CASE UNCHANGED vars
      BY <1>13 DEF vars, Places
<1>14. QED
      BY <1>1, <1>2, <1>3, <1>4, <1>5, <1>6, <1>7, <1>8, <1>9, <1>10, <1>11, <1>12, <1>13 DEF Next

\* Every step leaves both pools alone, takes one node, or frees one.
LEMMA PoolStep ==
    ASSUME [Next]_vars
    PROVE  \/ UNCHANGED <<wp_next, wp_head, wp_free, bp_next, bp_head, bp_free>>
           \/ WP!Available /\ WP!New /\ UNCHANGED <<bp_next, bp_head, bp_free>>
           \/ BP!Available /\ BP!New /\ UNCHANGED <<wp_next, wp_head, wp_free>>
           \/ /\ \E no \in 0 .. NR_WP - 1 : WP!InList(no) /\ WP!Free(no)
              /\ UNCHANGED <<bp_next, bp_head, bp_free>>
<1>1. CASE \/ SomeCycle \/ Poll \/ Return \/ BatchC \/ CmdC \/ CmdQ \/ EndOfInput \/ Signal
           \/ UNCHANGED vars \/ \E k \in 0 .. MaxSi : CmdSi(k)
      BY <1>1 DEF SomeCycle, Cycle, Poll, Return, BatchC, CmdC, CmdQ, EndOfInput, Signal, CmdSi, vars, pool_vars
<1>2. CASE CmdW
      BY <1>2 DEF CmdW, Crash
<1>3. CASE \E pc \in Pcs : CmdB(pc)
      BY <1>3 DEF CmdB, Crash
<1>4. CASE \E no \in 0 .. NR_WP + NR_BP - 1 : CmdD(no)
  <2>1. PICK no \in 0 .. NR_WP + NR_BP - 1 : CmdD(no)
        BY <1>4
  <2>2. no < NR_WP => no \in 0 .. NR_WP - 1
        BY NodesAre
  <2>3. QED
        BY <2>1, <2>2 DEF CmdD, Crash
<1>5. QED
      BY <1>1, <1>2, <1>3, <1>4 DEF Next

\* Every step keeps both pools threaded.
LEMMA ThreadsNext == WpThreaded /\ BpThreaded /\ [Next]_vars => WpThreaded' /\ BpThreaded'
<1> SUFFICES ASSUME WpThreaded, BpThreaded, [Next]_vars PROVE WpThreaded' /\ BpThreaded'
    OBVIOUS
<1>1. UNCHANGED <<bp_next, bp_head, bp_free>> => BpThreaded'
      BY DEF BpThreaded
<1>2. UNCHANGED <<wp_next, wp_head, wp_free>> => WpThreaded'
      BY DEF WpThreaded
<1>3. ASSUME NEW no \in 0 .. NR_WP - 1, WP!InList(no), WP!Free(no) PROVE WpThreaded'
  <2>1. PICK m, o : Threaded(NR_WP, wp_next, wp_head, wp_free, m, o)
        BY DEF WpThreaded
  <2>2. PICK i \in 1 .. m : Threaded(NR_WP, wp_next', wp_head', wp_free', m - 1, ToFree(NR_WP, m, o, i))
        BY <1>3, <2>1, WpFree
  <2>3. QED
        BY <2>2, NodesAre, ThreadedTypes DEF WpThreaded
<1>4. QED
      BY <1>1, <1>2, <1>3, PoolStep, WpNew, BpNew

\* What is threaded is partitioned: the invariant implies the property.
LEMMA ThreadedPools == Places /\ WpThreaded /\ BpThreaded => PoolsRight
<1> SUFFICES ASSUME Places, WpThreaded, BpThreaded PROVE PoolsRight
    OBVIOUS
<1>1. PICK m, o : Threaded(NR_WP, wp_next, wp_head, wp_free, m, o)
      BY DEF WpThreaded
<1>2. PICK k, p : Threaded(NR_BP, bp_next, bp_head, bp_free, k, p)
      BY DEF BpThreaded
<1>3. WP!Partition
  <2>1. /\ ListedOf(NR_WP, wp_next, wp_head) = Firsts(m, o)
        /\ ListedOf(NR_WP, wp_next, wp_free) = Lasts(NR_WP, m, o)
        /\ WalkOf(NR_WP, wp_next, wp_head)[NR_WP] = -1 /\ WalkOf(NR_WP, wp_next, wp_free)[NR_WP] = -1
        /\ Firsts(m, o) \cap Lasts(NR_WP, m, o) = {} /\ Firsts(m, o) \cup Lasts(NR_WP, m, o) = 0 .. NR_WP - 1
        BY <1>1, NodesAre, Lists
  <2>2. QED
        BY <2>1, WpLists, NodesAre, Zenon DEF WP!Partition, WP!Null
<1>4. BP!Partition
  <2>1. /\ ListedOf(NR_BP, bp_next, bp_head) = Firsts(k, p)
        /\ ListedOf(NR_BP, bp_next, bp_free) = Lasts(NR_BP, k, p)
        /\ WalkOf(NR_BP, bp_next, bp_head)[NR_BP] = -1 /\ WalkOf(NR_BP, bp_next, bp_free)[NR_BP] = -1
        /\ Firsts(k, p) \cap Lasts(NR_BP, k, p) = {} /\ Firsts(k, p) \cup Lasts(NR_BP, k, p) = 0 .. NR_BP - 1
        BY <1>2, NodesAre, Lists
  <2>2. QED
        BY <2>1, BpLists, NodesAre, Zenon DEF BP!Partition, BP!Null
<1>5. TypeOK
  <2>1. wp_next \in [WP!Nodes -> WP!Pointers] /\ wp_head \in WP!Pointers /\ wp_free \in WP!Pointers
        BY <1>1, NodesAre, ThreadedTypes
  <2>2. bp_next \in [BP!Nodes -> BP!Pointers] /\ bp_head \in BP!Pointers /\ bp_free \in BP!Pointers
        BY <1>2, NodesAre, ThreadedTypes
  <2>3. QED
        BY <2>1, <2>2, NodesAre DEF TypeOK, Places
<1>6. QED
      BY <1>3, <1>4, <1>5 DEF PoolsRight, PoolsPartition

\* After any sequence of creations and deletions each node of a pool is in
\* exactly one of its lists and both lists end, for pools of every size.
THEOREM PoolsStayRight == Spec => []PoolsRight
<1>1. Places /\ WpThreaded /\ BpThreaded /\ [Next]_vars => (Places /\ WpThreaded /\ BpThreaded)'
      BY PlacesNext, ThreadsNext
<1>2. QED
      BY PoolsInit, <1>1, ThreadedPools, PTL DEF Spec

(***************************************************************************)
(* What the user sees: the pools implement PointSet, and a watchpoint that *)
(* changes stops the program.                                              *)
(***************************************************************************)
\* Taking a node adds it to the nodes in use.
LEMMA FirstsNew ==
    ASSUME NEW N \in Nat \ {0}, NEW nx, NEW hd, NEW fr, NEW m, NEW o, Threaded(N, nx, hd, fr, m, o), fr # -1
    PROVE  /\ Firsts(m + 1, ToFront(N, m, o)) = Firsts(m, o) \cup {fr}
           /\ fr \notin Firsts(m, o) /\ fr \in 0 .. N - 1
<1> DEFINE p == ToFront(N, m, o)
<1>1. m \in 0 .. N /\ m \in Nat /\ o \in [1 .. N -> 0 .. N - 1] /\ \A i, j \in 1 .. N : o[i] = o[j] => i = j
      BY ThreadedTypes
<1>2. fr = o[m + 1] /\ m + 1 \in 1 .. N
  <2>1. m # N /\ fr = o[m + 1]
        BY DEF Threaded
  <2>2. QED
        BY <1>1, <2>1
<1>3. p[1] = o[m + 1] /\ (\A i \in 2 .. m + 1 : p[i] = o[i - 1])
      BY <1>1, <1>2 DEF ToFront
<1> HIDE DEF p
<1>4. ASSUME NEW j \in 1 .. m + 1 PROVE p[j] \in Firsts(m, o) \cup {fr}
  <2>1. CASE j = 1
        BY <1>2, <1>3, <2>1
  <2>2. CASE j # 1
    <3>1. j \in 2 .. m + 1 /\ j - 1 \in 1 .. m
          BY <1>1, <2>2
    <3>2. p[j] = o[j - 1]
          BY <1>3, <3>1
    <3>3. QED
          BY <3>1, <3>2 DEF Firsts
  <2>3. QED
        BY <2>1, <2>2
<1>5. ASSUME NEW j \in 1 .. m PROVE o[j] \in Firsts(m + 1, p) /\ o[j] # fr
  <2>1. j + 1 \in 2 .. m + 1 /\ j + 1 \in 1 .. m + 1 /\ (j + 1) - 1 = j /\ j \in 1 .. N /\ j # m + 1
        BY <1>1
  <2>2. p[j + 1] = o[j]
        BY <1>3, <2>1
  <2>3. o[j] # fr
        BY <1>1, <1>2, <2>1
  <2>4. QED
        BY <2>1, <2>2, <2>3 DEF Firsts
<1>6. fr \in Firsts(m + 1, p)
  <2>1. 1 \in 1 .. m + 1
        BY <1>1
  <2>2. QED
        BY <1>2, <1>3, <2>1 DEF Firsts
<1>7. fr \in 0 .. N - 1
      BY <1>1, <1>2
<1>8. Firsts(m + 1, p) = Firsts(m, o) \cup {fr} /\ fr \notin Firsts(m, o)
      BY <1>4, <1>5, <1>6 DEF Firsts
<1>9. QED
      BY <1>7, <1>8 DEF p

\* Freeing a node removes it from them and no other.
LEMMA FirstsFree ==
    ASSUME NEW N \in Nat \ {0}, NEW nx, NEW hd, NEW fr, NEW m, NEW o, Threaded(N, nx, hd, fr, m, o), NEW i \in 1 .. m
    PROVE  Firsts(m - 1, ToFree(N, m, o, i)) = Firsts(m, o) \ {o[i]} /\ o[i] \in Firsts(m, o)
<1> DEFINE p == ToFree(N, m, o, i)
<1>1. m \in 0 .. N /\ m \in Nat /\ o \in [1 .. N -> 0 .. N - 1] /\ \A j, k \in 1 .. N : o[j] = o[k] => j = k
      BY ThreadedTypes
<1>2. \A j \in 1 .. m - 1 : j \in 1 .. N /\ p[j] = IF j < i THEN o[j] ELSE o[j + 1]
      BY <1>1 DEF ToFree
<1> HIDE DEF p
<1>3. i \in Int /\ 1 <= i /\ i <= m /\ i \in 1 .. N
      BY <1>1
<1>4. ASSUME NEW j \in 1 .. m - 1 PROVE p[j] \in Firsts(m, o) \ {o[i]}
  <2>1. CASE j < i
    <3>1. j \in 1 .. m /\ j \in 1 .. N /\ j # i
          BY <1>1, <2>1
    <3>2. p[j] = o[j] /\ o[j] # o[i]
          BY <1>1, <1>2, <1>3, <2>1, <3>1
    <3>3. QED
          BY <3>1, <3>2 DEF Firsts
  <2>2. CASE ~(j < i)
    <3>1. j + 1 \in 1 .. m /\ j + 1 \in 1 .. N /\ j + 1 # i
          BY <1>1, <1>3, <2>2
    <3>2. p[j] = o[j + 1]
          BY <1>2, <2>2
    <3>3. o[j + 1] # o[i]
          BY <1>1, <1>3, <3>1
    <3>4. QED
          BY <3>1, <3>2, <3>3 DEF Firsts
  <2>3. QED
        BY <2>1, <2>2
<1>5. ASSUME NEW j \in 1 .. m, o[j] # o[i] PROVE o[j] \in Firsts(m - 1, p)
  <2>0. j \in Int /\ j # i
        BY <1>5
  <2>1. CASE j < i
    <3>1. j \in 1 .. m - 1
          BY <1>1, <1>3, <2>1
    <3>2. p[j] = o[j]
          BY <1>2, <2>1, <3>1
    <3>3. QED
          BY <3>1, <3>2 DEF Firsts
  <2>2. CASE j > i
    <3>1. j - 1 \in 1 .. m - 1 /\ ~(j - 1 < i) /\ (j - 1) + 1 = j
          BY <1>1, <1>3, <2>2
    <3>2. p[j - 1] = o[j]
          BY <1>2, <3>1
    <3>3. QED
          BY <3>1, <3>2 DEF Firsts
  <2>3. QED
        BY <1>3, <2>0, <2>1, <2>2
<1>6. Firsts(m - 1, p) = Firsts(m, o) \ {o[i]}
      BY <1>4, <1>5 DEF Firsts
<1>7. QED
      BY <1>6 DEF p, Firsts

\* The numbers of points are what the orders say, in this state and in the next.
LEMMA PointsAre ==
    ASSUME NEW m, NEW o, NEW k, NEW p
    PROVE  /\ /\ Threaded(NR_WP, wp_next, wp_head, wp_free, m, o)
              /\ Threaded(NR_BP, bp_next, bp_head, bp_free, k, p)
              => Watched \cup {NR_WP + i : i \in BP!Listed(bp_head)} = Firsts(m, o) \cup {NR_WP + i : i \in Firsts(k, p)}
           /\ /\ Threaded(NR_WP, wp_next', wp_head', wp_free', m, o)
              /\ Threaded(NR_BP, bp_next', bp_head', bp_free', k, p)
              => (Watched \cup {NR_WP + i : i \in BP!Listed(bp_head)})' = Firsts(m, o) \cup {NR_WP + i : i \in Firsts(k, p)}
<1>1. ASSUME Threaded(NR_WP, wp_next, wp_head, wp_free, m, o), Threaded(NR_BP, bp_next, bp_head, bp_free, k, p)
      PROVE  Watched = Firsts(m, o) /\ BP!Listed(bp_head) = Firsts(k, p)
  <2>1. ListedOf(NR_WP, wp_next, wp_head) = Firsts(m, o) /\ ListedOf(NR_BP, bp_next, bp_head) = Firsts(k, p)
        BY <1>1, NodesAre, Lists
  <2>2. QED
        BY <2>1, WpLists, BpLists DEF Watched
<1>2. ASSUME Threaded(NR_WP, wp_next', wp_head', wp_free', m, o), Threaded(NR_BP, bp_next', bp_head', bp_free', k, p)
      PROVE  Watched' = Firsts(m, o) /\ BP!Listed(bp_head)' = Firsts(k, p)
  <2>1. ListedOf(NR_WP, wp_next', wp_head') = Firsts(m, o) /\ ListedOf(NR_BP, bp_next', bp_head') = Firsts(k, p)
        BY <1>2, NodesAre, Lists
  <2>2. WP!Listed(wp_head)' = ListedOf(NR_WP, wp_next', wp_head')
        BY Zenon DEF WP!Listed, WP!Walk, WP!Null, ListedOf, WalkOf, IsWalk
  <2>3. BP!Listed(bp_head)' = ListedOf(NR_BP, bp_next', bp_head')
        BY Zenon DEF BP!Listed, BP!Walk, BP!Null, ListedOf, WalkOf, IsWalk
  <2>4. QED
        BY <2>1, <2>2, <2>3 DEF Watched
<1>3. QED
      BY <1>1, <1>2, Zenon

\* Watchpoints have the numbers below NR_WP, breakpoints those from NR_WP on:
\* adding or removing one does not touch the others.
Numbered(A, B) == A \cup {NR_WP + i : i \in B}

\* A new watchpoint.
LEMMA NumberNewWp ==
    ASSUME NEW A \in SUBSET (0 .. NR_WP - 1), NEW B \in SUBSET (0 .. NR_BP - 1), NEW x \in (0 .. NR_WP - 1) \ A
    PROVE  /\ x \in (0 .. NR_WP + NR_BP - 1) \ Numbered(A, B)
           /\ Numbered(A \cup {x}, B) = Numbered(A, B) \cup {x}
<1>1. x \in 0 .. NR_WP + NR_BP - 1 /\ \A i \in 0 .. NR_BP - 1 : x # NR_WP + i
      BY NodesAre
<1>2. QED
      BY <1>1 DEF Numbered

\* A deleted one.
LEMMA NumberDeleteWp ==
    ASSUME NEW A \in SUBSET (0 .. NR_WP - 1), NEW B \in SUBSET (0 .. NR_BP - 1), NEW x \in A
    PROVE  x \in Numbered(A, B) /\ Numbered(A \ {x}, B) = Numbered(A, B) \ {x}
<1>1. \A i \in 0 .. NR_BP - 1 : x # NR_WP + i
      BY NodesAre
<1>2. QED
      BY <1>1 DEF Numbered

\* A new breakpoint.
LEMMA NumberNewBp ==
    ASSUME NEW A \in SUBSET (0 .. NR_WP - 1), NEW B \in SUBSET (0 .. NR_BP - 1), NEW x \in (0 .. NR_BP - 1) \ B
    PROVE  /\ NR_WP + x \in (0 .. NR_WP + NR_BP - 1) \ Numbered(A, B)
           /\ Numbered(A, B \cup {x}) = Numbered(A, B) \cup {NR_WP + x}
<1>1. /\ NR_WP + x \in 0 .. NR_WP + NR_BP - 1 /\ \A i \in 0 .. NR_BP - 1 : NR_WP + x = NR_WP + i => x = i
      /\ NR_WP + x \notin 0 .. NR_WP - 1
      BY NodesAre
<1>2. NR_WP + x \notin Numbered(A, B)
      BY <1>1 DEF Numbered
<1>3. {NR_WP + i : i \in B \cup {x}} = {NR_WP + i : i \in B} \cup {NR_WP + x}
      OBVIOUS
<1>4. QED
      BY <1>1, <1>2, <1>3 DEF Numbered

\* Each step of the debugger creates a point with a number that was not taken,
\* deletes one and leaves the others alone, or changes none.
LEMMA PointStep ==
    ASSUME WpThreaded, BpThreaded, [Next]_vars
    PROVE  [Points!Create \/ Points!Delete]_(Watched \cup {NR_WP + i : i \in BP!Listed(bp_head)})
<1> DEFINE pts == Watched \cup {NR_WP + i : i \in BP!Listed(bp_head)}
<1>1. PICK m, o : Threaded(NR_WP, wp_next, wp_head, wp_free, m, o)
      BY DEF WpThreaded
<1>2. PICK k, p : Threaded(NR_BP, bp_next, bp_head, bp_free, k, p)
      BY DEF BpThreaded
<1>3. pts = Numbered(Firsts(m, o), Firsts(k, p))
      BY <1>1, <1>2, PointsAre DEF Numbered
<1>4. Firsts(m, o) \in SUBSET (0 .. NR_WP - 1) /\ Firsts(k, p) \in SUBSET (0 .. NR_BP - 1)
  <2>1. Firsts(m, o) \cup Lasts(NR_WP, m, o) = 0 .. NR_WP - 1 /\ Firsts(k, p) \cup Lasts(NR_BP, k, p) = 0 .. NR_BP - 1
        BY <1>1, <1>2, NodesAre, Lists
  <2>2. QED
        BY <2>1
<1>5. CASE UNCHANGED <<wp_next, wp_head, wp_free, bp_next, bp_head, bp_free>>
  <2>1. pts' = Numbered(Firsts(m, o), Firsts(k, p))
        BY <1>1, <1>2, <1>5, PointsAre DEF Numbered
  <2>2. QED
        BY <1>3, <2>1
<1>6. CASE WP!Available /\ WP!New /\ UNCHANGED <<bp_next, bp_head, bp_free>>
  <2>1. /\ wp_free # -1 /\ wp_free' = wp_next[wp_free] /\ wp_head' = wp_free
        /\ wp_next' = [wp_next EXCEPT ![wp_free] = wp_head]
        BY <1>6 DEF WP!Available, WP!New, WP!Null
  <2>2. Threaded(NR_WP, wp_next', wp_head', wp_free', m + 1, ToFront(NR_WP, m, o))
        BY <1>1, <2>1, NodesAre, ThreadedNew
  <2>3. pts' = Numbered(Firsts(m + 1, ToFront(NR_WP, m, o)), Firsts(k, p))
        BY <1>2, <1>6, <2>2, PointsAre DEF Numbered
  <2>4. /\ Firsts(m + 1, ToFront(NR_WP, m, o)) = Firsts(m, o) \cup {wp_free}
        /\ wp_free \in (0 .. NR_WP - 1) \ Firsts(m, o)
        BY <1>1, <2>1, NodesAre, FirstsNew
  <2>5. /\ wp_free \in (0 .. NR_WP + NR_BP - 1) \ Numbered(Firsts(m, o), Firsts(k, p))
        /\ Numbered(Firsts(m, o) \cup {wp_free}, Firsts(k, p)) = Numbered(Firsts(m, o), Firsts(k, p)) \cup {wp_free}
        BY <1>4, <2>4, NumberNewWp
  <2> HIDE DEF pts
  <2>6. \E i \in (0 .. NR_WP + NR_BP - 1) \ pts : pts' = pts \cup {i}
        BY <1>3, <2>3, <2>4, <2>5
  <2>7. QED
        BY <2>6, Zenon DEF Points!Create, pts
<1>7. CASE BP!Available /\ BP!New /\ UNCHANGED <<wp_next, wp_head, wp_free>>
  <2>1. /\ bp_free # -1 /\ bp_free' = bp_next[bp_free] /\ bp_head' = bp_free
        /\ bp_next' = [bp_next EXCEPT ![bp_free] = bp_head]
        BY <1>7 DEF BP!Available, BP!New, BP!Null
  <2>2. Threaded(NR_BP, bp_next', bp_head', bp_free', k + 1, ToFront(NR_BP, k, p))
        BY <1>2, <2>1, NodesAre, ThreadedNew
  <2>3. pts' = Numbered(Firsts(m, o), Firsts(k + 1, ToFront(NR_BP, k, p)))
        BY <1>1, <1>7, <2>2, PointsAre DEF Numbered
  <2>4. /\ Firsts(k + 1, ToFront(NR_BP, k, p)) = Firsts(k, p) \cup {bp_free}
        /\ bp_free \in (0 .. NR_BP - 1) \ Firsts(k, p)
        BY <1>2, <2>1, NodesAre, FirstsNew
  <2>5. /\ NR_WP + bp_free \in (0 .. NR_WP + NR_BP - 1) \ Numbered(Firsts(m, o), Firsts(k, p))
        /\ Numbered(Firsts(m, o), Firsts(k, p) \cup {bp_free}) = Numbered(Firsts(m, o), Firsts(k, p)) \cup {NR_WP + bp_free}
        BY <1>4, <2>4, NumberNewBp
  <2> HIDE DEF pts
  <2>6. \E i \in (0 .. NR_WP + NR_BP - 1) \ pts : pts' = pts \cup {i}
        BY <1>3, <2>3, <2>4, <2>5
  <2>7. QED
        BY <2>6, Zenon DEF Points!Create, pts
<1>8. CASE (\E no \in 0 .. NR_WP - 1 : WP!InList(no) /\ WP!Free(no)) /\ UNCHANGED <<bp_next, bp_head, bp_free>>
  <2>1. PICK no \in 0 .. NR_WP - 1 : WP!InList(no) /\ WP!Free(no)
        BY <1>8
  <2>2. PICK i \in 1 .. m : /\ no = o[i]
                            /\ Threaded(NR_WP, wp_next', wp_head', wp_free', m - 1, ToFree(NR_WP, m, o, i))
        BY <1>1, <2>1, WpFree
  <2>3. pts' = Numbered(Firsts(m - 1, ToFree(NR_WP, m, o, i)), Firsts(k, p))
        BY <1>2, <1>8, <2>2, PointsAre DEF Numbered
  <2>4. Firsts(m - 1, ToFree(NR_WP, m, o, i)) = Firsts(m, o) \ {no} /\ no \in Firsts(m, o)
        BY <1>1, <2>2, NodesAre, FirstsFree
  <2>5. /\ no \in Numbered(Firsts(m, o), Firsts(k, p))
        /\ Numbered(Firsts(m, o) \ {no}, Firsts(k, p)) = Numbered(Firsts(m, o), Firsts(k, p)) \ {no}
        BY <1>4, <2>4, NumberDeleteWp
  <2> HIDE DEF pts
  <2>6. \E x \in pts : pts' = pts \ {x}
        BY <1>3, <2>3, <2>4, <2>5
  <2>7. QED
        BY <2>6, Zenon DEF Points!Delete, pts
<1>9. QED
      BY <1>5, <1>6, <1>7, <1>8, PoolStep

\* At the start there are no points.
LEMMA PointsInit == Init => Watched \cup {NR_WP + i : i \in BP!Listed(bp_head)} = {}
<1> SUFFICES ASSUME Init PROVE Watched \cup {NR_WP + i : i \in BP!Listed(bp_head)} = {}
    OBVIOUS
<1>1. wp_head = -1 /\ bp_head = -1 /\ WpThreaded /\ BpThreaded
      BY PoolsInit DEF Init, WP!InitPool, BP!InitPool, WP!Null, BP!Null
<1>2. PICK m, o : Threaded(NR_WP, wp_next, wp_head, wp_free, m, o)
      BY <1>1 DEF WpThreaded
<1>3. PICK k, p : Threaded(NR_BP, bp_next, bp_head, bp_free, k, p)
      BY <1>1 DEF BpThreaded
<1>4. m = 0
  <2>1. m # 0 => -1 = o[1] /\ o \in [1 .. NR_WP -> 0 .. NR_WP - 1] /\ 1 \in 1 .. NR_WP
        BY <1>1, <1>2, NodesAre, ThreadedTypes
  <2>2. QED
        BY <2>1, NodesAre
<1>5. k = 0
  <2>1. k # 0 => -1 = p[1] /\ p \in [1 .. NR_BP -> 0 .. NR_BP - 1] /\ 1 \in 1 .. NR_BP
        BY <1>1, <1>3, NodesAre, ThreadedTypes
  <2>2. QED
        BY <2>1, NodesAre
<1>6. Firsts(m, o) = {} /\ Firsts(k, p) = {}
      BY <1>4, <1>5 DEF Firsts
<1>7. Watched \cup {NR_WP + i : i \in BP!Listed(bp_head)} = Firsts(m, o) \cup {NR_WP + i : i \in Firsts(k, p)}
      BY <1>2, <1>3, PointsAre
<1>8. QED
      BY <1>6, <1>7

\* The debugger with its threaded pools implements the set of numbered points
\* its user sees: w and b give a number not taken, d removes exactly the point
\* it names, nothing else changes the set.
THEOREM PoolsImplementPointSet == Spec => ImplementsPointSet
<1>1. WpThreaded /\ BpThreaded /\ [Next]_vars => (WpThreaded /\ BpThreaded)'
      BY ThreadsNext
<1>2. Init => WpThreaded /\ BpThreaded
      BY PoolsInit
<1>3. WpThreaded /\ BpThreaded /\ [Next]_vars
      => [Points!Create \/ Points!Delete]_(Watched \cup {NR_WP + i : i \in BP!Listed(bp_head)})
      BY PointStep
<1>4. QED
      BY <1>1, <1>2, <1>3, PointsInit, PTL DEF Spec, ImplementsPointSet, Points!PointSpec

\* A cycle after which execution goes on has changed no watched value.
THEOREM WatchesAlwaysStop == Spec => WatchesStop
<1>1. ASSUME Places, WpThreaded, [Next]_vars, at = "cycle", at' = "poll"
      PROVE  \A i \in Watched : last_val[i] \in {"error", last_val'[i]}
  <2>1. SomeCycle
        BY <1>1 DEF Next, vars, Poll, Return, BatchC, CmdC, CmdSi, CmdQ, EndOfInput, CmdW, CmdB, CmdD, Signal
  <2>2. PICK ready, ebreak, mismatch \in BOOLEAN, x \in Values \cup {"error"},
             pc \in Pcs \cup {"elsewhere"}, a0 \in {0, 1} : Cycle(ready, ebreak, mismatch, x, pc, a0)
        BY <2>1 DEF SomeCycle
  <2>3. sdb_state' = "Running"
        BY <1>1, <2>2 DEF Cycle
  <2>4. ~(ready /\ Hit(x, pc))
        BY <2>2, <2>3 DEF Cycle, AfterCycle, Stopped
  <2>5. Watched \subseteq 0 .. NR_WP - 1
    <3>1. PICK m, o : Threaded(NR_WP, wp_next, wp_head, wp_free, m, o)
          BY <1>1 DEF WpThreaded
    <3>2. ListedOf(NR_WP, wp_next, wp_head) \subseteq 0 .. NR_WP - 1
          BY <3>1, NodesAre, Lists
    <3>3. QED
          BY <3>2, WpLists DEF Watched
  <2>6. ASSUME NEW i \in Watched
        PROVE  last_val'[i] = IF ready THEN Updated(last_val[i], x) ELSE last_val[i]
    <3>1. i \in WP!Nodes
          BY <2>5, NodesAre
    <3>2. QED
          BY <2>2, <3>1 DEF Cycle
  <2>7. QED
        BY <2>4, <2>6 DEF Hit, WpHit, Changed, Updated
<1>2. Places /\ WpThreaded /\ BpThreaded /\ [Next]_vars => (Places /\ WpThreaded /\ BpThreaded)'
      BY PlacesNext, ThreadsNext
<1>3. Places /\ WpThreaded /\ [Next]_vars
      => [at = "cycle" /\ at' = "poll" => \A i \in Watched : last_val[i] \in {"error", last_val'[i]}]_vars
      BY <1>1
<1>4. QED
      BY PoolsInit, <1>2, <1>3, PTL DEF Spec, WatchesStop

=============================================================================
