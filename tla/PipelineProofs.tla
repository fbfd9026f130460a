--------------------------- MODULE PipelineProofs ---------------------------
(***************************************************************************)
(* The pipeline is the sequential machine: for every program, every width  *)
(* of a word, every number of queue entries and every timing of the two    *)
(* memory ports, what retires agrees with the reference.                   *)
(***************************************************************************)
EXTENDS Core, IsaProofs, SequenceTheorems

(***************************************************************************)
(* The LSU, for every program, every width and every timing of the two     *)
(* memory ports: a flush from WBU never takes an instruction away under a  *)
(* running bus transaction.                                                *)
(***************************************************************************)
\* An instruction reaches WBU from s_wait_ready only, and leaves it one edge
\* later: while it is there, and may flush, the LSU has not left s_idle.
LsuInv == LsuOwnsRequest /\ FlushFindsLsuIdle

\* While the LSU works there is nothing in WBU, so nothing can flush, and
\* while it waits for the bus it accepts nothing.
LEMMA LsuHolds ==
    ASSUME LsuInv, PipelineEdge, lsu_state # "s_idle"
    PROVE  ~wbu_flush /\ (lsu_state # "s_wait_ready" => lsu' = lsu)
<1>1. ~wbu_flush
  BY DEF LsuInv, FlushFindsLsuIdle, wbu_flush
<1>2. lsu_state # "s_wait_ready" => ~lsu_ready
  BY DEF lsu_ready
<1>3. lsu' = PipelineConnect(exu.valid, ExuOut, lsu_ready, lsu, wbu_flush, FALSE)
  BY DEF PipelineEdge
<1> QED
  BY <1>1, <1>2, <1>3 DEF PipelineConnect

\* The LSU starts idle.
LEMMA LsuInvInit == Init => LsuInv
BY DEF Init, LsuInv, LsuOwnsRequest, FlushFindsLsuIdle, Bubble

\* A clock edge keeps the state of the LSU and its instruction in agreement.
LEMMA LsuInvStep ==
    ASSUME LsuInv, NEW answered \in BOOLEAN, PipelineEdge, LsuEdge(answered)
    PROVE  LsuInv'
<1>1. lsu' = PipelineConnect(exu.valid, ExuOut, lsu_ready, lsu, wbu_flush, FALSE)
  BY DEF PipelineEdge
<1>2. wbu' = PipelineConnect(lsu_out_valid, LsuOut, TRUE, wbu, wbu_flush, FALSE)
  BY DEF PipelineEdge
<1>3. ~Bubble.valid
  BY DEF Bubble
\* An instruction enters WBU only when the LSU has finished it.
<1>4. wbu'.valid => lsu_state = "s_wait_ready"
  BY <1>2, <1>3 DEF PipelineConnect, lsu_out_valid
<1>5. FlushFindsLsuIdle'
  BY <1>4 DEF FlushFindsLsuIdle, LsuEdge
<1>6. LsuOwnsRequest'
  <2>1. CASE lsu_state = "s_idle"
    <3>1. lsu_state' # "s_idle" => lsu.valid /\ ~wbu_flush /\ ~lsu_ready
      BY <2>1 DEF LsuEdge, LsuEnter, lsu_ready
    <3> QED
      BY <1>1, <3>1 DEF LsuOwnsRequest, PipelineConnect
  <2>2. CASE lsu_state = "s_wait_ready"
    BY <2>2 DEF LsuEdge, LsuOwnsRequest
  <2>3. CASE lsu_state \notin {"s_idle", "s_wait_ready"}
    BY <2>3, LsuHolds DEF LsuInv, LsuOwnsRequest
  <2> QED
    BY <2>1, <2>2, <2>3
<1> QED
  BY <1>5, <1>6 DEF LsuInv

\* Every step keeps the LSU invariant.
LEMMA LsuInvNext == LsuInv /\ [Next]_vars => LsuInv'
<1> SUFFICES ASSUME LsuInv, [Next]_vars PROVE LsuInv'
  OBVIOUS
<1>1. CASE UNCHANGED vars
  BY <1>1 DEF vars, LsuInv, LsuOwnsRequest, FlushFindsLsuIdle
<1>2. CASE Next
  <2>1. PICK fetched, answered \in BOOLEAN : Edge(fetched, answered)
    BY <1>2 DEF Next
  <2> QED
    BY <2>1, LsuInvStep DEF Edge
<1> QED
  BY <1>1, <1>2

\* A running bus transaction always belongs to the instruction in the LSU's
\* input register: PipelineConnect never empties or refills it underneath.
THEOREM LsuNeverOrphaned == Spec => []LsuOwnsRequest
<1>1. LsuInv => LsuOwnsRequest
  BY DEF LsuInv
<1> QED
  BY LsuInvInit, LsuInvNext, <1>1, PTL DEF Spec

\* A flush from WBU finds the LSU in s_idle: no store that has been issued to
\* the bus is ever flushed.
THEOREM FlushIsPrecise == Spec => []FlushFindsLsuIdle
<1>1. LsuInv => FlushFindsLsuIdle
  BY DEF LsuInv
<1> QED
  BY LsuInvInit, LsuInvNext, <1>1, PTL DEF Spec

\* Address, data and operation of a bus request are stable until the response.
THEOREM RequestsAreStable == Spec => RequestStable
<1>1. LsuInv /\ [Next]_vars => [lsu_state \notin {"s_idle", "s_wait_ready"} => lsu' = lsu]_vars
  <2> SUFFICES ASSUME LsuInv, Next, lsu_state \notin {"s_idle", "s_wait_ready"}
               PROVE  lsu' = lsu
    OBVIOUS
  <2>1. PipelineEdge
    BY DEF Next, Edge
  <2> QED
    BY <2>1, LsuHolds
<1> QED
  BY LsuInvInit, LsuInvNext, <1>1, PTL DEF Spec, RequestStable

-----------------------------------------------------------------------------
(***************************************************************************)
(* ebreak reaches EXU only when no stage holds an instruction that writes  *)
(* a register, and what follows it cannot overtake it.                     *)
(***************************************************************************)
Writes(r) == r.valid /\ D(r).we

\* What leaves a stage writes a register only if what was in it does.
LEMMA StagesPassOn ==
    ASSUME LsuOwnsRequest, PipelineEdge
    PROVE  /\ Writes(lsu') => (Writes(exu) /\ lsu_ready) \/ (Writes(lsu) /\ ~lsu_ready)
           /\ Writes(wbu') => Writes(lsu)
<1>1. ~Writes(Bubble)
  BY DEF Writes, Bubble
<1>2. Writes(ExuOut) /\ exu.valid => Writes(exu)
  BY DEF Writes, D, In, ExuOut
<1>3. Writes(LsuOut) /\ lsu.valid => Writes(lsu)
  BY DEF Writes, D, In, LsuOut
<1>4. \/ lsu' = Bubble
      \/ lsu' = ExuOut /\ exu.valid /\ lsu_ready
      \/ lsu' = lsu /\ ~lsu_ready
  BY DEF PipelineEdge, PipelineConnect
<1>5. wbu' = Bubble \/ (wbu' = LsuOut /\ lsu.valid)
  BY DEF PipelineEdge, PipelineConnect, lsu_out_valid, LsuOwnsRequest
<1> HIDE DEF Writes
<1> QED
  BY <1>1, <1>2, <1>3, <1>4, <1>5

\* At an edge that retires ebreak the registers the handler reads are written.
LEMMA HaltStep ==
    ASSUME HaltSeesRegisters, LsuOwnsRequest, PipelineEdge
    PROVE  HaltSeesRegisters'
<1> SUFFICES ASSUME exu'.valid, D(exu').exec = "EBreak"
             PROVE  ~Writes(lsu') /\ ~Writes(wbu')
  BY DEF HaltSeesRegisters, Writes, D, In
<1>1. CASE lsu_ready
  \* ebreak has just come from IDU, which found no hazard.
  <2>1. idu.valid /\ ~hazard_stall /\ D(idu).exec = "EBreak"
    BY <1>1 DEF PipelineEdge, PipelineConnect, Bubble, IduOut, D, In
  <2>2. ~exu_hazard.valid /\ ~lsu_hazard.valid
    BY <2>1 DEF hazard_stall, wait_ebreak, Hazards
  <2>3. ~Writes(exu) /\ ~Writes(lsu)
    BY <2>2 DEF exu_hazard, lsu_hazard, Writes
  <2> QED
    BY <2>3, StagesPassOn
<1>2. CASE ~lsu_ready
  <2>1. exu.valid /\ D(exu).exec = "EBreak"
    BY <1>2 DEF PipelineEdge, PipelineConnect, Bubble, D, In
  <2>2. ~Writes(lsu)
    BY <2>1 DEF HaltSeesRegisters, Writes
  <2> QED
    BY <1>2, <2>2, StagesPassOn
<1> QED
  BY <1>1, <1>2

\* Whatever the program and the timing, the handler of ebreak reads registers
\* no older instruction will still change.
THEOREM HaltReadsFinalRegisters == Spec => []HaltSeesRegisters
<1>1. Init => HaltSeesRegisters
  BY DEF Init, HaltSeesRegisters, Bubble
<1>2. HaltSeesRegisters /\ LsuInv /\ [Next]_vars => HaltSeesRegisters'
  <2> SUFFICES ASSUME HaltSeesRegisters, LsuInv, [Next]_vars PROVE HaltSeesRegisters'
    OBVIOUS
  <2>1. CASE UNCHANGED vars
    BY <2>1 DEF vars, HaltSeesRegisters, D, In
  <2>2. CASE Next
    BY <2>2, HaltStep DEF Next, Edge, LsuInv
  <2> QED
    BY <2>1, <2>2
<1> QED
  BY <1>1, <1>2, LsuInvInit, LsuInvNext, PTL DEF Spec

-----------------------------------------------------------------------------
(***************************************************************************)
(* The fetch path.  Chain says that a queue is one path that ends at end;  *)
(* it survives taking the head off and appending the instruction at end.   *)
(***************************************************************************)
LEMMA TailFacts ==
    ASSUME NEW S, NEW q \in Seq(S), q # << >>
    PROVE  /\ Tail(q) \in Seq(S) /\ Len(q) \in Nat /\ Len(q) > 0 /\ Len(Tail(q)) = Len(q) - 1
           /\ Head(q) = q[1]
           /\ \A i \in 1 .. Len(q) - 1 : Tail(q)[i] = q[i + 1]
           /\ Tail(q) = << >> <=> Len(q) = 1
<1>1. /\ Tail(q) \in Seq(S) /\ Len(Tail(q)) = Len(q) - 1
      /\ \A i \in 1 .. Len(Tail(q)) : Tail(q)[i] = q[i + 1]
  BY HeadTailProperties
<1>2. Len(q) \in Nat /\ Len(q) > 0 /\ Head(q) = q[1]
  BY EmptySeq
<1>3. Tail(q) = << >> <=> Len(q) = 1
  <2>1. Tail(q) # << >> => Len(Tail(q)) \in Nat \ {0}
    BY <1>1, EmptySeq
  <2>2. Tail(q) = << >> => Len(Tail(q)) = 0
    BY EmptySeq, Zenon
  <2> QED
    BY <1>1, <1>2, <2>1, <2>2
<1> QED
  BY <1>1, <1>2, <1>3

\* Taking an instruction out of the queue leaves a chain of predicted fetches.
LEMMA ChainTail ==
    ASSUME NEW S, NEW q \in Seq(S), q # << >>, NEW end, Chain(q, end)
    PROVE  /\ Chain(Tail(q), end)
           /\ NextFetch(Head(q).pc, Head(q).predict) = FirstOf(Tail(q), end)
<1> DEFINE t == Tail(q)
<1>1. /\ t \in Seq(S) /\ Len(q) \in Nat /\ Len(q) > 0 /\ Len(t) = Len(q) - 1
      /\ Head(q) = q[1] /\ \A i \in 1 .. Len(q) - 1 : t[i] = q[i + 1]
      /\ t = << >> <=> Len(q) = 1
      /\ t # << >> => Head(t) = t[1]
  BY TailFacts
<1> HIDE DEF t
<1>2. ASSUME NEW i \in 1 .. Len(t)
      PROVE  NextFetch(t[i].pc, t[i].predict) = IF i < Len(t) THEN t[i + 1].pc ELSE end
  <2>1. i + 1 \in 1 .. Len(q) /\ t[i] = q[i + 1] /\ (i < Len(t) <=> i + 1 < Len(q))
    BY <1>1
  <2>2. i < Len(t) => t[i + 1] = q[i + 1 + 1]
    BY <1>1
  <2> QED
    BY <2>1, <2>2 DEF Chain
<1>3. NextFetch(Head(q).pc, Head(q).predict) = FirstOf(t, end)
  <2>1. 1 \in 1 .. Len(q)
    BY <1>1
  <2>2. CASE Len(q) = 1
    BY <1>1, <2>1, <2>2 DEF Chain, FirstOf
  <2>3. CASE Len(q) > 1
    <3>1. Head(t) = q[2]
      BY <1>1, <2>3
    <3> QED
      BY <1>1, <2>1, <2>3, <3>1 DEF Chain, FirstOf
  <2> QED
    BY <1>1, <2>2, <2>3
<1> QED
  BY <1>2, <1>3 DEF Chain, t

\* A fetch at the end of the chain, followed by its prediction, extends the chain.
LEMMA ChainAppend ==
    ASSUME NEW S, NEW q \in Seq(S), NEW r \in S, Chain(q, r.pc)
    PROVE  /\ Chain(Append(q, r), NextFetch(r.pc, r.predict))
           /\ \A end : FirstOf(Append(q, r), end) = FirstOf(q, r.pc)
<1> DEFINE a == Append(q, r)
<1>1. /\ a \in Seq(S) /\ a # << >> /\ Len(q) \in Nat /\ Len(a) = Len(q) + 1
      /\ \A i \in 1 .. Len(q) : a[i] = q[i]
      /\ a[Len(q) + 1] = r
      /\ Head(a) = a[1]
      /\ q # << >> => Len(q) > 0 /\ Head(q) = q[1]
      /\ q = << >> => Len(q) = 0
  OBVIOUS
<1> HIDE DEF a
<1>2. ASSUME NEW i \in 1 .. Len(a)
      PROVE  NextFetch(a[i].pc, a[i].predict) =
                IF i < Len(a) THEN a[i + 1].pc ELSE NextFetch(r.pc, r.predict)
  <2>1. CASE i < Len(q)
    BY <1>1, <2>1 DEF Chain
  <2>2. CASE i = Len(q)
    BY <1>1, <2>2 DEF Chain
  <2>3. CASE i = Len(q) + 1
    BY <1>1, <2>3
  <2> QED
    BY <1>1, <2>1, <2>2, <2>3
<1>3. ASSUME NEW end PROVE FirstOf(a, end) = FirstOf(q, r.pc)
  BY <1>1 DEF FirstOf
<1> QED
  BY <1>2, <1>3 DEF Chain, a
\* The response queue is a sequence of fetched instructions.
QueueFilled == \E S : queue \in Seq(S) /\ \A r \in S : r.valid

\* The IFU's side of an edge without redirect: from the decoder the path looks
\* as before, whatever became of the request.
LEMMA IfuKeepsPath ==
    ASSUME FetchPath, NEW fetched \in BOOLEAN, IfuEdge(fetched), ~redirect,
           NEW S, queue_rest \in Seq(S), \A r \in S : r.valid, Chain(queue_rest, FetchPc)
    PROVE  /\ QueueFilled'
           /\ fetch'.st = "busy" => pc' = NextFetch(fetch'.addr, fetch'.predict)
           /\ Chain(queue', FetchPc')
           /\ FirstOf(queue', FetchPc') = FirstOf(queue_rest, FetchPc)
<1> DEFINE Goal == /\ QueueFilled'
                   /\ fetch'.st = "busy" => pc' = NextFetch(fetch'.addr, fetch'.predict)
                   /\ Chain(queue', FetchPc')
                   /\ FirstOf(queue', FetchPc') = FirstOf(queue_rest, FetchPc)
<1>1. ASSUME NEW p, pc' = NextFetch(FetchPc, p), Respond(FetchPc, p, fetched)
      PROVE  Goal
  <2>1. ASSUME NEW word, queue' = Append(queue_rest, FetchOut(FetchPc, word, p)), fetch' = Idle
        PROVE  Goal
    <3> DEFINE r == FetchOut(FetchPc, word, p)
               T == S \cup {r}
    <3>1. r.valid /\ r.pc = FetchPc /\ r.predict = p
      BY DEF FetchOut
    <3> HIDE DEF r
    <3>2. queue_rest \in Seq(T) /\ r \in T
      OBVIOUS
    <3>3. FetchPc' = pc' /\ fetch'.st # "busy"
      BY <2>1 DEF FetchPc, Idle
    <3>4. Chain(Append(queue_rest, r), NextFetch(r.pc, r.predict))
      BY <3>1, <3>2, ChainAppend
    <3>5. FirstOf(Append(queue_rest, r), pc') = FirstOf(queue_rest, r.pc)
      BY <3>1, <3>2, ChainAppend
    <3>6. QueueFilled'
      <4>1. Append(queue_rest, r) \in Seq(T) /\ \A x \in T : x.valid
        BY <3>1, <3>2
      <4> QED
        BY <2>1, <4>1 DEF QueueFilled, r
    <3> QED
      BY <1>1, <2>1, <3>1, <3>3, <3>4, <3>5, <3>6 DEF r
  <2>2. ASSUME queue' = queue_rest, fetch' = [st |-> "busy", addr |-> FetchPc, predict |-> p]
        PROVE  Goal
    <3>1. FetchPc' = FetchPc
      BY <2>2 DEF FetchPc
    <3>2. QueueFilled'
      BY <2>2 DEF QueueFilled
    <3> QED
      BY <1>1, <2>2, <3>1, <3>2
  <2> QED
    BY <1>1, <2>1, <2>2 DEF Respond
<1>2. CASE fetch.st = "idle"
  <2>1. FetchPc = pc
    BY <1>2 DEF FetchPc
  <2>2. PICK p \in Predictions : pc' = NextFetch(pc, p) /\ Respond(pc, p, fetched)
    BY <1>2 DEF IfuEdge, NextFetch
  <2> QED
    BY <1>1, <2>1, <2>2
<1>3. CASE fetch.st = "busy"
  <2>1. FetchPc = fetch.addr /\ pc = NextFetch(fetch.addr, fetch.predict)
    BY <1>3 DEF FetchPc, FetchPath
  <2>2. Respond(fetch.addr, fetch.predict, fetched) /\ pc' = pc
    BY <1>3 DEF IfuEdge
  <2> QED
    BY <1>1, <2>1, <2>2
<1>4. CASE fetch.st = "killed"
  <2>1. queue' = queue_rest /\ pc' = pc /\ fetch' \in {Idle, fetch}
    BY <1>4 DEF IfuEdge
  <2>2. FetchPc' = FetchPc /\ fetch'.st # "busy"
    BY <1>4, <2>1 DEF FetchPc, Idle
  <2>3. QueueFilled'
    BY <2>1 DEF QueueFilled
  <2> QED
    BY <2>1, <2>2, <2>3
<1> QED
  BY <1>2, <1>3, <1>4 DEF IfuEdge

PathInv == QueueFilled /\ FetchPath

\* The empty pipeline is a chain that ends at the first fetch.
LEMMA PathInvInit == Init => PathInv
<1> SUFFICES ASSUME Init PROVE PathInv
  OBVIOUS
<1>1. queue = << >> /\ ~idu.valid /\ ~exu.valid /\ fetch.st # "busy"
  BY DEF Init, Bubble, Idle
<1>2. QueueFilled
  <2>1. << >> \in Seq({})
    OBVIOUS
  <2> QED
    BY <1>1, <2>1 DEF QueueFilled
<1> QED
  BY <1>1, <1>2 DEF PathInv, FetchPath, Chain

\* A redirect empties the front of the pipeline.
LEMMA RedirectEmpties ==
    ASSUME redirect, NEW fetched \in BOOLEAN, IfuEdge(fetched), PipelineEdge
    PROVE  PathInv'
<1>1. queue' = << >> /\ fetch' \in {Idle, Killed}
  BY DEF IfuEdge
<1>2. idu' = Bubble
  BY DEF PipelineEdge, PipelineConnect, redirect
<1>3. exu' = Bubble
  <2>1. exu_flush => lsu_ready
    BY DEF exu_flush, valid_br, exu_fire
  <2>2. exu' = PipelineConnect(idu.valid /\ ~hazard_stall, IduOut, lsu_ready, exu, wbu_flush, exu_flush)
    BY DEF PipelineEdge
  <2> QED
    BY <2>1, <2>2 DEF PipelineConnect, redirect
<1>4. QueueFilled'
  <2>1. << >> \in Seq({})
    OBVIOUS
  <2> QED
    BY <1>1, <2>1 DEF QueueFilled
<1>5. fetch'.st # "busy" /\ ~idu'.valid /\ ~exu'.valid
  BY <1>1, <1>2, <1>3 DEF Bubble, Idle, Killed
<1> QED
  BY <1>1, <1>4, <1>5 DEF PathInv, FetchPath, Chain

\* Otherwise every stage hands its instruction on, or all in front of it wait.
LEMMA StagesKeepPath ==
    ASSUME PathInv, ~redirect, NEW fetched \in BOOLEAN, IfuEdge(fetched), PipelineEdge
    PROVE  PathInv'
<1>1. PICK S : queue \in Seq(S) /\ \A r \in S : r.valid
  BY DEF PathInv, QueueFilled
<1>2. /\ queue_rest \in Seq(S) /\ Chain(queue_rest, FetchPc)
      /\ queue_deq => /\ NextFetch(Head(queue).pc, Head(queue).predict) = FirstOf(queue_rest, FetchPc)
                      /\ Head(queue).valid
      /\ ~queue_deq => queue_rest = queue
  <2>1. CASE queue_deq
    <3>1. queue # << >> /\ queue_rest = Tail(queue)
      BY <2>1 DEF queue_deq, queue_rest
    <3>2. Chain(queue, FetchPc)
      BY DEF PathInv, FetchPath
    <3>3. Head(queue) \in S /\ Tail(queue) \in Seq(S)
      BY <1>1, <3>1, HeadTailProperties
    <3> QED
      BY <1>1, <2>1, <3>1, <3>2, <3>3, ChainTail
  <2>2. CASE ~queue_deq
    BY <1>1, <2>2 DEF queue_rest, PathInv, FetchPath
  <2> QED
    BY <2>1, <2>2
<1>3. /\ QueueFilled'
      /\ fetch'.st = "busy" => pc' = NextFetch(fetch'.addr, fetch'.predict)
      /\ Chain(queue', FetchPc')
      /\ FirstOf(queue', FetchPc') = FirstOf(queue_rest, FetchPc)
  BY <1>1, <1>2, IfuKeepsPath DEF PathInv
<1>4. ~wbu_flush /\ ~exu_flush
  BY DEF redirect
<1>5. /\ idu' = (IF ~idu_ready THEN idu ELSE IF queue # << >> THEN Head(queue) ELSE Bubble)
      /\ exu' = (IF ~lsu_ready THEN exu
                 ELSE IF idu.valid /\ ~hazard_stall THEN IduOut ELSE Bubble)
  BY <1>4 DEF PipelineEdge, PipelineConnect, redirect
<1>6. queue_deq <=> queue # << >> /\ idu_ready
  BY DEF queue_deq
<1>7. IduOut.pc = idu.pc /\ IduOut.predict = idu.predict /\ ~Bubble.valid
  BY DEF IduOut, Bubble
<1>8. /\ idu.valid => NextFetch(idu.pc, idu.predict) = FirstOf(queue, FetchPc)
      /\ exu.valid => NextFetch(exu.pc, exu.predict) = IF idu.valid THEN idu.pc
                                                       ELSE FirstOf(queue, FetchPc)
  BY DEF PathInv, FetchPath
<1>9. /\ idu'.valid => NextFetch(idu'.pc, idu'.predict) = FirstOf(queue_rest, FetchPc)
      /\ exu'.valid => NextFetch(exu'.pc, exu'.predict) = IF idu'.valid THEN idu'.pc
                                                          ELSE FirstOf(queue_rest, FetchPc)
  <2>1. CASE ~idu_ready
    <3>1. idu' = idu /\ queue_rest = queue /\ (exu' = exu \/ exu' = Bubble)
      BY <1>2, <1>5, <1>6, <2>1 DEF idu_ready, hazard_stall
    <3> QED
      BY <1>7, <1>8, <3>1
  <2>2. CASE idu_ready /\ queue # << >>
    <3>1. /\ idu' = Head(queue) /\ idu'.valid /\ FirstOf(queue, FetchPc) = idu'.pc
          /\ exu' = (IF idu.valid THEN IduOut ELSE Bubble)
      BY <1>2, <1>5, <1>6, <2>2 DEF idu_ready, FirstOf
    <3> QED
      BY <1>2, <1>6, <1>7, <1>8, <2>2, <3>1
  <2>3. CASE idu_ready /\ queue = << >>
    <3>1. idu' = Bubble /\ queue_rest = queue /\ exu' = (IF idu.valid THEN IduOut ELSE Bubble)
      BY <1>2, <1>5, <1>6, <2>3 DEF idu_ready
    <3> QED
      BY <1>7, <1>8, <3>1
  <2> QED
    BY <2>1, <2>2, <2>3
<1> QED
  BY <1>3, <1>9 DEF PathInv, FetchPath

\* Every step keeps the instructions in flight a chain of predicted fetches.
LEMMA PathInvNext == PathInv /\ [Next]_vars => PathInv'
<1> SUFFICES ASSUME PathInv, [Next]_vars PROVE PathInv'
  OBVIOUS
<1>1. CASE UNCHANGED vars
  BY <1>1 DEF vars, PathInv, QueueFilled, FetchPath, FetchPc, Chain, FirstOf
<1>2. CASE Next
  <2>1. PICK fetched, answered \in BOOLEAN : Edge(fetched, answered)
    BY <1>2 DEF Next
  <2> QED
    BY <2>1, RedirectEmpties, StagesKeepPath DEF Edge
<1> QED
  BY <1>1, <1>2

\* What is being fetched and decoded is always one predicted path: no flush
\* leaves an instruction of an abandoned path in IFU, IDU or EXU, and no stall
\* loses or repeats one.
THEOREM OneFetchPath == Spec => []FetchPath
<1>1. PathInv => FetchPath
  BY DEF PathInv
<1> QED
  BY PathInvInit, PathInvNext, <1>1, PTL DEF Spec


(***************************************************************************)
(* Types.  What every stage hands on has the type of the next register.    *)
(***************************************************************************)
LEMMA ExcpTypes ==
    /\ NoExcp \in ExcpInfo /\ ~NoExcp.valid
    /\ \A t : \A n \in DOMAIN ExceptionCode : Excp(n, t).valid
    /\ \A t \in Word : \A n \in DOMAIN ExceptionCode : Excp(n, t) \in ExcpInfo
<1>1. \A n \in DOMAIN ExceptionCode : ExceptionCode[n] \in 0 .. 15
  BY DEF ExceptionCode
<1>2. 0 \in Word
  BY FourType
<1> QED
  BY <1>1, <1>2 DEF NoExcp, ExcpInfo, Excp

ExcpNames == {"InstructionAddressMisaligned", "InstructionAccessFault", "IllegalInstruction", "Breakpoint",
              "LoadAccessFault", "EnvironmentCallFromMMode", "StoreAMOPageFault"}
\* Every exception has a code.
LEMMA ExcpNamed == DOMAIN ExceptionCode = ExcpNames
BY DEF ExceptionCode, ExcpNames

\* What the decoder finds in a word has its type.
LEMMA Decoded ==
    ASSUME NEW r, r.inst \in Word
    PROVE  /\ In(r) \in Inst /\ In(r).op \in Op /\ In(r).imm \in Word /\ In(r).csr \in CSRs
           /\ In(r).rd \in Regs /\ In(r).rs1 \in Regs /\ In(r).rs2 \in Regs
           /\ RowOf(In(r).op, D(r))
<1>1. In(r) \in Inst
  BY InstOfAssumption DEF In
<1>2. In(r).op \in Op
  BY <1>1 DEF Inst
<1> QED
  BY <1>1, <1>2, TableRows DEF Inst, D

\* The fields of the pipeline registers.
LEMMA Registers ==
    ASSUME TypeOK
    PROVE  /\ idu.valid => /\ idu \in IfuReg /\ idu.pc \in Word /\ idu.inst \in Word
                           /\ idu.excp \in ExcpInfo /\ idu.predict \in Prediction
           /\ exu.valid => /\ exu \in IduReg /\ exu.pc \in Word /\ exu.inst \in Word
                           /\ exu.rs1_data \in Word /\ exu.rs2_data \in Word
                           /\ exu.excp \in ExcpInfo /\ exu.predict \in Prediction
           /\ lsu.valid => /\ lsu \in ExuReg /\ lsu.pc \in Word /\ lsu.inst \in Word
                           /\ lsu.ex_out \in Word /\ lsu.addr \in Word /\ lsu.data \in Word
                           /\ lsu.csr_data \in Word /\ lsu.excp \in ExcpInfo
           /\ wbu.valid => /\ wbu \in LsuReg /\ wbu.pc \in Word /\ wbu.inst \in Word
                           /\ wbu.ls_out \in Word /\ wbu.csr_data \in Word /\ wbu.excp \in ExcpInfo
<1>1. idu.valid => idu \in IfuReg
  BY DEF TypeOK, Bubble
<1>2. exu.valid => exu \in IduReg
  BY DEF TypeOK, Bubble
<1>3. lsu.valid => lsu \in ExuReg
  BY DEF TypeOK, Bubble
<1>4. wbu.valid => wbu \in LsuReg
  BY DEF TypeOK, Bubble
<1>5. \A r \in IfuReg : /\ r.pc \in Word /\ r.inst \in Word /\ r.excp \in ExcpInfo
                          /\ r.predict \in Prediction
  BY DEF IfuReg
<1>6. \A r \in IduReg : /\ r.pc \in Word /\ r.inst \in Word /\ r.rs1_data \in Word
                          /\ r.rs2_data \in Word /\ r.excp \in ExcpInfo /\ r.predict \in Prediction
  BY DEF IduReg
<1>7. \A r \in ExuReg : /\ r.pc \in Word /\ r.inst \in Word /\ r.ex_out \in Word /\ r.addr \in Word
                          /\ r.data \in Word /\ r.csr_data \in Word /\ r.excp \in ExcpInfo
  BY DEF ExuReg
<1>8. \A r \in LsuReg : /\ r.pc \in Word /\ r.inst \in Word /\ r.ls_out \in Word
                          /\ r.csr_data \in Word /\ r.excp \in ExcpInfo
  BY DEF LsuReg
<1> QED
  BY <1>1, <1>2, <1>3, <1>4, <1>5, <1>6, <1>7, <1>8

\* What the fetch unit hands on has its type.
LEMMA FetchOutType ==
    ASSUME NEW addr \in Word, NEW word \in Word, NEW p \in Prediction
    PROVE  FetchOut(addr, word, p) \in IfuReg
<1> DEFINE e == FetchOut(addr, word, p).excp
<1>1. e \in ExcpInfo
  BY ExcpTypes, ExcpNamed DEF FetchOut, ExcpNames
<1>2. FetchOut(addr, word, p) = [valid |-> TRUE, pc |-> addr, inst |-> word, predict |-> p, excp |-> e]
  BY DEF FetchOut
<1> HIDE DEF e
<1> QED
  BY <1>1, <1>2 DEF IfuReg

\* What EXU computes.
LEMMA ExuTypes ==
    ASSUME TypeOK, exu.valid
    PROVE  /\ ExuOut \in ExuReg /\ ex_out \in Word /\ alu_result \in Word /\ br_target \in Word
           /\ correct_target \in Word
           /\ br_type \in {"Call", "Ret", "Jump", "Branch"}
<1>1. csrs \in [CSRs -> Word]
  BY DEF TypeOK
<1>2. /\ exu.pc \in Word /\ exu.inst \in Word /\ exu.rs1_data \in Word /\ exu.rs2_data \in Word
      /\ exu.excp \in ExcpInfo
  BY Registers
<1>3. /\ In(exu).op \in Op /\ In(exu).imm \in Word /\ In(exu).csr \in CSRs /\ RowOf(In(exu).op, D(exu))
  BY <1>2, Decoded
<1>4. /\ D(exu).alu \in AluOps
      /\ D(exu).op1 \in {"Rs1", "Imm", "PC", "Zero", "CSR"}
      /\ D(exu).op2 \in {"Rs1", "Rs2", "Imm", "Four", "Zero"}
      /\ D(exu).csr \in {"Nop", "RW", "RS", "RC"}
  BY <1>3, RowType
<1>5. csrs[In(exu).csr] \in Word
  BY <1>1, <1>3
<1>6. Oper(D(exu).op1) \in Word /\ Oper(D(exu).op2) \in Word
  BY <1>2, <1>3, <1>4, <1>5, FourType DEF Oper
<1>7. alu_result \in Word
  BY <1>4, <1>6, ALUType DEF alu_result
<1>8. ex_out \in Word
  BY <1>5, <1>7, FourType DEF ex_out
<1>9. csr_rd_data \in Word
  <2>1. BitOr(csrs[In(exu).csr], Oper(D(exu).op2)) \in Word /\ BitClear(csrs[In(exu).csr], Oper(D(exu).op2)) \in Word
    BY BitsType
  <2> QED
    BY <1>4, <1>6, <2>1, FourType DEF csr_rd_data
<1>10. exu_excp \in ExcpInfo
  BY <1>2, ExcpTypes, ExcpNamed DEF exu_excp, ExcpNames
<1>11. br_target \in Word /\ Plus(exu.pc, Four) \in Word
  <2>1. \A a, b \in Word : Plus(a, b) \in Word
    BY PlusWord
  <2> QED
    BY <1>2, <1>3, <2>1, FourType DEF br_target
<1>12. ExuOut \in ExuReg
  BY <1>2, <1>7, <1>8, <1>9, <1>10 DEF ExuOut, ExuReg
<1> QED
  BY <1>7, <1>8, <1>11, <1>12 DEF correct_target, br_type

\* So has what the LSU hands on.
LEMMA LsuTypes ==
    ASSUME TypeOK, lsu.valid
    PROVE  LsuOut \in LsuReg /\ ls_out \in Word /\ req_op \in {"Nop", "LW", "SW"}
<1>1. read_reg \in Word /\ access_fault \in BOOLEAN
  BY DEF TypeOK
<1>2. /\ lsu.pc \in Word /\ lsu.inst \in Word /\ lsu.ex_out \in Word /\ lsu.addr \in Word
      /\ lsu.csr_data \in Word /\ lsu.excp \in ExcpInfo
  BY Registers
<1>3. D(lsu).lsu \in {"Nop", "LW", "SW"}
  BY <1>2, Decoded, RowType
<1>4. req_op \in {"Nop", "LW", "SW"}
  BY <1>3 DEF req_op
<1>5. ls_out \in Word
  BY <1>1, <1>2, <1>4, FourType DEF ls_out
<1>6. lsu_excp \in ExcpInfo
  <2>1. Excp("StoreAMOPageFault", lsu.addr) \in ExcpInfo /\ Excp("LoadAccessFault", lsu.addr) \in ExcpInfo
    BY <1>2, ExcpTypes, ExcpNamed DEF ExcpNames
  <2>2. NoExcp \in ExcpInfo
    BY ExcpTypes
  <2> QED
    BY <1>2, <2>1, <2>2 DEF lsu_excp
<1> QED
  BY <1>2, <1>4, <1>5, <1>6 DEF LsuOut, LsuReg

\* So has what the decode stage hands on.
LEMMA IduTypes ==
    ASSUME TypeOK, idu.valid
    PROVE  IduOut \in IduReg
<1>1. regs \in [Regs -> Word]
  BY DEF TypeOK
<1>2. /\ idu.pc \in Word /\ idu.inst \in Word /\ idu.excp \in ExcpInfo /\ idu.predict \in Prediction
  BY Registers
<1>3. In(idu).rs1 \in Regs /\ In(idu).rs2 \in Regs
  BY <1>2, Decoded
<1>4. exu_hazard.valid => exu_hazard.data \in Word
  BY ExuTypes DEF exu_hazard, NoHazard
<1>5. lsu_hazard.valid => lsu_hazard.data \in Word
  BY LsuTypes DEF lsu_hazard, NoHazard
<1>6. wbu_hazard.valid => wbu_hazard.data \in Word
  <2>1. wbu.valid => wbu.ls_out \in Word
    BY Registers
  <2> QED
    BY <2>1 DEF wbu_hazard, NoHazard
<1>7. \A rs \in Regs : forward_reg(rs) \in Word
  BY <1>1, <1>4, <1>5, <1>6 DEF forward_reg
<1>8. idu_excp \in ExcpInfo
  BY <1>2, ExcpTypes, ExcpNamed DEF idu_excp, ExcpNames
<1> QED
  BY <1>2, <1>3, <1>7, <1>8 DEF IduOut, IduReg

\* The queue without the instruction it hands on is a queue.
LEMMA QueueTypes ==
    ASSUME TypeOK
    PROVE  /\ queue_rest \in Seq(IfuReg) /\ Len(queue_rest) <= Len(queue)
           /\ queue # << >> => Head(queue) \in IfuReg
<1>1. queue \in Seq(IfuReg)
  BY DEF TypeOK
<1>2. queue # << >> => /\ Head(queue) \in IfuReg /\ Tail(queue) \in Seq(IfuReg)
                       /\ Len(Tail(queue)) <= Len(queue)
  BY <1>1
<1> QED
  BY <1>1, <1>2 DEF queue_rest, queue_deq

\* A prediction has its type, and no branch is predicted without an entry.
LEMMA PredictionTypes ==
    ASSUME TypeOK, NEW p \in Predictions
    PROVE  p \in Prediction /\ (~btb[Slot(pc)].valid => ~p.taken)
<1> DEFINE e == btb[Slot(pc)]
<1>1. e \in BtbEntry \cup {NoEntry} /\ ras \subseteq Word
  BY SlotType DEF TypeOK
<1>2. e.valid => e.target \in Word
  <2>1. e.valid => e \in BtbEntry
    BY <1>1 DEF NoEntry
  <2> QED
    BY <2>1 DEF BtbEntry
<1>3. NoPrediction \in Prediction /\ ~NoPrediction.taken
  BY FourType DEF NoPrediction, Prediction
<1>4. \A t \in Word : [taken |-> TRUE, target |-> t] \in Prediction
  BY DEF Prediction
<1>5. CASE ~e.valid
  BY <1>3, <1>5 DEF Predictions
<1>6. CASE e.valid
  <2>1. \/ p = NoPrediction
        \/ \E t \in ras \cup {e.target} : p = [taken |-> TRUE, target |-> t]
    BY <1>6 DEF Predictions
  <2> QED
    BY <1>1, <1>2, <1>3, <1>4, <1>6, <2>1
<1> QED
  BY <1>5, <1>6

\* An answer of the port keeps queue and fetch typed.
LEMMA RespondTypes ==
    ASSUME TypeOK, NEW addr \in Word, NEW p \in Prediction, NEW fetched \in BOOLEAN, Respond(addr, p, fetched)
    PROVE  /\ queue' \in Seq(IfuReg) /\ Len(queue') <= QueueEntries
           /\ fetch' \in {Idle, Killed} \cup [st : {"busy"}, addr : Word, predict : Prediction]
<1>1. queue_rest \in Seq(IfuReg) /\ Len(queue_rest) <= Len(queue) /\ Len(queue) <= QueueEntries
  BY QueueTypes DEF TypeOK
<1>2. Len(queue) \in Nat /\ Len(queue_rest) \in Nat
  BY <1>1 DEF TypeOK
<1>3. CASE fetched /\ queue_room
  <2>1. PICK word \in code[Slot(addr)] : queue' = Append(queue_rest, FetchOut(addr, word, p))
    BY <1>3 DEF Respond
  <2>2. word \in Word
    BY SlotType DEF TypeOK
  <2>3. FetchOut(addr, word, p) \in IfuReg
    BY <2>2, FetchOutType
  <2>4. fetch' = Idle
    BY <1>3 DEF Respond
  <2>5. Len(queue) < QueueEntries
    BY <1>3 DEF queue_room
  <2>6. queue' \in Seq(IfuReg) /\ Len(queue') = Len(queue_rest) + 1
    BY <1>1, <2>1, <2>3
  <2> QED
    BY <1>1, <1>2, <2>4, <2>5, <2>6, QueueEntriesAssumption
<1>4. CASE ~(fetched /\ queue_room)
  <2>1. queue' = queue_rest /\ fetch' = [st |-> "busy", addr |-> addr, predict |-> p]
    BY <1>4 DEF Respond
  <2> QED
    BY <1>1, <1>2, <2>1, QueueEntriesAssumption
<1> QED
  BY <1>3, <1>4

\* An edge keeps the fetch unit typed.
LEMMA IfuTypes ==
    ASSUME TypeOK, NEW fetched \in BOOLEAN, IfuEdge(fetched)
    PROVE  /\ pc' \in Word
           /\ queue' \in Seq(IfuReg) /\ Len(queue') <= QueueEntries
           /\ fetch' \in {Idle, Killed} \cup [st : {"busy"}, addr : Word, predict : Prediction]
<1>0. \A a, b \in Word : Plus(a, b) \in Word
  BY PlusWord
<1>1. pc \in Word /\ csrs \in [CSRs -> Word]
  BY DEF TypeOK
<1>2. CASE redirect
  <2>1. pc' = redirect_target /\ queue' = << >> /\ fetch' \in {Idle, Killed}
    BY <1>2 DEF IfuEdge
  <2>2. wbu_flush => wbu_target \in Word
    <3>1. wbu.valid => wbu.pc \in Word
      BY Registers
    <3>2. csrs["mepc"] \in Word /\ csrs["mtvec"] \in Word
      BY <1>1 DEF CSRs
    <3> QED
      BY <1>0, <3>1, <3>2, FourType DEF wbu_flush, wbu_target
  <2>3. exu_flush => correct_target \in Word
    BY ExuTypes DEF exu_flush, valid_br, exu_fire
  <2>4. << >> \in Seq(IfuReg) /\ Len(<< >>) <= QueueEntries
    BY QueueEntriesAssumption
  <2> QED
    BY <1>2, <2>1, <2>2, <2>3, <2>4 DEF redirect, redirect_target
<1>3. CASE ~redirect /\ fetch.st = "idle"
  <2>1. PICK p \in Predictions : pc' = NextFetch(pc, p) /\ Respond(pc, p, fetched)
    BY <1>3 DEF IfuEdge, NextFetch
  <2>2. p \in Prediction
    BY PredictionTypes
  <2>3. pc' \in Word
    BY <1>0, <1>1, <2>1, <2>2, FourType DEF NextFetch, Prediction
  <2> QED
    BY <1>1, <2>1, <2>2, <2>3, RespondTypes
<1>4. CASE ~redirect /\ fetch.st = "busy"
  <2>1. Respond(fetch.addr, fetch.predict, fetched) /\ pc' = pc
    BY <1>4 DEF IfuEdge
  <2>2. fetch.addr \in Word /\ fetch.predict \in Prediction
    BY <1>4 DEF TypeOK, Idle, Killed
  <2> QED
    BY <1>1, <2>1, <2>2, RespondTypes
<1>5. CASE ~redirect /\ fetch.st = "killed"
  <2>1. queue' = queue_rest /\ pc' = pc /\ fetch' \in {Idle, fetch}
    BY <1>5 DEF IfuEdge
  <2>2. /\ queue_rest \in Seq(IfuReg) /\ Len(queue_rest) <= Len(queue) /\ Len(queue) <= QueueEntries
        /\ Len(queue) \in Nat /\ Len(queue_rest) \in Nat
    BY QueueTypes DEF TypeOK
  <2>3. fetch \in {Idle, Killed} \cup [st : {"busy"}, addr : Word, predict : Prediction]
    BY DEF TypeOK
  <2> QED
    BY <1>1, <2>1, <2>2, <2>3, QueueEntriesAssumption
<1> QED
  BY <1>2, <1>3, <1>4, <1>5 DEF IfuEdge

\* An edge keeps the stage registers typed.
LEMMA PipelineTypes ==
    ASSUME TypeOK, LsuOwnsRequest, PipelineEdge
    PROVE  /\ idu' \in IfuReg \cup {Bubble} /\ exu' \in IduReg \cup {Bubble}
           /\ lsu' \in ExuReg \cup {Bubble} /\ wbu' \in LsuReg \cup {Bubble}
<1>1. /\ idu \in IfuReg \cup {Bubble} /\ exu \in IduReg \cup {Bubble}
      /\ lsu \in ExuReg \cup {Bubble}
  BY DEF TypeOK
<1>2. idu' \in {Bubble, idu} \/ (idu' = Head(queue) /\ queue # << >>)
  BY DEF PipelineEdge, PipelineConnect
<1>3. exu' \in {Bubble, exu} \/ (exu' = IduOut /\ idu.valid)
  BY DEF PipelineEdge, PipelineConnect
<1>4. lsu' \in {Bubble, lsu} \/ (lsu' = ExuOut /\ exu.valid)
  BY DEF PipelineEdge, PipelineConnect
<1>5. wbu' = Bubble \/ (wbu' = LsuOut /\ lsu.valid)
  BY DEF PipelineEdge, PipelineConnect, lsu_out_valid, LsuOwnsRequest
<1> QED
  BY <1>1, <1>2, <1>3, <1>4, <1>5, QueueTypes, IduTypes, ExuTypes, LsuTypes

\* An edge keeps the LSU and memory typed.
LEMMA LsuEdgeTypes ==
    ASSUME TypeOK, LsuOwnsRequest, NEW answered \in BOOLEAN, LsuEdge(answered)
    PROVE  /\ lsu_state' \in LsuStates /\ read_reg' \in Word /\ access_fault' \in BOOLEAN
           /\ mem' \in [Slots -> Word] /\ code' \in [Slots -> SUBSET Word]
<1>1. /\ lsu_state \in LsuStates /\ read_reg \in Word /\ access_fault \in BOOLEAN
      /\ mem \in [Slots -> Word] /\ code \in [Slots -> SUBSET Word]
  BY DEF TypeOK
<1>2. lsu.valid => Slot(lsu.addr) \in Slots /\ lsu.data \in Word
  BY Registers, SlotType
<1>3. lsu_state' \in LsuStates
  <2>1. lsu.valid => entry_state \in LsuStates
    BY LsuTypes DEF entry_state, LsuStates
  <2> QED
    BY <1>1, <2>1 DEF LsuEdge, LsuEnter, LsuStates
<1>4. read_reg' \in Word
  BY <1>1, <1>2 DEF LsuEdge, LsuOwnsRequest
<1>5. access_fault' \in BOOLEAN
  BY <1>1 DEF LsuEdge
<1>6. NoStore => mem' \in [Slots -> Word] /\ code' \in [Slots -> SUBSET Word]
  BY <1>1 DEF NoStore
<1>7. Store /\ lsu.valid => mem' \in [Slots -> Word] /\ code' \in [Slots -> SUBSET Word]
  BY <1>1, <1>2 DEF Store
<1>8. NoStore \/ (Store /\ lsu.valid)
  BY DEF LsuEdge, LsuOwnsRequest
<1> QED
  BY <1>3, <1>4, <1>5, <1>6, <1>7, <1>8

\* An edge keeps both register files and the predictor typed.
LEMMA FileTypes ==
    ASSUME TypeOK, RegFileEdge, CSRFileEdge, BpuEdge
    PROVE  /\ regs' \in [Regs -> Word] /\ csrs' \in [CSRs -> Word]
           /\ btb' \in [Slots -> BtbEntry \cup {NoEntry}] /\ ras' \subseteq Word
<1>1. /\ regs \in [Regs -> Word] /\ csrs \in [CSRs -> Word] /\ pc \in Word
      /\ btb \in [Slots -> BtbEntry \cup {NoEntry}] /\ ras \subseteq Word
  BY DEF TypeOK
<1>2. wbu.valid => /\ wbu.ls_out \in Word /\ wbu.csr_data \in Word /\ wbu.pc \in Word
                   /\ In(wbu).rd \in Regs /\ In(wbu).csr \in CSRs
                   /\ wbu.excp.cause \in Word /\ wbu.excp.tval \in Word
  <2>1. \A e \in ExcpInfo : e.cause \in Word /\ e.tval \in Word
    BY SmallWords DEF ExcpInfo
  <2> QED
    BY <2>1, Registers, Decoded
<1>3. regs' \in [Regs -> Word]
  BY <1>1, <1>2 DEF RegFileEdge
<1>4. csrs' \in [CSRs -> Word]
  <2>1. CASE wbu.valid /\ wbu.excp.valid
    <3>1. csrs' = [csrs EXCEPT !["mepc"] = wbu.pc, !["mcause"] = wbu.excp.cause, !["mtval"] = wbu.excp.tval]
      BY <2>1 DEF CSRFileEdge
    <3> QED
      BY <1>1, <1>2, <2>1, <3>1
  <2>2. CASE wbu.valid /\ ~wbu.excp.valid
    <3>1. csrs' \in {csrs, [csrs EXCEPT ![In(wbu).csr] = wbu.csr_data]}
      BY <2>2 DEF CSRFileEdge
    <3> QED
      BY <1>1, <1>2, <2>2, <3>1
  <2>3. CASE ~wbu.valid
    BY <1>1, <2>3 DEF CSRFileEdge
  <2> QED
    BY <2>1, <2>2, <2>3
<1>5. btb' \in [Slots -> BtbEntry \cup {NoEntry}]
  <2>1. CASE valid_br
    <3>1. exu.valid
      BY <2>1 DEF valid_br, exu_fire
    <3>2. [valid |-> TRUE, target |-> br_target, btype |-> br_type] \in BtbEntry
      BY <3>1, ExuTypes DEF BtbEntry
    <3>3. btb' = [btb EXCEPT ![Slot(exu.pc)] = [valid |-> TRUE, target |-> br_target, btype |-> br_type]]
      BY <2>1 DEF BpuEdge
    <3> QED
      BY <1>1, <3>2, <3>3
  <2>2. CASE ~valid_br
    BY <1>1, <2>2 DEF BpuEdge
  <2> QED
    BY <2>1, <2>2
<1>6. ras' \subseteq Word
  <2>1. Plus(pc, Four) \in Word
    BY <1>1, PlusWord, FourType
  <2> QED
    BY <1>1, <2>1 DEF BpuEdge
<1> QED
  BY <1>3, <1>4, <1>5, <1>6

\* The types hold at reset.
LEMMA TypeInit == Init => TypeOK
<1> SUFFICES ASSUME Init PROVE TypeOK
  OBVIOUS
<1>1. 0 \in Word /\ << >> \in Seq(IfuReg) /\ Len(<< >>) <= QueueEntries
  BY FourType, QueueEntriesAssumption
<1>2. mem \in [Slots -> Word] /\ code \in [Slots -> SUBSET Word]
  BY InitMemsAssumption DEF Init
<1>3. /\ idu = Bubble /\ exu = Bubble /\ lsu = Bubble /\ wbu = Bubble /\ fetch = Idle /\ pc \in Word
      /\ queue = << >> /\ ras = {} /\ lsu_state \in LsuStates /\ access_fault \in BOOLEAN /\ read_reg = 0
      /\ btb = [s \in Slots |-> NoEntry] /\ regs = [r \in Regs |-> 0] /\ csrs = [c \in CSRs |-> 0]
  BY ResetVectorAssumption DEF Init, LsuStates
<1> QED
  BY <1>1, <1>2, <1>3 DEF TypeOK

\* Every step keeps the types.
LEMMA TypeNext == TypeOK /\ LsuOwnsRequest /\ [Next]_vars => TypeOK'
<1> SUFFICES ASSUME TypeOK, LsuOwnsRequest, [Next]_vars PROVE TypeOK'
  OBVIOUS
<1>1. CASE UNCHANGED vars
  BY <1>1 DEF vars, TypeOK
<1>2. CASE Next
  <2>1. PICK fetched, answered \in BOOLEAN : Edge(fetched, answered)
    BY <1>2 DEF Next
  <2>2. /\ IfuEdge(fetched) /\ BpuEdge /\ PipelineEdge /\ LsuEdge(answered) /\ RegFileEdge /\ CSRFileEdge
    BY <2>1 DEF Edge
  <2> QED
    BY <2>2, IfuTypes, PipelineTypes, LsuEdgeTypes, FileTypes DEF TypeOK
<1> QED
  BY <1>1, <1>2

\* Whatever the program and the timing, every register of the core holds a
\* value of its width and the response queue never overflows.
THEOREM CoreTypeCorrect == Spec => []TypeOK
<1>1. LsuInv => LsuOwnsRequest
  BY DEF LsuInv
<1> QED
  BY TypeInit, TypeNext, LsuInvInit, LsuInvNext, <1>1, PTL DEF Spec

-----------------------------------------------------------------------------
(***************************************************************************)
(* The sequential machine with what it remembers about the program.        *)
(***************************************************************************)
RefState == [pc : Word, regs : [Regs -> Word], csrs : [CSRs -> Word], mem : [Slots -> Word],
             dirty : SUBSET Slots, wasBranch : SUBSET Slots, last : CSRs \cup {"none"},
             waived : SUBSET {"stale_code", "csr_raw", "stale_btb", "trap_priority"}]

\* The components of a reference state have their types.
LEMMA RefFields ==
    ASSUME NEW s \in RefState
    PROVE  /\ s.pc \in Word /\ s.regs \in [Regs -> Word] /\ s.csrs \in [CSRs -> Word] /\ s.mem \in [Slots -> Word]
           /\ s.dirty \subseteq Slots /\ s.wasBranch \subseteq Slots /\ s.last \in CSRs \cup {"none"}
           /\ s.waived \subseteq {"stale_code", "csr_raw", "stale_btb", "trap_priority"}
           /\ IsState(s)
           /\ Slot(s.pc) \in Slots /\ CurWord(s) \in Word /\ Cur(s) \in Inst
           /\ Cur(s).op \in Op /\ Cur(s).imm \in Word /\ Cur(s).csr \in CSRs
           /\ Cur(s).rd \in Regs /\ Cur(s).rs1 \in Regs /\ Cur(s).rs2 \in Regs
           /\ RowOf(Cur(s).op, CurRow(s))
           /\ Src1(s) \in Word /\ Src2(s) \in Word /\ Addr(s) \in Word /\ Slot(Addr(s)) \in Slots
           /\ s.mem[Slot(Addr(s))] \in Word /\ s.csrs[Cur(s).csr] \in Word
           /\ s.csrs["mepc"] \in Word /\ s.csrs["mtvec"] \in Word
<1>1. /\ s.pc \in Word /\ s.regs \in [Regs -> Word] /\ s.csrs \in [CSRs -> Word] /\ s.mem \in [Slots -> Word]
      /\ s.dirty \subseteq Slots /\ s.wasBranch \subseteq Slots /\ s.last \in CSRs \cup {"none"}
      /\ s.waived \subseteq {"stale_code", "csr_raw", "stale_btb", "trap_priority"}
  BY DEF RefState
<1>2. IsState(s)
  BY <1>1 DEF IsState
<1> QED
  BY <1>1, <1>2, StateFields

\* One step, when the instruction meets no exception ...
LEMMA StepPlain ==
    ASSUME NEW s \in RefState, ~SeqExcp(s).valid
    PROVE  /\ RefStep(s).pc = Dnpc(s)
           /\ RefStep(s).regs = IF WritesRd(Cur(s)) THEN [s.regs EXCEPT ![Cur(s).rd] = Value(s)] ELSE s.regs
           /\ RefStep(s).csrs = IF Cur(s).op \in CsrOps THEN [s.csrs EXCEPT ![Cur(s).csr] = CsrValue(s)] ELSE s.csrs
           /\ RefStep(s).mem = IF Cur(s).op = "SW" THEN [s.mem EXCEPT ![Slot(Addr(s))] = Src2(s)] ELSE s.mem
<1> DEFINE n == ExecOnce(s)
<1>1. n = [s EXCEPT
             !.pc = Dnpc(s),
             !.regs = IF WritesRd(Cur(s)) THEN [@ EXCEPT ![Cur(s).rd] = Value(s)] ELSE @,
             !.csrs = NemuCsrs(Cur(s), Src1(s), @),
             !.mem = IF Cur(s).op = "SW" THEN [@ EXCEPT ![Slot(Addr(s))] = Src2(s)] ELSE @]
  BY DEF ExecOnce, SeqExcp, CurWord, Cur, Src1, Src2, Addr, Value, Dnpc
<1>2. NemuCsrs(Cur(s), Src1(s), s.csrs) =
         IF Cur(s).op \in CsrOps THEN [s.csrs EXCEPT ![Cur(s).csr] = CsrValue(s)] ELSE s.csrs
  BY RefFields, OpClasses DEF NemuCsrs, CsrValue
<1>3. /\ n.pc = Dnpc(s)
      /\ n.regs = IF WritesRd(Cur(s)) THEN [s.regs EXCEPT ![Cur(s).rd] = Value(s)] ELSE s.regs
      /\ n.csrs = NemuCsrs(Cur(s), Src1(s), s.csrs)
      /\ n.mem = IF Cur(s).op = "SW" THEN [s.mem EXCEPT ![Slot(Addr(s))] = Src2(s)] ELSE s.mem
      /\ DOMAIN n = DOMAIN s
  BY <1>1 DEF RefState
<1> HIDE DEF n
<1>4. RefStep(s).pc = n.pc /\ RefStep(s).regs = n.regs /\ RefStep(s).csrs = n.csrs /\ RefStep(s).mem = n.mem
  BY <1>3 DEF RefStep, n, RefState
<1> QED
  BY <1>2, <1>3, <1>4

\* ... and when it meets one.
LEMMA StepTrap ==
    ASSUME NEW s \in RefState, SeqExcp(s).valid
    PROVE  /\ RefStep(s).pc = s.csrs["mtvec"]
           /\ RefStep(s).regs = s.regs
           /\ RefStep(s).csrs = [s.csrs EXCEPT !["mepc"] = s.pc, !["mcause"] = SeqExcp(s).cause,
                                               !["mtval"] = SeqExcp(s).tval]
           /\ RefStep(s).mem = s.mem
<1> DEFINE n == ExecOnce(s)
<1>1. n = RaiseIntr(s, SeqExcp(s))
  BY DEF ExecOnce, SeqExcp, CurWord
<1>2. /\ n.pc = s.csrs["mtvec"] /\ n.regs = s.regs /\ n.mem = s.mem
      /\ n.csrs = [s.csrs EXCEPT !["mepc"] = s.pc, !["mcause"] = SeqExcp(s).cause, !["mtval"] = SeqExcp(s).tval]
      /\ DOMAIN n = DOMAIN s
  BY <1>1 DEF RaiseIntr, RefState
<1> HIDE DEF n
<1>3. RefStep(s).pc = n.pc /\ RefStep(s).regs = n.regs /\ RefStep(s).csrs = n.csrs /\ RefStep(s).mem = n.mem
  BY <1>2 DEF RefStep, n, RefState
<1> QED
  BY <1>2, <1>3

\* What the reference remembers about the program.
IsBranch(word) == InstDecodeTable[InstOf[word].op].br # "Nop"
Changed(s) == {t \in Slots : RefStep(s).mem[t] # s.mem[t]}

\* What a step of the reference books besides executing.
LEMMA StepBook ==
    ASSUME NEW s \in RefState
    PROVE  /\ RefStep(s).waived = s.waived \cup RefWaivers(s)
           /\ RefStep(s).dirty = IF Cur(s).op = "FENCE_I" /\ ~SeqExcp(s).valid THEN {} ELSE s.dirty \cup Changed(s)
           /\ RefStep(s).wasBranch = s.wasBranch \cup {t \in Changed(s) : IsBranch(s.mem[t])}
           /\ RefStep(s).last = IF Cur(s).op \in CsrOps /\ ~SeqExcp(s).valid THEN Cur(s).csr ELSE "none"
           /\ DOMAIN RefStep(s) = DOMAIN s
<1> DEFINE n == ExecOnce(s)
           C == {t \in Slots : n.mem[t] # s.mem[t]}
<1>1. DOMAIN n = DOMAIN s
  BY DEF ExecOnce, RaiseIntr, RefState
<1>2. RefStep(s) = [n EXCEPT !.waived = s.waived \cup RefWaivers(s),
             !.dirty = IF Cur(s).op = "FENCE_I" /\ ~SeqExcp(s).valid THEN {} ELSE s.dirty \cup C,
             !.wasBranch = s.wasBranch \cup {t \in C : IsBranch(s.mem[t])},
             !.last = IF Cur(s).op \in CsrOps /\ ~SeqExcp(s).valid THEN Cur(s).csr ELSE "none"]
  BY OpClasses DEF RefStep, SeqExcp, Cur, CurWord, IsBranch
<1> HIDE DEF n, C
<1>3. /\ RefStep(s).waived = s.waived \cup RefWaivers(s)
      /\ RefStep(s).dirty = IF Cur(s).op = "FENCE_I" /\ ~SeqExcp(s).valid THEN {} ELSE s.dirty \cup C
      /\ RefStep(s).wasBranch = s.wasBranch \cup {t \in C : IsBranch(s.mem[t])}
      /\ RefStep(s).last = IF Cur(s).op \in CsrOps /\ ~SeqExcp(s).valid THEN Cur(s).csr ELSE "none"
      /\ RefStep(s).mem = n.mem
      /\ DOMAIN RefStep(s) = DOMAIN s
  BY <1>1, <1>2 DEF RefState
<1>4. C = Changed(s)
  BY <1>3 DEF C, Changed
<1> QED
  BY <1>3, <1>4

\* The exception of a sequential step has its type.
LEMMA SeqExcpType ==
    ASSUME NEW s \in RefState
    PROVE  SeqExcp(s) \in ExcpInfo
<1> DEFINE w == CurWord(s)
           a == Addr(s)
<1>1. w \in Word /\ s.pc \in Word /\ a \in Word
  BY RefFields
<1>2. /\ Excp("InstructionAddressMisaligned", s.pc) \in ExcpInfo /\ Excp("InstructionAccessFault", s.pc) \in ExcpInfo
      /\ Excp("IllegalInstruction", w) \in ExcpInfo /\ Excp("Breakpoint", s.pc) \in ExcpInfo
      /\ Excp("EnvironmentCallFromMMode", s.pc) \in ExcpInfo /\ Excp("LoadAccessFault", a) \in ExcpInfo
      /\ Excp("StoreAMOPageFault", a) \in ExcpInfo /\ NoExcp \in ExcpInfo
  BY <1>1, ExcpTypes, ExcpNamed DEF ExcpNames
<1> QED
  BY <1>2 DEF SeqExcp, SequentialExcp, Addr, Src1, Cur

\* The reference steps from states to states.
LEMMA StepType ==
    ASSUME NEW s \in RefState
    PROVE  RefStep(s) \in RefState
<1> DEFINE n == RefStep(s)
<1>0. /\ s.pc \in Word /\ s.regs \in [Regs -> Word] /\ s.csrs \in [CSRs -> Word] /\ s.mem \in [Slots -> Word]
      /\ s.dirty \subseteq Slots /\ s.wasBranch \subseteq Slots
      /\ s.waived \subseteq {"stale_code", "csr_raw", "stale_btb", "trap_priority"}
      /\ Cur(s).rd \in Regs /\ Cur(s).csr \in CSRs /\ Slot(Addr(s)) \in Slots /\ Src2(s) \in Word
      /\ s.csrs["mtvec"] \in Word
  BY RefFields
<1>1. n.pc \in Word /\ n.regs \in [Regs -> Word] /\ n.csrs \in [CSRs -> Word] /\ n.mem \in [Slots -> Word]
  <2>1. CASE SeqExcp(s).valid
    <3>1. SeqExcp(s).cause \in Word /\ SeqExcp(s).tval \in Word
      BY SeqExcpType, SmallWords DEF ExcpInfo
    <3> QED
      <4>1. /\ n.pc = s.csrs["mtvec"] /\ n.regs = s.regs /\ n.mem = s.mem
            /\ n.csrs = [s.csrs EXCEPT !["mepc"] = s.pc, !["mcause"] = SeqExcp(s).cause, !["mtval"] = SeqExcp(s).tval]
        BY <2>1, StepTrap
      <4> HIDE DEF n
      <4> QED
        BY <1>0, <3>1, <4>1
  <2>2. CASE ~SeqExcp(s).valid
    <3>1. /\ WritesRd(Cur(s)) => Value(s) \in Word
          /\ Cur(s).op \in CsrOps => CsrValue(s) \in Word
          /\ Dnpc(s) \in Word
      BY RefFields, ValueTypes
    <3>0. /\ n.regs = IF WritesRd(Cur(s)) THEN [s.regs EXCEPT ![Cur(s).rd] = Value(s)] ELSE s.regs
          /\ n.csrs = IF Cur(s).op \in CsrOps THEN [s.csrs EXCEPT ![Cur(s).csr] = CsrValue(s)] ELSE s.csrs
          /\ n.mem = IF Cur(s).op = "SW" THEN [s.mem EXCEPT ![Slot(Addr(s))] = Src2(s)] ELSE s.mem
      BY <2>2, StepPlain
    <3>2. n.regs \in [Regs -> Word]
      <4> HIDE DEF n
      <4> QED
        BY <1>0, <3>0, <3>1
    <3>3. n.csrs \in [CSRs -> Word]
      <4> HIDE DEF n
      <4> QED
        BY <1>0, <3>0, <3>1
    <3>4. n.mem \in [Slots -> Word]
      <4> HIDE DEF n
      <4> QED
        BY <1>0, <3>0
    <3> QED
      BY <2>2, <3>1, <3>2, <3>3, <3>4, StepPlain
  <2> QED
    BY <2>1, <2>2
<1>2. /\ n.dirty \subseteq Slots /\ n.wasBranch \subseteq Slots
      /\ n.waived \subseteq {"stale_code", "csr_raw", "stale_btb", "trap_priority"}
  <2>1. RefWaivers(s) \subseteq {"stale_code", "csr_raw", "stale_btb", "trap_priority"}
    BY DEF RefWaivers
  <2>2. Changed(s) \subseteq Slots
    BY DEF Changed
  <2> QED
    BY <1>0, <2>1, <2>2, StepBook
<1>3. n.last \in CSRs \cup {"none"}
  BY <1>0, StepBook
<1>4. \A V \in SUBSET {"stale_code", "csr_raw", "stale_btb", "trap_priority"} :
        \A Y, B \in SUBSET Slots : \A l \in CSRs \cup {"none"} : \A x \in RefState :
           [x EXCEPT !.waived = V, !.dirty = Y, !.wasBranch = B, !.last = l] \in RefState
  BY DEF RefState
<1>5. ExecOnce(s).pc = n.pc /\ ExecOnce(s).regs = n.regs /\ ExecOnce(s).csrs = n.csrs /\ ExecOnce(s).mem = n.mem
  BY DEF ExecOnce, RaiseIntr, RefStep, RefState
<1>7. ExecOnce(s) \in RefState
  <2>1. CASE SeqExcp(s).valid
    <3>1. PICK P, C : ExecOnce(s) = [s EXCEPT !.pc = P, !.csrs = C]
      BY <2>1 DEF ExecOnce, RaiseIntr, SeqExcp, CurWord
    <3>2. P \in Word /\ C \in [CSRs -> Word]
      BY <1>1, <1>5, <3>1 DEF RefState
    <3> QED
      BY <3>1, <3>2 DEF RefState
  <2>2. CASE ~SeqExcp(s).valid
    <3>1. PICK P, R, C, M : ExecOnce(s) = [s EXCEPT !.pc = P, !.regs = R, !.csrs = C, !.mem = M]
      BY <2>2 DEF ExecOnce, SeqExcp, CurWord
    <3>2. P \in Word /\ R \in [Regs -> Word] /\ C \in [CSRs -> Word] /\ M \in [Slots -> Word]
      BY <1>1, <1>5, <3>1 DEF RefState
    <3> QED
      BY <3>1, <3>2 DEF RefState
  <2> QED
    BY <2>1, <2>2
<1>8. n = [ExecOnce(s) EXCEPT !.waived = n.waived, !.dirty = n.dirty, !.wasBranch = n.wasBranch, !.last = n.last]
  <2>1. PICK V, Y, B, l : n = [ExecOnce(s) EXCEPT !.waived = V, !.dirty = Y, !.wasBranch = B, !.last = l]
    BY DEF RefStep
  <2>2. V = n.waived /\ Y = n.dirty /\ B = n.wasBranch /\ l = n.last
    BY <1>7, <2>1 DEF RefState
  <2> QED
    BY <2>1, <2>2
<1> DEFINE x == ExecOnce(s)
<1> HIDE DEF n, x
<1>9. /\ n.waived \in SUBSET {"stale_code", "csr_raw", "stale_btb", "trap_priority"}
      /\ n.dirty \in SUBSET Slots /\ n.wasBranch \in SUBSET Slots /\ x \in RefState
  BY <1>2, <1>7 DEF x
<1>10. [x EXCEPT !.waived = n.waived, !.dirty = n.dirty, !.wasBranch = n.wasBranch, !.last = n.last] \in RefState
  BY <1>3, <1>4, <1>9
<1>11. n \in RefState
  BY <1>8, <1>10 DEF x
<1> QED
  BY <1>11 DEF n

(***************************************************************************)
(* Exceptions as the stages find them: at the fetch, in the decoder, in    *)
(* EXU, and in the LSU when the bus answers with an error.                 *)
(***************************************************************************)
FetchExcp(addr) == IF IsMisaligned(addr) THEN Excp("InstructionAddressMisaligned", addr)
                   ELSE IF Slot(addr) \in FaultSlots THEN Excp("InstructionAccessFault", addr)
                   ELSE NoExcp
DecodeExcp(addr, word) == IF FetchExcp(addr).valid THEN FetchExcp(addr)
                          ELSE IF InstOf[word].op = "Illegal" THEN Excp("IllegalInstruction", word)
                          ELSE NoExcp
StageExcp(addr, word) == IF DecodeExcp(addr, word).valid THEN DecodeExcp(addr, word)
                         ELSE CASE InstOf[word].op = "EBREAK" -> Excp("Breakpoint", addr)
                                [] InstOf[word].op = "ECALL"  -> Excp("EnvironmentCallFromMMode", addr)
                                [] OTHER -> NoExcp

\* Which stage raises an exception first.
LEMMA ExcpStages ==
    ASSUME NEW addr, NEW word
    PROVE  /\ FetchExcp(addr).valid <=> IsMisaligned(addr) \/ Slot(addr) \in FaultSlots
           /\ DecodeExcp(addr, word).valid <=> FetchExcp(addr).valid \/ InstOf[word].op = "Illegal"
           /\ StageExcp(addr, word).valid <=> DecodeExcp(addr, word).valid \/ InstOf[word].op \in {"EBREAK", "ECALL"}
           /\ ~StageExcp(addr, word).valid => StageExcp(addr, word) = NoExcp
<1>1. \A n \in ExcpNames : \A t : Excp(n, t).valid
  BY ExcpTypes, ExcpNamed
<1>2. ~NoExcp.valid
  BY ExcpTypes
<1>3. FetchExcp(addr).valid <=> IsMisaligned(addr) \/ Slot(addr) \in FaultSlots
  BY <1>1, <1>2 DEF FetchExcp, ExcpNames
<1>4. DecodeExcp(addr, word).valid <=> FetchExcp(addr).valid \/ InstOf[word].op = "Illegal"
  BY <1>1, <1>2 DEF DecodeExcp, ExcpNames
<1>5. StageExcp(addr, word).valid <=> DecodeExcp(addr, word).valid \/ InstOf[word].op \in {"EBREAK", "ECALL"}
  BY <1>1, <1>2 DEF StageExcp, ExcpNames
<1>6. ~StageExcp(addr, word).valid => StageExcp(addr, word) = NoExcp
  BY <1>1, <1>2 DEF StageExcp, ExcpNames
<1> QED
  BY <1>3, <1>4, <1>5, <1>6

\* The sequential machine meets the same exceptions, in the same order.
LEMMA SeqExcpStages ==
    ASSUME NEW s \in RefState
    PROVE  LET e == StageExcp(s.pc, CurWord(s)) IN
           SeqExcp(s) = IF e.valid THEN e
                        ELSE IF Cur(s).op \in {"LW", "SW"} /\ Slot(Addr(s)) \in FaultSlots
                        THEN Excp(IF Cur(s).op = "SW" THEN "StoreAMOPageFault" ELSE "LoadAccessFault", Addr(s))
                        ELSE NoExcp
<1> DEFINE op == Cur(s).op
           w == CurWord(s)
           a == Addr(s)
<1>0. InstOf[w].op = op
  BY DEF Cur
<1>1. SeqExcp(s) = IF IsMisaligned(s.pc) THEN Excp("InstructionAddressMisaligned", s.pc)
        ELSE IF Slot(s.pc) \in FaultSlots THEN Excp("InstructionAccessFault", s.pc)
        ELSE CASE op = "Illegal" -> Excp("IllegalInstruction", w)
               [] op = "EBREAK"  -> Excp("Breakpoint", s.pc)
               [] op = "ECALL"   -> Excp("EnvironmentCallFromMMode", s.pc)
               [] op = "LW" /\ Slot(a) \in FaultSlots -> Excp("LoadAccessFault", a)
               [] op = "SW" /\ Slot(a) \in FaultSlots -> Excp("StoreAMOPageFault", a)
               [] OTHER -> NoExcp
  BY DEF SeqExcp, SequentialExcp, Addr, Src1, Cur
<1>2. \A n \in ExcpNames : \A t : Excp(n, t).valid
  BY ExcpTypes, ExcpNamed
<1>3. ~NoExcp.valid
  BY ExcpTypes
<1> HIDE DEF op, w, a
<1>4. CASE FetchExcp(s.pc).valid
  <2>1. StageExcp(s.pc, w) = FetchExcp(s.pc)
    BY <1>4 DEF StageExcp, DecodeExcp
  <2>2. SeqExcp(s) = FetchExcp(s.pc)
    BY <1>1, <1>2, <1>3, <1>4 DEF FetchExcp, ExcpNames
  <2> QED
    BY <1>4, <2>1, <2>2 DEF w
<1>5. CASE ~FetchExcp(s.pc).valid
  <2>1. ~IsMisaligned(s.pc) /\ Slot(s.pc) \notin FaultSlots
    BY <1>5, ExcpStages
  <2>2. CASE op = "Illegal"
    BY <1>0, <1>1, <1>2, <1>5, <2>1, <2>2 DEF StageExcp, DecodeExcp, ExcpNames, w
  <2>3. CASE op \in {"EBREAK", "ECALL"}
    <3>1. DecodeExcp(s.pc, w) = NoExcp
      BY <1>0, <1>5, <2>3 DEF DecodeExcp
    <3> QED
      BY <1>0, <1>1, <1>2, <1>3, <2>1, <2>3, <3>1 DEF StageExcp, ExcpNames, w
  <2>4. CASE op \notin {"Illegal", "EBREAK", "ECALL"}
    <3>1. DecodeExcp(s.pc, w) = NoExcp /\ StageExcp(s.pc, w) = NoExcp
      BY <1>0, <1>3, <1>5, <2>4 DEF DecodeExcp, StageExcp
    <3>2. SeqExcp(s) = IF op \in {"LW", "SW"} /\ Slot(a) \in FaultSlots
                       THEN Excp(IF op = "SW" THEN "StoreAMOPageFault" ELSE "LoadAccessFault", a) ELSE NoExcp
      BY <1>1, <2>1, <2>4
    <3> QED
      BY <1>3, <3>1, <3>2 DEF op, w, a
  <2> QED
    BY <2>2, <2>3, <2>4
<1> QED
  BY <1>4, <1>5

(***************************************************************************)
(* Programs inside the contract.                                           *)
(***************************************************************************)
Clean(s) == s.waived = {}
Redirects(s) == SeqExcp(s).valid \/ Cur(s).op \in {"MRET", "FENCE_I"}
Branchy(s, t) == t \in s.wasBranch \/ IsBranch(s.mem[t])

\* A step that books no waiver met none of the waived situations.
LEMMA CleanStep ==
    ASSUME NEW s \in RefState, Clean(RefStep(s))
    PROVE  /\ Clean(s)
           /\ Slot(s.pc) \notin s.dirty
           /\ Cur(s).op \in CsrOps /\ ~FetchExcp(s.pc).valid => s.last # Cur(s).csr
           /\ Branchy(s, Slot(s.pc)) => CurRow(s).br # "Nop"
           /\ FetchExcp(s.pc).valid => Cur(s).op \notin {"MRET", "FENCE_I"}
<1>1. s.waived = {} /\ RefWaivers(s) = {}
  BY StepBook DEF Clean
<1>2. /\ "stale_code" \notin RefWaivers(s) /\ "csr_raw" \notin RefWaivers(s)
      /\ "stale_btb" \notin RefWaivers(s) /\ "trap_priority" \notin RefWaivers(s)
  BY <1>1
<1>3. /\ Slot(s.pc) \notin s.dirty
      /\ Cur(s).op \in CsrOps /\ ~FetchExcp(s.pc).valid => s.last # Cur(s).csr
      /\ Slot(s.pc) \in s.wasBranch => CurRow(s).br # "Nop"
      /\ FetchExcp(s.pc).valid => Cur(s).op \notin {"MRET", "FENCE_I"}
  BY <1>2, OpClasses, ExcpStages DEF RefWaivers, Cur, CurWord, CurRow
<1>4. IsBranch(s.mem[Slot(s.pc)]) => CurRow(s).br # "Nop"
  BY DEF IsBranch, CurRow, Cur, CurWord
<1> QED
  BY <1>1, <1>3, <1>4 DEF Branchy, Clean

\* A slot that has held a branch is never forgotten.
LEMMA BranchyStep ==
    ASSUME NEW s \in RefState, NEW t \in Slots, Branchy(s, t)
    PROVE  Branchy(RefStep(s), t)
<1>1. RefStep(s).wasBranch = s.wasBranch \cup {u \in Changed(s) : IsBranch(s.mem[u])}
  BY StepBook
<1>2. t \notin Changed(s) => RefStep(s).mem[t] = s.mem[t]
  BY DEF Changed
<1> QED
  BY <1>1, <1>2 DEF Branchy

-----------------------------------------------------------------------------
(***************************************************************************)
(* What the register in front of a stage must hold when the instruction in *)
(* it is the one that state s of the sequential machine executes.          *)
(***************************************************************************)
ExuRight(r, s) ==
    /\ r.inst = CurWord(s)
    /\ ReadsRs1(D(r)) => r.rs1_data = Src1(s)
    /\ ReadsRs2(D(r)) => r.rs2_data = Src2(s)

LsuRight(r, s) ==
    /\ r.inst = CurWord(s)
    /\ ~r.excp.valid =>
         /\ D(r).we /\ D(r).lsu = "Nop" => r.ex_out = Value(s)
         /\ D(r).lsu # "Nop" => r.addr = Addr(s)
         /\ D(r).lsu = "SW" => r.data = Src2(s)
         /\ D(r).exec = "CSR" => r.csr_data = CsrValue(s)

WbuRight(r, s) ==
    /\ r.inst = CurWord(s)
    /\ r.excp = SeqExcp(s)
    /\ ~r.excp.valid => /\ D(r).we => r.ls_out = Value(s)
                        /\ D(r).exec = "CSR" => r.csr_data = CsrValue(s)

\* A stage that holds the word at the pc of the reference decodes its instruction.
LEMMA SameInst ==
    ASSUME NEW r, NEW s, r.inst = CurWord(s)
    PROVE  In(r) = Cur(s) /\ D(r) = CurRow(s)
BY DEF In, D, Cur, CurRow

\* IDU and EXU raise the exceptions of their stage.
LEMMA IduRaises ==
    ASSUME TypeOK, idu.valid, idu.excp = FetchExcp(idu.pc)
    PROVE  IduOut.excp = DecodeExcp(idu.pc, idu.inst)
<1>1. idu.inst \in Word
  BY Registers
<1>2. In(idu).op \in Op /\ RowOf(In(idu).op, D(idu))
  BY <1>1, Decoded
<1>3. D(idu).fmt = "E" <=> In(idu).op = "Illegal"
  BY <1>2, OpClasses DEF RowOf, IsRow, OpOther, ImmOps, RegOps, BranchOps, CsrOps
<1> QED
  BY <1>3 DEF IduOut, idu_excp, DecodeExcp, In

\* The execute stage adds ebreak and ecall to the exceptions it received.
LEMMA ExuRaises ==
    ASSUME TypeOK, exu.valid, exu.excp = DecodeExcp(exu.pc, exu.inst)
    PROVE  ExuOut.excp = StageExcp(exu.pc, exu.inst)
<1>1. exu.inst \in Word
  BY Registers
<1>2. In(exu).op \in Op /\ RowOf(In(exu).op, D(exu))
  BY <1>1, Decoded
<1>3. D(exu).exec = "EBreak" <=> In(exu).op = "EBREAK"
  BY <1>2, OpClasses DEF RowOf, IsRow, OpOther, ImmOps, RegOps, BranchOps, CsrOps
<1>4. D(exu).exec = "ECall" <=> In(exu).op = "ECALL"
  BY <1>2, OpClasses DEF RowOf, IsRow, OpOther, ImmOps, RegOps, BranchOps, CsrOps
<1>5. InstOf[exu.inst].op = In(exu).op
  BY DEF In
<1>6. exu_excp = StageExcp(exu.pc, exu.inst)
  BY <1>3, <1>4, <1>5 DEF exu_excp, StageExcp
<1> QED
  BY <1>6 DEF ExuOut

\* EXU: given the right operands, it computes what the sequential machine
\* computes, and decides a branch as it does.
LEMMA ExuComputes ==
    ASSUME TypeOK, exu.valid, NEW s \in RefState, exu.pc = s.pc, ExuRight(exu, s),
           exu.excp = DecodeExcp(exu.pc, exu.inst),
           Cur(s).op \in CsrOps /\ ~FetchExcp(s.pc).valid => csrs[Cur(s).csr] = s.csrs[Cur(s).csr]
    PROVE  /\ ExuOut.excp = StageExcp(exu.pc, exu.inst)
           /\ LsuRight(ExuOut, s)
           /\ ~ExuOut.excp.valid /\ D(exu).we /\ D(exu).lsu = "Nop" => ex_out = Value(s)
           /\ ~ExuOut.excp.valid /\ br_op # "Nop" => correct_target = Dnpc(s)
<1> DEFINE in == Cur(s)
           d == CurRow(s)
           a == Operand(d.op1, exu.rs1_data, exu.rs2_data, in.imm, exu.pc, csrs[in.csr])
           b == Operand(d.op2, exu.rs1_data, exu.rs2_data, in.imm, exu.pc, csrs[in.csr])
<1>1. /\ In(exu) = in /\ D(exu) = d /\ exu.inst = CurWord(s)
      /\ ReadsRs1(d) => exu.rs1_data = Src1(s)
      /\ ReadsRs2(d) => exu.rs2_data = Src2(s)
  BY SameInst DEF ExuRight
<1>2. /\ in \in Inst /\ in.op \in Op /\ RowOf(in.op, d) /\ in.imm \in Word /\ s.pc \in Word
      /\ Src1(s) \in Word /\ Src2(s) \in Word
  BY RefFields
<1>3. alu_result = ALU(d.alu, a, b)
  BY <1>1 DEF alu_result, Oper, Operand
<1>4. Oper(d.op2) = b
  BY <1>1 DEF Oper, Operand
<1>5. InstOf[exu.inst].op = in.op
  BY <1>1 DEF Cur
<1>7. ExuOut.excp = StageExcp(exu.pc, exu.inst)
  BY ExuRaises
<1> HIDE DEF in, d, a, b
<1>8. ASSUME ~ExuOut.excp.valid
      PROVE  /\ ~FetchExcp(s.pc).valid /\ in.op \notin {"Illegal", "EBREAK", "ECALL"}
  BY <1>5, <1>7, <1>8, ExcpStages
<1>9. ASSUME ~ExuOut.excp.valid, d.we, d.lsu = "Nop" PROVE ex_out = Value(s)
  <2>1. CASE in.op \in CsrOps
    <3>1. d.exec = "CSR"
      BY <1>2, <2>1 DEF RowOf, IsRow
    <3>2. ex_out = csrs[in.csr]
      BY <1>1, <3>1 DEF ex_out
    <3>3. csrs[in.csr] = s.csrs[in.csr]
      BY <1>8, <1>9, <2>1 DEF in
    <3>4. Value(s) = s.csrs[in.csr]
      BY <2>1, OpClasses DEF Value, NemuValue, in, CsrOps, ImmOps
    <3> QED
      BY <3>2, <3>3, <3>4
  <2>2. CASE in.op \notin CsrOps
    <3>1. in.op # "LW"
      BY <1>2, <1>9 DEF RowOf, IsRow
    <3>2. in.op \notin CsrOps \cup {"LW", "Illegal"}
      BY <1>8, <1>9, <2>2, <3>1
    <3>3. d.exec = "ALU"
      BY <1>2, <1>9, <3>2, OpClasses DEF RowOf, IsRow, OpOther
    <3>4. ALU(d.alu, a, b) = NemuValue(in, Src1(s), Src2(s), exu.pc, s.mem[Slot(Addr(s))], csrs[in.csr])
      BY <1>1, <1>2, <1>9, <3>2, ValueAgrees DEF a, b
    <3>5. NemuValue(in, Src1(s), Src2(s), exu.pc, s.mem[Slot(Addr(s))], csrs[in.csr]) = Value(s)
      <4>1. \A x, y : NemuValue(in, Src1(s), Src2(s), s.pc, s.mem[Slot(Addr(s))], x)
                         = NemuValue(in, Src1(s), Src2(s), s.pc, s.mem[Slot(Addr(s))], y)
        BY <3>2, OpClasses DEF NemuValue
      <4> QED
        BY <4>1 DEF Value, in
    <3> QED
      BY <1>1, <1>3, <3>3, <3>4, <3>5 DEF ex_out
  <2> QED
    BY <2>1, <2>2
<1>10. ASSUME d.lsu # "Nop" PROVE alu_result = Addr(s)
  <2>1. in.op \in {"LW", "SW"}
    BY <1>2, <1>10, OpClasses DEF RowOf, IsRow, OpOther
  <2>2. d.alu = "Add" /\ a = Src1(s) /\ b = in.imm
    BY <1>1, <1>2, <2>1 DEF RowOf, IsRow, ReadsRs1, Operand, a, b
  <2> QED
    BY <1>3, <2>2 DEF ALU, Addr, in
<1>11. ASSUME d.lsu = "SW" PROVE exu.rs2_data = Src2(s)
  <2>1. in.op = "SW"
    BY <1>2, <1>11, OpClasses DEF RowOf, IsRow, OpOther
  <2> QED
    BY <1>1, <1>2, <2>1 DEF RowOf, IsRow, ReadsRs2
<1>12. ASSUME ~ExuOut.excp.valid, d.exec = "CSR" PROVE csr_rd_data = CsrValue(s)
  <2>1. in.op \in CsrOps
    BY <1>2, <1>12, OpClasses DEF RowOf, IsRow, OpOther
  <2>2. csrs[in.csr] = s.csrs[in.csr]
    BY <1>8, <1>12, <2>1 DEF in
  <2>3. d.csr = OpCsr[in.op] /\ b = (IF in.op \in OpCsrImm THEN in.imm ELSE Src1(s))
    BY <1>1, <1>2, <2>1 DEF RowOf, IsRow, ReadsRs1, Operand, b
  <2>4. csr_rd_data = CASE d.csr = "Nop" -> 0 [] d.csr = "RW"  -> b
                     [] d.csr = "RS"  -> BitOr(s.csrs[in.csr], b) [] d.csr = "RC"  -> BitClear(s.csrs[in.csr], b)
    BY <1>1, <1>4, <2>2 DEF csr_rd_data
  <2>5. CsrValue(s) = NemuCsr(in.op, s.csrs[in.csr], b)
    BY <2>3 DEF CsrValue, in
  <2> QED
    BY <2>1, <2>3, <2>4, <2>5 DEF NemuCsr, OpCsr, CsrOps
<1>13. ASSUME ~ExuOut.excp.valid, br_op # "Nop" PROVE correct_target = Dnpc(s)
  <2>1. br_op = d.br
    BY <1>1 DEF br_op
  <2>2. in.op \in BranchOps \cup {"JAL", "JALR"} /\ d.br = in.op
    BY <1>2, <1>13, <2>1, OpClasses DEF RowOf, IsRow, OpOther
  <2>3. CASE in.op = "JAL"
    <3>1. br_taken /\ br_target = Plus(s.pc, in.imm)
      BY <1>1, <2>1, <2>2, <2>3 DEF br_taken, br_target
    <3>2. Dnpc(s) = Plus(s.pc, in.imm)
      BY <2>3 DEF Dnpc, NemuDnpc, in
    <3> QED
      BY <3>1, <3>2 DEF correct_target
  <2>4. CASE in.op = "JALR"
    <3>1. br_taken /\ br_target = Plus(Src1(s), in.imm)
      BY <1>1, <1>2, <2>1, <2>2, <2>4 DEF br_taken, br_target, RowOf, IsRow, ReadsRs1
    <3>2. Dnpc(s) = Plus(Src1(s), in.imm)
      BY <2>4, OpClasses DEF Dnpc, NemuDnpc, in, BranchOps
    <3> QED
      BY <3>1, <3>2 DEF correct_target
  <2>5. CASE in.op \in BranchOps
    <3>1. d.alu = OpBranch[in.op] /\ a = Src1(s) /\ b = Src2(s)
      BY <1>1, <1>2, <2>5 DEF RowOf, IsRow, ReadsRs1, ReadsRs2, Operand, a, b
    <3>2. br_taken <=> AluTaken(in.op, alu_result)
      BY <2>1, <2>2, <2>5 DEF br_taken, AluTaken, BranchOps
    <3>3. br_taken <=> NemuTaken(in.op, Src1(s), Src2(s))
      BY <1>2, <1>3, <2>5, <3>1, <3>2, BranchAgrees
    <3>4. br_target = Plus(s.pc, in.imm)
      BY <1>1, <2>1, <2>2, <2>5 DEF br_target, BranchOps
    <3>5. Dnpc(s) = IF NemuTaken(in.op, Src1(s), Src2(s)) THEN Plus(s.pc, in.imm) ELSE Plus(s.pc, Four)
      BY <2>5, OpClasses DEF Dnpc, NemuDnpc, in, BranchOps
    <3> QED
      BY <3>3, <3>4, <3>5 DEF correct_target
  <2> QED
    BY <2>2, <2>3, <2>4, <2>5
<1>14. LsuRight(ExuOut, s)
  <2>1. /\ ExuOut.inst = exu.inst /\ ExuOut.ex_out = ex_out /\ ExuOut.addr = alu_result
        /\ ExuOut.data = exu.rs2_data /\ ExuOut.csr_data = csr_rd_data
    BY DEF ExuOut
  <2>2. D(ExuOut) = d
    BY <1>1, <2>1 DEF D, In
  <2> QED
    BY <1>1, <1>9, <1>10, <1>11, <1>12, <2>1, <2>2 DEF LsuRight
<1> QED
  BY <1>1, <1>7, <1>9, <1>13, <1>14

\* Which classes of instructions a row of the table stands for.
LEMMA RowMeaning ==
    ASSUME NEW op \in Op, NEW d, RowOf(op, d)
    PROVE  /\ d.lsu = "LW" <=> op = "LW"
           /\ d.lsu = "SW" <=> op = "SW"
           /\ d.lsu = "Nop" <=> op \notin {"LW", "SW"}
           /\ d.exec = "CSR" <=> op \in CsrOps
           /\ d.exec = "MRet" <=> op = "MRET"
           /\ d.exec = "FenceI" <=> op = "FENCE_I"
           /\ d.exec = "EBreak" <=> op = "EBREAK"
           /\ d.exec \in {"ALU", "CSR"} /\ d.we => d.lsu = "Nop"
           /\ d.we /\ d.exec \notin {"ALU", "CSR"} => op = "LW"
           /\ d.fmt = "E" <=> op = "Illegal"
           /\ d.we \in BOOLEAN
           /\ d.we <=> op \in ImmOps \cup RegOps \cup CsrOps \cup {"LUI", "AUIPC", "JAL", "JALR", "LW", "Illegal"}
<1>1. CASE op \in ImmOps
  BY <1>1 DEF RowOf, IsRow, ImmOps, CsrOps
<1>2. CASE op \in RegOps
  BY <1>2 DEF RowOf, IsRow, RegOps, CsrOps
<1>3. CASE op \in BranchOps
  BY <1>3 DEF RowOf, IsRow, BranchOps, CsrOps, ImmOps, RegOps
<1>4. CASE op \in CsrOps
  BY <1>4 DEF RowOf, IsRow, CsrOps
<1>5. CASE op \in OpOther
  BY <1>5 DEF RowOf, IsRow, OpOther, CsrOps, ImmOps, RegOps
<1> QED
  BY <1>1, <1>2, <1>3, <1>4, <1>5, OpClasses

\* Only a store that raises nothing changes memory.
LEMMA NoStoreStep ==
    ASSUME NEW s \in RefState, Cur(s).op # "SW" \/ SeqExcp(s).valid
    PROVE  RefStep(s).mem = s.mem
BY StepPlain, StepTrap

\* LSU: what it hands to WBU once the bus has answered.
LEMMA LsuPasses ==
    ASSUME TypeOK, lsu.valid, NEW s \in RefState, lsu.pc = s.pc, LsuRight(lsu, s),
           lsu.excp = StageExcp(lsu.pc, lsu.inst),
           access_fault <=> req_op # "Nop" /\ LsuFault,
           req_op = "LW" => read_reg = mem[Slot(lsu.addr)],
           mem = RefStep(s).mem
    PROVE  /\ WbuRight(LsuOut, s)
           /\ ~SeqExcp(s).valid /\ D(lsu).we => ls_out = Value(s)
<1> DEFINE in == Cur(s)
           d == CurRow(s)
<1>1. In(lsu) = in /\ D(lsu) = d /\ lsu.inst = CurWord(s)
  BY SameInst DEF LsuRight
<1>2. in.op \in Op /\ RowOf(in.op, d)
  BY RefFields
<1>3. /\ d.lsu = "LW" <=> in.op = "LW"
      /\ d.lsu = "SW" <=> in.op = "SW"
      /\ d.lsu = "Nop" <=> in.op \notin {"LW", "SW"}
      /\ d.we \in BOOLEAN
  BY <1>2, RowMeaning
<1>4. /\ ~lsu.excp.valid =>
         /\ d.we /\ d.lsu = "Nop" => lsu.ex_out = Value(s)
         /\ d.lsu # "Nop" => lsu.addr = Addr(s)
         /\ d.exec = "CSR" => lsu.csr_data = CsrValue(s)
  BY <1>1 DEF LsuRight
<1>5. SeqExcp(s) = IF lsu.excp.valid THEN lsu.excp
                   ELSE IF in.op \in {"LW", "SW"} /\ Slot(Addr(s)) \in FaultSlots
                   THEN Excp(IF in.op = "SW" THEN "StoreAMOPageFault" ELSE "LoadAccessFault", Addr(s))
                   ELSE NoExcp
  BY <1>1, SeqExcpStages
<1> HIDE DEF in, d
<1>6. req_op = IF lsu.excp.valid THEN "Nop" ELSE d.lsu
  BY <1>1 DEF req_op
<1>7. lsu_excp = SeqExcp(s)
  BY <1>3, <1>4, <1>5, <1>6 DEF lsu_excp, LsuFault
<1>8. ASSUME ~SeqExcp(s).valid, d.we PROVE ls_out = Value(s)
  <2>1. ~lsu.excp.valid
    BY <1>5, <1>8
  <2>2. d.lsu # "SW"
    BY <1>2, <1>3, <1>8 DEF RowOf, IsRow
  <2>3. CASE d.lsu = "Nop"
    BY <1>4, <1>6, <1>8, <2>1, <2>3 DEF ls_out
  <2>4. CASE d.lsu = "LW"
    <3>1. ls_out = mem[Slot(Addr(s))]
      BY <1>4, <1>6, <2>1, <2>4 DEF ls_out
    <3>2. mem = s.mem
      BY <1>3, <2>4, NoStoreStep DEF in
    <3>3. Value(s) = s.mem[Slot(Addr(s))]
      BY <1>3, <2>4, OpClasses DEF Value, NemuValue, in, CsrOps, ImmOps
    <3> QED
      BY <3>1, <3>2, <3>3
  <2> QED
    BY <1>2, <2>2, <2>3, <2>4, RowType
<1>9. /\ LsuOut.inst = CurWord(s) /\ LsuOut.excp = SeqExcp(s) /\ LsuOut.ls_out = ls_out
      /\ LsuOut.csr_data = lsu.csr_data /\ D(LsuOut) = d
  BY <1>1, <1>7 DEF LsuOut, D, In
<1>10. ~SeqExcp(s).valid => ~lsu.excp.valid
  BY <1>5
<1> QED
  BY <1>1, <1>4, <1>8, <1>9, <1>10 DEF WbuRight

\* WBU: registers and CSRs follow the sequential machine, and it redirects
\* exactly when, and where, the sequential machine leaves the path.
LEMMA WbuCommits ==
    ASSUME TypeOK, wbu.valid, NEW s \in RefState, wbu.pc = s.pc, WbuRight(wbu, s),
           regs = s.regs, csrs = s.csrs, Clean(RefStep(s)), RegFileEdge, CSRFileEdge
    PROVE  /\ regs' = RefStep(s).regs /\ csrs' = RefStep(s).csrs
           /\ wbu_flush <=> Redirects(s)
           /\ wbu_flush => wbu_target = RefStep(s).pc
<1> DEFINE in == Cur(s)
           d == CurRow(s)
<1>1. /\ In(wbu) = in /\ D(wbu) = d /\ wbu.inst = CurWord(s) /\ wbu.excp = SeqExcp(s)
      /\ ~SeqExcp(s).valid => (d.we => wbu.ls_out = Value(s)) /\ (d.exec = "CSR" => wbu.csr_data = CsrValue(s))
  BY SameInst DEF WbuRight
<1>2. in.op \in Op /\ RowOf(in.op, d)
  BY RefFields
<1>3. /\ d.exec = "CSR" <=> in.op \in CsrOps
      /\ d.exec = "MRet" <=> in.op = "MRET"
      /\ d.exec = "FenceI" <=> in.op = "FENCE_I"
      /\ d.we <=> in.op \in ImmOps \cup RegOps \cup CsrOps \cup {"LUI", "AUIPC", "JAL", "JALR", "LW", "Illegal"}
  BY <1>2, RowMeaning
<1>4. ~SeqExcp(s).valid => in.op # "Illegal"
  <2>1. in.op = "Illegal" => StageExcp(s.pc, CurWord(s)).valid
    BY ExcpStages DEF Cur
  <2> QED
    BY <2>1, SeqExcpStages
<1>5. SeqExcp(s).valid => in.op \notin {"MRET", "FENCE_I"}
  <2>1. CASE FetchExcp(s.pc).valid
    BY <2>1, CleanStep
  <2>2. CASE ~FetchExcp(s.pc).valid
    <3>1. in.op \in {"MRET", "FENCE_I"} => ~StageExcp(s.pc, CurWord(s)).valid
      BY <2>2, ExcpStages DEF Cur
    <3>2. ~NoExcp.valid
      BY ExcpTypes
    <3> QED
      BY <3>1, <3>2, SeqExcpStages
  <2> QED
    BY <2>1, <2>2
<1> HIDE DEF in, d
<1>6. wbu_flush <=> Redirects(s)
  BY <1>1, <1>3 DEF wbu_flush, Redirects, in
<1>7. CASE SeqExcp(s).valid
  <2>1. regs' = regs
    BY <1>1, <1>7 DEF RegFileEdge
  <2>2. csrs' = [csrs EXCEPT !["mepc"] = wbu.pc, !["mcause"] = wbu.excp.cause, !["mtval"] = wbu.excp.tval]
    BY <1>1, <1>7 DEF CSRFileEdge
  <2>3. wbu_target = csrs["mtvec"]
    BY <1>1, <1>3, <1>5, <1>7 DEF wbu_target
  <2> QED
    BY <1>1, <1>6, <1>7, <2>1, <2>2, <2>3, StepTrap
<1>8. CASE ~SeqExcp(s).valid
  <2>1. d.we /\ in.rd # 0 <=> WritesRd(in)
    BY <1>3, <1>4, <1>8, OpClasses DEF WritesRd
  <2>2. regs' = RefStep(s).regs
    <3>1. RefStep(s).regs = IF WritesRd(in) THEN [s.regs EXCEPT ![in.rd] = Value(s)] ELSE s.regs
      BY <1>8, StepPlain DEF in
    <3>2. regs' = IF WritesRd(in) THEN [regs EXCEPT ![in.rd] = wbu.ls_out] ELSE regs
      BY <1>1, <1>8, <2>1 DEF RegFileEdge
    <3>3. WritesRd(in) => wbu.ls_out = Value(s)
      BY <1>1, <1>8, <2>1
    <3> QED
      BY <3>1, <3>2, <3>3
  <2>3. csrs' = RefStep(s).csrs
    <3>1. RefStep(s).csrs = IF in.op \in CsrOps THEN [s.csrs EXCEPT ![in.csr] = CsrValue(s)] ELSE s.csrs
      BY <1>8, StepPlain DEF in
    <3>2. csrs' = IF in.op \in CsrOps THEN [csrs EXCEPT ![in.csr] = wbu.csr_data] ELSE csrs
      BY <1>1, <1>3, <1>8 DEF CSRFileEdge
    <3> QED
      BY <1>1, <1>3, <1>8, <3>1, <3>2
  <2>4. ASSUME wbu_flush PROVE wbu_target = RefStep(s).pc
    <3>1. in.op \in {"MRET", "FENCE_I"}
      BY <1>6, <1>8, <2>4 DEF Redirects, in
    <3>2. RefStep(s).pc = IF in.op = "MRET" THEN s.csrs["mepc"] ELSE Plus(s.pc, Four)
      <4>1. Dnpc(s) = IF in.op = "MRET" THEN s.csrs["mepc"] ELSE Plus(s.pc, Four)
        BY <3>1, OpClasses DEF Dnpc, NemuDnpc, in, BranchOps
      <4> QED
        BY <1>8, <4>1, StepPlain
    <3> QED
      BY <1>1, <1>3, <3>1, <3>2 DEF wbu_target
  <2> QED
    BY <1>6, <2>2, <2>3, <2>4
<1> QED
  BY <1>7, <1>8

\* One register over one step.
LEMMA StepReg ==
    ASSUME NEW s \in RefState, ~SeqExcp(s).valid, NEW k \in Regs
    PROVE  RefStep(s).regs[k] = IF CurRow(s).we /\ Cur(s).rd = k /\ k # 0 THEN Value(s) ELSE s.regs[k]
<1> DEFINE in == Cur(s)
           d == CurRow(s)
<1>1. in.op \in Op /\ RowOf(in.op, d) /\ in.rd \in Regs /\ s.regs \in [Regs -> Word]
  BY RefFields
<1>2. in.op # "Illegal"
  <2>1. in.op = "Illegal" => StageExcp(s.pc, CurWord(s)).valid
    BY ExcpStages DEF Cur
  <2> QED
    BY <2>1, SeqExcpStages
<1>3. d.we <=> in.op \in ImmOps \cup RegOps \cup CsrOps \cup {"LUI", "AUIPC", "JAL", "JALR", "LW", "Illegal"}
  BY <1>1, RowMeaning
<1> HIDE DEF in, d
<1>4. WritesRd(in) <=> d.we /\ in.rd # 0
  BY <1>2, <1>3, OpClasses DEF WritesRd
<1>5. RefStep(s).regs = IF WritesRd(in) THEN [s.regs EXCEPT ![in.rd] = Value(s)] ELSE s.regs
  BY StepPlain DEF in
<1> QED
  BY <1>1, <1>4, <1>5 DEF in, d

\* IDU: the forwarded value of a register the decoder does not stall on is the
\* one the sequential machine has after all instructions ahead of it.
LEMMA ForwardRight ==
    ASSUME NEW s0 \in RefState, NEW s1 \in RefState, NEW s2 \in RefState, NEW rs \in Regs,
           regs = s0.regs,
           wbu.valid => s1 = RefStep(s0) /\ ~SeqExcp(s0).valid /\ WbuRight(wbu, s0),
           ~wbu.valid => s1 = s0,
           lsu.valid => /\ s2 = RefStep(s1) /\ ~SeqExcp(s1).valid /\ lsu.inst = CurWord(s1)
                        /\ D(lsu).we => ls_out = Value(s1),
           ~lsu.valid => s2 = s1,
           exu.valid => /\ ~SeqExcp(s2).valid /\ exu.inst = CurWord(s2)
                        /\ D(exu).we /\ D(exu).lsu = "Nop" => ex_out = Value(s2),
           rs # 0 => ~\E h \in Hazards : h.valid /\ h.rd = rs /\ ~h.data_valid
    PROVE  forward_reg(rs) = IF exu.valid THEN RefStep(s2).regs[rs] ELSE s2.regs[rs]
<1> DEFINE want == IF exu.valid THEN RefStep(s2).regs[rs] ELSE s2.regs[rs]
           Match(h) == rs # 0 /\ h.valid /\ h.rd = rs /\ h.data_valid
<1>1. forward_reg(rs) = IF Match(exu_hazard) THEN exu_hazard.data
                        ELSE IF Match(lsu_hazard) THEN lsu_hazard.data
                        ELSE IF Match(wbu_hazard) THEN wbu_hazard.data
                        ELSE regs[rs]
  BY DEF forward_reg
<1>2. rs # 0 => /\ exu_hazard.valid /\ exu_hazard.rd = rs => exu_hazard.data_valid
                /\ lsu_hazard.valid /\ lsu_hazard.rd = rs => lsu_hazard.data_valid
  BY DEF Hazards
<1>3. /\ Match(exu_hazard) => want = exu_hazard.data
      /\ ~Match(exu_hazard) => want = s2.regs[rs]
  <2>1. CASE ~exu.valid
    BY <2>1 DEF exu_hazard, NoHazard
  <2>2. CASE exu.valid
    <3>1. In(exu) = Cur(s2) /\ D(exu) = CurRow(s2)
      BY <2>2, SameInst
    <3>2. want = IF D(exu).we /\ In(exu).rd = rs /\ rs # 0 THEN Value(s2) ELSE s2.regs[rs]
      BY <2>2, <3>1, StepReg
    <3>3. D(exu).exec \in {"ALU", "CSR"} /\ D(exu).we => D(exu).lsu = "Nop"
      <4>1. Cur(s2).op \in Op /\ RowOf(Cur(s2).op, CurRow(s2))
        BY RefFields
      <4> QED
        BY <3>1, <4>1, RowMeaning
    <3> HIDE DEF want
    <3>4. CASE ~D(exu).we
      BY <3>2, <3>4 DEF exu_hazard, NoHazard
    <3>5. CASE D(exu).we
      <4>1. /\ exu_hazard.valid /\ exu_hazard.rd = In(exu).rd /\ exu_hazard.data = ex_out
            /\ exu_hazard.data_valid <=> D(exu).exec \in {"ALU", "CSR"}
        BY <2>2, <3>5 DEF exu_hazard
      <4> QED
        BY <1>2, <2>2, <3>2, <3>3, <3>5, <4>1
    <3> QED
      BY <3>4, <3>5
  <2> QED
    BY <2>1, <2>2
<1>4. /\ Match(lsu_hazard) => s2.regs[rs] = lsu_hazard.data
      /\ ~Match(lsu_hazard) => s2.regs[rs] = s1.regs[rs]
  <2>1. CASE ~lsu.valid
    BY <2>1 DEF lsu_hazard, NoHazard
  <2>2. CASE lsu.valid
    <3>1. In(lsu) = Cur(s1) /\ D(lsu) = CurRow(s1)
      BY <2>2, SameInst
    <3>2. s2.regs[rs] = IF D(lsu).we /\ In(lsu).rd = rs /\ rs # 0 THEN Value(s1) ELSE s1.regs[rs]
      BY <2>2, <3>1, StepReg
    <3>3. CASE ~D(lsu).we
      BY <3>2, <3>3 DEF lsu_hazard, NoHazard
    <3>4. CASE D(lsu).we
      <4>1. lsu_hazard.valid /\ lsu_hazard.rd = In(lsu).rd /\ lsu_hazard.data = ls_out
        BY <2>2, <3>4 DEF lsu_hazard
      <4> QED
        BY <1>2, <2>2, <3>2, <3>4, <4>1
    <3> QED
      BY <3>3, <3>4
  <2> QED
    BY <2>1, <2>2
<1>5. /\ Match(wbu_hazard) => s1.regs[rs] = wbu_hazard.data
      /\ ~Match(wbu_hazard) => s1.regs[rs] = s0.regs[rs]
  <2>1. CASE ~wbu.valid
    BY <2>1 DEF wbu_hazard, NoHazard
  <2>2. CASE wbu.valid
    <3>1. In(wbu) = Cur(s0) /\ D(wbu) = CurRow(s0) /\ ~wbu.excp.valid /\ (D(wbu).we => wbu.ls_out = Value(s0))
      BY <2>2, SameInst DEF WbuRight
    <3>2. s1.regs[rs] = IF D(wbu).we /\ In(wbu).rd = rs /\ rs # 0 THEN Value(s0) ELSE s0.regs[rs]
      BY <2>2, <3>1, StepReg
    <3>3. CASE ~D(wbu).we
      BY <3>2, <3>3 DEF wbu_hazard, NoHazard
    <3>4. CASE D(wbu).we
      <4>1. wbu_hazard.valid /\ wbu_hazard.rd = In(wbu).rd /\ wbu_hazard.data = wbu.ls_out /\ wbu_hazard.data_valid
        BY <2>2, <3>1, <3>4 DEF wbu_hazard
      <4> QED
        BY <3>1, <3>2, <3>4, <4>1
    <3> QED
      BY <3>3, <3>4
  <2> QED
    BY <2>1, <2>2
<1> HIDE DEF want, Match
<1>6. forward_reg(rs) = want
  BY <1>1, <1>3, <1>4, <1>5
<1> QED
  BY <1>6 DEF want

\* The first instruction behind EXU.
Front == IF idu.valid THEN idu.pc ELSE FirstOf(queue, FetchPc)

\* IFU: when an instruction leaves EXU, either what follows it is what the
\* sequential machine executes next, or EXU redirects to that.
LEMMA FrontRight ==
    ASSUME TypeOK, FetchPath, exu.valid, lsu_ready, NEW s \in RefState, exu.pc = s.pc, exu.inst = CurWord(s),
           ~Redirects(s), br_op # "Nop" => correct_target = Dnpc(s),
           CurRow(s).br = "Nop" => ~exu.predict.taken
    PROVE  /\ exu_flush => correct_target = RefStep(s).pc
           /\ ~exu_flush => Front = RefStep(s).pc
<1> DEFINE in == Cur(s)
           d == CurRow(s)
<1>1. D(exu) = d /\ br_op = d.br
  BY SameInst DEF br_op
<1>2. RefStep(s).pc = Dnpc(s)
  BY StepPlain DEF Redirects
<1>3. NextFetch(exu.pc, exu.predict) = Front
  BY DEF FetchPath, Front
<1>4. exu_flush => br_op # "Nop"
  BY DEF exu_flush, valid_br
<1>5. CASE br_op = "Nop"
  <2>1. in.op \in Op /\ RowOf(in.op, d) /\ in.op # "MRET"
    BY RefFields DEF Redirects
  <2>2. in.op \notin BranchOps \cup {"JAL", "JALR", "MRET"}
    BY <1>1, <1>5, <2>1 DEF RowOf, IsRow, BranchOps
  <2>3. Dnpc(s) = Plus(s.pc, Four)
    BY <2>2, OpClasses DEF Dnpc, NemuDnpc
  <2>4. NextFetch(exu.pc, exu.predict) = Plus(s.pc, Four)
    BY <1>1, <1>5 DEF NextFetch
  <2> QED
    BY <1>2, <1>3, <1>4, <1>5, <2>3, <2>4
<1>6. CASE br_op # "Nop"
  <2>1. ASSUME ~exu_flush PROVE NextFetch(exu.pc, exu.predict) = correct_target
    <3>1. ~predict_mismatch
      BY <1>6, <2>1 DEF exu_flush, valid_br, exu_fire
    <3>2. exu.predict.taken \in BOOLEAN
      BY Registers DEF Prediction
    <3>3. br_taken \in BOOLEAN
      BY DEF br_taken
    <3>4. exu.predict.taken = br_taken /\ (exu.predict.taken => exu.predict.target = br_target)
      BY <3>1 DEF predict_mismatch
    <3> QED
      BY <3>2, <3>3, <3>4 DEF NextFetch, correct_target
  <2> QED
    BY <1>2, <1>3, <1>6, <2>1
<1> QED
  BY <1>5, <1>6

-----------------------------------------------------------------------------
(***************************************************************************)
(* The inductive invariant.  AfterWbu, AfterLsu and AfterExu are the       *)
(* states of the sequential machine once it has executed the instructions  *)
(* in WBU, in LSU too, in EXU too.  An instruction is on the path when no  *)
(* older one is going to redirect; what a stage holds is constrained only  *)
(* then, and only while the program stays inside the contract.             *)
(***************************************************************************)
AfterWbu == IF wbu.valid THEN RefStep(ref) ELSE ref
AfterLsu == IF lsu.valid THEN RefStep(AfterWbu) ELSE AfterWbu
AfterExu == IF exu.valid THEN RefStep(AfterLsu) ELSE AfterLsu

LsuOnPath == Clean(AfterWbu) /\ (wbu.valid => ~Redirects(ref))
ExuOnPath == LsuOnPath /\ Clean(AfterLsu) /\ (lsu.valid => ~Redirects(AfterWbu))

\* The state whose memory the bus has: the LSU's instruction counts once its
\* access has been made.
Issued == lsu_state \in {"s_w_wait_mem", "s_wait_ready"}
MemState == IF Issued THEN AfterLsu ELSE AfterWbu

FilesInv == Clean(ref) => regs = ref.regs /\ csrs = ref.csrs
WbuInv == wbu.valid /\ Clean(ref) =>
             wbu.pc = ref.pc /\ (Clean(AfterWbu) => WbuRight(wbu, ref))
LsuRegInv == lsu.valid /\ LsuOnPath =>
             lsu.pc = AfterWbu.pc /\ (Clean(AfterLsu) => LsuRight(lsu, AfterWbu))
ExuInv == exu.valid /\ ExuOnPath =>
             exu.pc = AfterLsu.pc /\ (Clean(AfterExu) => ExuRight(exu, AfterLsu))
FrontInv == ~exu.valid /\ ExuOnPath => Front = AfterLsu.pc

\* The LSU's state machine serves the operation of its instruction.
BusInv ==
    /\ lsu_state \in {"s_r_addr", "s_r_wait_mem"} => req_op = "LW" /\ ~access_fault
    /\ lsu_state \in {"s_w_addr", "s_w_data", "s_w_wait_mem"} => req_op = "SW" /\ ~access_fault
    /\ lsu_state = "s_wait_ready" => /\ access_fault <=> req_op # "Nop" /\ LsuFault
                                     /\ req_op = "LW" => read_reg = mem[Slot(lsu.addr)]

MemInv == Clean(MemState) => mem = MemState.mem

\* Until a fence.i gets to WBU, a slot that has not been stored to since the
\* last one can only be fetched as it is in memory.
NoFence == /\ wbu.valid => Cur(ref).op # "FENCE_I"
           /\ Issued => Cur(AfterWbu).op # "FENCE_I"
CodeInv == Clean(MemState) /\ NoFence =>
              \A t \in Slots : t \notin MemState.dirty => code[t] \subseteq {MemState.mem[t]}

\* Only a slot that holds, or held, a branch is predicted taken.
BranchOK(r, s) == IsBranch(r.inst) \/ r.predict.taken => Branchy(s, Slot(r.pc))
BtbInv == Clean(MemState) =>
    /\ \A t \in Slots : btb[t].valid => Branchy(MemState, t)
    /\ \A t \in Slots : \A w \in code[t] : IsBranch(w) => Branchy(MemState, t)
    /\ \A i \in 1 .. Len(queue) : BranchOK(queue[i], MemState)
    /\ idu.valid => BranchOK(idu, MemState)
    /\ exu.valid => BranchOK(exu, MemState)
    /\ fetch.st = "busy" /\ fetch.predict.taken => Branchy(MemState, Slot(fetch.addr))

Fetched(r) == r.inst \in code[Slot(r.pc)] /\ r.excp = FetchExcp(r.pc)
FetchedInv == /\ \A i \in 1 .. Len(queue) : Fetched(queue[i])
              /\ idu.valid => Fetched(idu)
ExcpInv == /\ exu.valid => exu.excp = DecodeExcp(exu.pc, exu.inst)
           /\ lsu.valid => lsu.excp = StageExcp(lsu.pc, lsu.inst)

Base == TypeOK /\ LsuInv /\ PathInv /\ ref \in RefState
PipeInv == /\ Base /\ FilesInv /\ WbuInv /\ LsuRegInv /\ ExuInv /\ FrontInv /\ BusInv
           /\ MemInv /\ CodeInv /\ BtbInv /\ FetchedInv /\ ExcpInv /\ PreciseMemory

\* The states the stages run ahead to are states of the reference, and clean only
\* if the earlier ones are.
LEMMA StatesTyped ==
    ASSUME ref \in RefState
    PROVE  /\ AfterWbu \in RefState /\ AfterLsu \in RefState /\ AfterExu \in RefState /\ MemState \in RefState
           /\ Clean(AfterWbu) => Clean(ref)
           /\ Clean(AfterLsu) => Clean(AfterWbu)
           /\ Clean(AfterExu) => Clean(AfterLsu)
<1>1. AfterWbu \in RefState /\ (Clean(AfterWbu) => Clean(ref))
  BY StepType, CleanStep DEF AfterWbu
<1>2. AfterLsu \in RefState /\ (Clean(AfterLsu) => Clean(AfterWbu))
  BY <1>1, StepType, CleanStep DEF AfterLsu
<1>3. AfterExu \in RefState /\ (Clean(AfterExu) => Clean(AfterLsu))
  BY <1>2, StepType, CleanStep DEF AfterExu
<1> QED
  BY <1>1, <1>2, <1>3 DEF MemState

(***************************************************************************)
(* An edge does one of three things to the registers behind EXU: it        *)
(* flushes them, it leaves them (the LSU is busy), or every instruction    *)
(* moves on.                                                               *)
(***************************************************************************)
Flush == /\ wbu_flush /\ wbu.valid /\ lsu_state = "s_idle"
         /\ exu' = Bubble /\ lsu' = Bubble
         /\ AfterWbu' = AfterWbu /\ AfterLsu' = AfterWbu /\ AfterExu' = AfterWbu
Stay == /\ ~wbu_flush /\ ~lsu_ready /\ lsu.valid
        /\ exu' = exu /\ lsu' = lsu
        /\ AfterWbu' = AfterWbu /\ AfterLsu' = AfterLsu /\ AfterExu' = AfterExu
Shift == /\ ~wbu_flush /\ lsu_ready
         /\ lsu.valid => ~wbu.valid /\ lsu_state = "s_wait_ready" /\ AfterWbu = ref
         /\ ~lsu.valid => lsu_state = "s_idle"
         /\ exu' = IF idu.valid /\ ~hazard_stall /\ ~exu_flush THEN IduOut ELSE Bubble
         /\ lsu' = IF exu.valid THEN ExuOut ELSE Bubble
         /\ AfterWbu' = AfterLsu /\ AfterLsu' = AfterExu
         /\ AfterExu' = IF exu'.valid THEN RefStep(AfterExu) ELSE AfterExu

\* An edge flushes, stays or shifts, and the reference follows what retires.
LEMMA Moves ==
    ASSUME LsuInv, PipelineEdge, DifftestStep
    PROVE  /\ ref' = AfterWbu
           /\ wbu' = IF Shift /\ lsu.valid THEN LsuOut ELSE Bubble
           /\ Flush \/ Stay \/ Shift
<1>0. ref' = AfterWbu
  BY DEF DifftestStep, AfterWbu
<1>1. /\ lsu_state # "s_idle" => lsu.valid
      /\ wbu.valid => lsu_state = "s_idle"
  BY DEF LsuInv, LsuOwnsRequest, FlushFindsLsuIdle
<1>2. /\ exu' = PipelineConnect(idu.valid /\ ~hazard_stall, IduOut, lsu_ready, exu, wbu_flush, exu_flush)
      /\ lsu' = PipelineConnect(exu.valid, ExuOut, lsu_ready, lsu, wbu_flush, FALSE)
      /\ wbu' = PipelineConnect(lsu_out_valid, LsuOut, TRUE, wbu, wbu_flush, FALSE)
  BY DEF PipelineEdge
<1>3. ~Bubble.valid /\ ExuOut.valid /\ LsuOut.valid
  BY DEF Bubble, ExuOut, LsuOut
<1>4. AfterWbu' = (IF wbu'.valid THEN RefStep(ref') ELSE ref')
  BY DEF AfterWbu
<1>5. AfterLsu' = (IF lsu'.valid THEN RefStep(AfterWbu') ELSE AfterWbu')
  BY DEF AfterLsu
<1>6. AfterExu' = (IF exu'.valid THEN RefStep(AfterLsu') ELSE AfterLsu')
  BY DEF AfterExu
<1>7. CASE wbu_flush
  <2>1. wbu.valid /\ lsu_state = "s_idle"
    BY <1>1, <1>7 DEF wbu_flush
  <2>2. exu' = Bubble /\ lsu' = Bubble /\ wbu' = Bubble
    BY <1>2, <1>7 DEF PipelineConnect
  <2>3. AfterWbu' = AfterWbu /\ AfterLsu' = AfterWbu /\ AfterExu' = AfterWbu
    BY <1>0, <1>3, <1>4, <1>5, <1>6, <2>2
  <2> QED
    BY <1>0, <1>7, <2>1, <2>2, <2>3 DEF Flush, Shift
<1>8. CASE ~wbu_flush /\ ~lsu_ready
  <2>1. lsu.valid /\ lsu_state # "s_wait_ready"
    BY <1>1, <1>8 DEF lsu_ready
  <2>2. exu' = exu /\ lsu' = lsu /\ wbu' = Bubble
    BY <1>2, <1>8, <2>1 DEF PipelineConnect, lsu_out_valid
  <2>3. AfterWbu' = AfterWbu
    BY <1>0, <1>3, <1>4, <2>2
  <2>4. AfterLsu' = AfterLsu
    BY <1>5, <2>2, <2>3 DEF AfterLsu
  <2>5. AfterExu' = AfterExu
    BY <1>6, <2>2, <2>4 DEF AfterExu
  <2> QED
    BY <1>0, <1>8, <2>1, <2>2, <2>3, <2>4, <2>5 DEF Stay, Shift
<1>9. CASE ~wbu_flush /\ lsu_ready
  <2>1. /\ lsu.valid => ~wbu.valid /\ lsu_state = "s_wait_ready"
        /\ ~lsu.valid => lsu_state = "s_idle"
    BY <1>1, <1>9 DEF lsu_ready
  <2>2. /\ exu' = IF idu.valid /\ ~hazard_stall /\ ~exu_flush THEN IduOut ELSE Bubble
        /\ lsu' = IF exu.valid THEN ExuOut ELSE Bubble
        /\ wbu' = IF lsu.valid THEN LsuOut ELSE Bubble
    BY <1>2, <1>9, <2>1 DEF PipelineConnect, lsu_out_valid
  <2>3. AfterWbu' = AfterLsu
    BY <1>0, <1>3, <1>4, <2>2 DEF AfterLsu
  <2>4. AfterLsu' = AfterExu
    BY <1>3, <1>5, <2>2, <2>3 DEF AfterExu
  <2>5. AfterExu' = IF exu'.valid THEN RefStep(AfterExu) ELSE AfterExu
    BY <1>6, <2>4
  <2>6. lsu.valid => AfterWbu = ref
    BY <2>1 DEF AfterWbu
  <2> QED
    BY <1>0, <1>9, <2>1, <2>2, <2>3, <2>4, <2>5, <2>6 DEF Shift
<1> QED
  BY <1>7, <1>8, <1>9

\* WBU commits what the sequential machine computes, so nothing behind it is
\* off the path unless it flushes.
LEMMA Commits ==
    ASSUME PipeInv, RegFileEdge, CSRFileEdge, Clean(AfterWbu)
    PROVE  /\ regs' = AfterWbu.regs /\ csrs' = AfterWbu.csrs
           /\ wbu.valid => WbuRight(wbu, ref)
           /\ wbu_flush => wbu_target = AfterWbu.pc
           /\ ~wbu_flush => LsuOnPath
<1>1. TypeOK /\ ref \in RefState /\ FilesInv /\ WbuInv
  BY DEF PipeInv, Base
<1>2. Clean(ref)
  BY <1>1, StatesTyped
<1>3. regs = ref.regs /\ csrs = ref.csrs
  BY <1>1, <1>2 DEF FilesInv
<1>4. CASE wbu.valid
  <2>1. wbu.pc = ref.pc /\ WbuRight(wbu, ref) /\ AfterWbu = RefStep(ref)
    BY <1>1, <1>2, <1>4 DEF WbuInv, AfterWbu
  <2>2. /\ regs' = RefStep(ref).regs /\ csrs' = RefStep(ref).csrs
        /\ wbu_flush <=> Redirects(ref)
        /\ wbu_flush => wbu_target = RefStep(ref).pc
    BY <1>1, <1>3, <1>4, <2>1, WbuCommits
  <2> QED
    BY <2>1, <2>2 DEF LsuOnPath
<1>5. CASE ~wbu.valid
  <2>1. regs' = regs /\ csrs' = csrs
    BY <1>5 DEF RegFileEdge, CSRFileEdge
  <2>2. AfterWbu = ref /\ ~wbu_flush
    BY <1>5 DEF AfterWbu, wbu_flush
  <2> QED
    BY <1>3, <1>5, <2>1, <2>2 DEF LsuOnPath
<1> QED
  BY <1>4, <1>5

\* Both register files stay those of a reference without waivers.
LEMMA FilesStep ==
    ASSUME PipeInv, NEW fetched \in BOOLEAN, NEW answered \in BOOLEAN, Edge(fetched, answered)
    PROVE  FilesInv'
<1>1. RegFileEdge /\ CSRFileEdge /\ PipelineEdge /\ DifftestStep /\ LsuInv
  BY DEF Edge, PipeInv, Base
<1>2. ref' = AfterWbu
  BY <1>1, Moves
<1> QED
  BY <1>1, <1>2, Commits DEF FilesInv, Clean

\* In a shift the memory is that of the state behind the LSU.
LEMMA ShiftMem ==
    ASSUME PipeInv, Shift
    PROVE  MemState = AfterLsu /\ (lsu.valid => Issued) /\ (Clean(AfterLsu) => mem = AfterLsu.mem)
<1>1. MemState = AfterLsu /\ (lsu.valid => Issued)
  BY DEF Shift, MemState, Issued, AfterLsu
<1> QED
  BY <1>1 DEF PipeInv, MemInv

\* The LSU hands on what the reference computes from the state behind WBU.
LEMMA LsuHandsOn ==
    ASSUME PipeInv, Shift, lsu.valid, LsuOnPath, Clean(AfterLsu)
    PROVE  /\ LsuRight(lsu, AfterWbu) /\ WbuRight(LsuOut, AfterWbu)
           /\ ~SeqExcp(AfterWbu).valid /\ D(lsu).we => ls_out = Value(AfterWbu)
<1>1. /\ TypeOK /\ AfterWbu \in RefState /\ lsu_state = "s_wait_ready" /\ AfterLsu = RefStep(AfterWbu)
  BY StatesTyped DEF PipeInv, Base, Shift, AfterLsu
<1>2. lsu.pc = AfterWbu.pc /\ LsuRight(lsu, AfterWbu)
  BY DEF PipeInv, LsuRegInv
<1>3. lsu.excp = StageExcp(lsu.pc, lsu.inst)
  BY DEF PipeInv, ExcpInv
<1>4. /\ access_fault <=> req_op # "Nop" /\ LsuFault
      /\ req_op = "LW" => read_reg = mem[Slot(lsu.addr)]
  BY <1>1 DEF PipeInv, BusInv
<1>5. mem = RefStep(AfterWbu).mem
  BY <1>1, ShiftMem
<1> QED
  BY <1>1, <1>2, <1>3, <1>4, <1>5, LsuPasses

\* What is about to retire is what the reference will do next.
LEMMA WbuStep ==
    ASSUME PipeInv, NEW fetched \in BOOLEAN, NEW answered \in BOOLEAN, Edge(fetched, answered)
    PROVE  WbuInv'
<1>1. RegFileEdge /\ CSRFileEdge /\ PipelineEdge /\ DifftestStep /\ LsuInv
  BY DEF Edge, PipeInv, Base
<1>2. ref' = AfterWbu /\ wbu' = IF Shift /\ lsu.valid THEN LsuOut ELSE Bubble
  BY <1>1, Moves
<1>3. CASE ~(Shift /\ lsu.valid)
  BY <1>2, <1>3 DEF WbuInv, Bubble
<1>4. CASE Shift /\ lsu.valid
  <2>1. wbu' = LsuOut /\ LsuOut.pc = lsu.pc /\ AfterWbu' = AfterLsu /\ ~wbu_flush
    BY <1>2, <1>4 DEF LsuOut, Shift
  <2>2. ASSUME Clean(AfterWbu) PROVE lsu.pc = AfterWbu.pc /\ LsuOnPath
    <3>1. LsuOnPath
      BY <1>1, <2>1, <2>2, Commits
    <3> QED
      BY <1>4, <3>1 DEF PipeInv, LsuRegInv
  <2>3. ASSUME Clean(AfterWbu), Clean(AfterLsu) PROVE WbuRight(LsuOut, AfterWbu)
    BY <1>4, <2>2, <2>3, LsuHandsOn
  <2>4. Clean(ref') <=> Clean(AfterWbu)
    BY <1>2
  <2>5. Clean(AfterWbu)' <=> Clean(AfterLsu)
    BY <2>1 DEF Clean
  <2>6. WbuRight(wbu, ref)' <=> WbuRight(LsuOut, AfterWbu)
    BY <1>2, <2>1 DEF WbuRight, CurWord, SeqExcp, D, In, Value, CsrValue, Cur, Src1, Src2, Addr
  <2> QED
    BY <1>2, <2>1, <2>2, <2>3, <2>4, <2>5, <2>6 DEF WbuInv, Clean
<1> QED
  BY <1>3, <1>4

\* EXU reads the CSR file while one older instruction may still be on its way
\* to it: inside the contract that one does not write the same CSR.
LEMMA CsrKept ==
    ASSUME NEW s \in RefState, ~SeqExcp(s).valid, NEW n, n = RefStep(s), Clean(RefStep(n)),
           Cur(n).op \in CsrOps, ~FetchExcp(n.pc).valid
    PROVE  n.csrs[Cur(n).csr] = s.csrs[Cur(n).csr]
<1>1. n \in RefState
  BY StepType
<1>2. n.last # Cur(n).csr
  BY <1>1, CleanStep
<1>3. n.last = IF Cur(s).op \in CsrOps THEN Cur(s).csr ELSE "none"
  BY StepBook
<1>4. n.csrs = IF Cur(s).op \in CsrOps THEN [s.csrs EXCEPT ![Cur(s).csr] = CsrValue(s)] ELSE s.csrs
  BY StepPlain
<1>5. s.csrs \in [CSRs -> Word] /\ Cur(n).csr \in CSRs
  BY <1>1, RefFields
<1> QED
  BY <1>2, <1>3, <1>4, <1>5

\* A CSR read on the path sees the value the reference reads.
LEMMA CsrsRead ==
    ASSUME PipeInv, Shift, ExuOnPath, exu.valid, Clean(AfterExu),
           Cur(AfterLsu).op \in CsrOps, ~FetchExcp(AfterLsu.pc).valid
    PROVE  csrs[Cur(AfterLsu).csr] = AfterLsu.csrs[Cur(AfterLsu).csr]
<1>1. ref \in RefState /\ AfterWbu \in RefState /\ Clean(ref)
  BY StatesTyped DEF PipeInv, Base, ExuOnPath, LsuOnPath
<1>2. csrs = ref.csrs
  BY <1>1 DEF PipeInv, FilesInv
<1>3. AfterExu = RefStep(AfterLsu)
  BY DEF AfterExu
<1>4. CASE lsu.valid
  <2>1. AfterWbu = ref /\ AfterLsu = RefStep(AfterWbu) /\ ~SeqExcp(AfterWbu).valid
    BY <1>4 DEF Shift, AfterLsu, ExuOnPath, Redirects
  <2> QED
    BY <1>1, <1>2, <1>3, <2>1, CsrKept
<1>5. CASE ~lsu.valid /\ wbu.valid
  <2>1. AfterLsu = RefStep(ref) /\ ~SeqExcp(ref).valid
    BY <1>5 DEF AfterLsu, AfterWbu, ExuOnPath, LsuOnPath, Redirects
  <2> QED
    BY <1>1, <1>2, <1>3, <2>1, CsrKept
<1>6. CASE ~lsu.valid /\ ~wbu.valid
  BY <1>2, <1>6 DEF AfterLsu, AfterWbu
<1> QED
  BY <1>4, <1>5, <1>6

\* The execute stage hands on what the reference computes from the state behind LSU.
LEMMA ExuHandsOn ==
    ASSUME PipeInv, Shift, exu.valid, ExuOnPath, Clean(AfterExu)
    PROVE  /\ exu.pc = AfterLsu.pc /\ ExuRight(exu, AfterLsu) /\ LsuRight(ExuOut, AfterLsu)
           /\ ~Redirects(AfterLsu) => /\ D(exu).we /\ D(exu).lsu = "Nop" => ex_out = Value(AfterLsu)
                                      /\ br_op # "Nop" => correct_target = Dnpc(AfterLsu)
<1>1. TypeOK /\ AfterLsu \in RefState
  BY StatesTyped DEF PipeInv, Base
<1>2. exu.pc = AfterLsu.pc /\ ExuRight(exu, AfterLsu)
  BY DEF PipeInv, ExuInv
<1>3. exu.excp = DecodeExcp(exu.pc, exu.inst)
  BY DEF PipeInv, ExcpInv
<1>4. Cur(AfterLsu).op \in CsrOps /\ ~FetchExcp(AfterLsu.pc).valid =>
         csrs[Cur(AfterLsu).csr] = AfterLsu.csrs[Cur(AfterLsu).csr]
  BY CsrsRead
<1>5. /\ ExuOut.excp = StageExcp(exu.pc, exu.inst)
      /\ LsuRight(ExuOut, AfterLsu)
      /\ ~ExuOut.excp.valid /\ D(exu).we /\ D(exu).lsu = "Nop" => ex_out = Value(AfterLsu)
      /\ ~ExuOut.excp.valid /\ br_op # "Nop" => correct_target = Dnpc(AfterLsu)
  BY <1>1, <1>2, <1>3, <1>4, ExuComputes
<1>6. ~Redirects(AfterLsu) => ~ExuOut.excp.valid
  <2>1. exu.inst = CurWord(AfterLsu)
    BY <1>2 DEF ExuRight
  <2> QED
    BY <1>1, <1>2, <1>5, <2>1, SeqExcpStages DEF Redirects
<1> QED
  BY <1>2, <1>5, <1>6

\* Seen from the front of the pipeline: when the next state has the LSU's, or
\* EXU's, instruction on the path, so has this one.
LEMMA PathMoves ==
    ASSUME PipeInv, NEW fetched \in BOOLEAN, NEW answered \in BOOLEAN, Edge(fetched, answered)
    PROVE  /\ Stay /\ LsuOnPath' => LsuOnPath
           /\ Stay /\ ExuOnPath' => ExuOnPath
           /\ Shift /\ LsuOnPath' => ExuOnPath
           /\ Shift /\ ExuOnPath' => ExuOnPath /\ Clean(AfterExu) /\ (exu.valid => ~Redirects(AfterLsu))
<1>1. RegFileEdge /\ CSRFileEdge /\ PipelineEdge /\ DifftestStep /\ LsuInv /\ ref \in RefState
  BY DEF Edge, PipeInv, Base
<1>2. ref' = AfterWbu /\ wbu' = IF Shift /\ lsu.valid THEN LsuOut ELSE Bubble
  BY <1>1, Moves
<1>3. ~wbu_flush /\ Clean(AfterWbu) => LsuOnPath
  BY <1>1, Commits
<1>4. LsuOnPath' <=> Clean(AfterWbu') /\ (wbu'.valid => ~Redirects(ref'))
  BY DEF LsuOnPath, Clean, Redirects, SeqExcp, Cur, CurWord
<1>5. ExuOnPath' <=> LsuOnPath' /\ Clean(AfterLsu') /\ (lsu'.valid => ~Redirects(AfterWbu'))
  BY DEF ExuOnPath, Clean, Redirects, SeqExcp, Cur, CurWord
<1>6. Clean(AfterLsu) => Clean(AfterWbu)
  BY <1>1, StatesTyped
<1>7. ExuOut.valid /\ LsuOut.valid
  BY DEF ExuOut, LsuOut
<1>8. CASE Stay
  <2>1. AfterWbu' = AfterWbu /\ AfterLsu' = AfterLsu /\ lsu' = lsu /\ ~wbu_flush
    BY <1>8 DEF Stay
  <2>2. LsuOnPath' => LsuOnPath
    BY <1>3, <1>4, <2>1
  <2>3. ExuOnPath' => ExuOnPath
    BY <1>5, <2>1, <2>2 DEF ExuOnPath
  <2>4. ~Shift
    BY <1>8 DEF Stay, Shift
  <2> QED
    BY <2>2, <2>3, <2>4
<1>9. CASE Shift
  <2>1. /\ AfterWbu' = AfterLsu /\ AfterLsu' = AfterExu /\ ~wbu_flush
        /\ lsu' = IF exu.valid THEN ExuOut ELSE Bubble
    BY <1>9 DEF Shift
  <2>2. LsuOnPath' => ExuOnPath
    BY <1>2, <1>3, <1>4, <1>6, <1>7, <1>9, <2>1 DEF ExuOnPath
  <2>3. ExuOnPath' => Clean(AfterExu) /\ (exu.valid => ~Redirects(AfterLsu))
    BY <1>5, <1>7, <2>1
  <2>4. ExuOnPath' => LsuOnPath'
    BY <1>5
  <2>5. ~Stay
    BY <1>9 DEF Stay, Shift
  <2> QED
    BY <2>2, <2>3, <2>4, <2>5
<1> QED
  BY <1>8, <1>9

\* What enters the LSU is what the reference will do.
LEMMA LsuRegStep ==
    ASSUME PipeInv, NEW fetched \in BOOLEAN, NEW answered \in BOOLEAN, Edge(fetched, answered)
    PROVE  LsuRegInv'
<1>1. PipelineEdge /\ DifftestStep /\ LsuInv
  BY DEF Edge, PipeInv, Base
<1>2. Flush \/ Stay \/ Shift
  BY <1>1, Moves
<1>3. LsuRegInv' <=> (lsu'.valid /\ LsuOnPath' =>
         lsu'.pc = AfterWbu'.pc /\ (Clean(AfterLsu') => LsuRight(lsu', AfterWbu')))
  BY DEF LsuRegInv, Clean, LsuRight, D, In, CurWord, Value, Addr, CsrValue, Cur, Src1, Src2
<1>4. CASE Flush
  BY <1>3, <1>4 DEF Flush, Bubble
<1>5. CASE Stay
  <2>1. AfterWbu' = AfterWbu /\ AfterLsu' = AfterLsu /\ lsu' = lsu
    BY <1>5 DEF Stay
  <2>2. LsuOnPath' => LsuOnPath
    BY <1>5, PathMoves
  <2> QED
    BY <1>3, <2>1, <2>2 DEF PipeInv, LsuRegInv
<1>6. CASE Shift
  <2>1. /\ AfterWbu' = AfterLsu /\ AfterLsu' = AfterExu
        /\ lsu' = IF exu.valid THEN ExuOut ELSE Bubble
    BY <1>6 DEF Shift
  <2>2. LsuOnPath' => ExuOnPath
    BY <1>6, PathMoves
  <2>3. ~Bubble.valid /\ ExuOut.pc = exu.pc
    BY DEF Bubble, ExuOut
  <2>4. exu.valid /\ ExuOnPath => exu.pc = AfterLsu.pc
    BY DEF PipeInv, ExuInv
  <2>5. exu.valid /\ ExuOnPath /\ Clean(AfterExu) => LsuRight(ExuOut, AfterLsu)
    BY <1>6, ExuHandsOn
  <2> QED
    BY <1>3, <2>1, <2>2, <2>3, <2>4, <2>5
<1> QED
  BY <1>2, <1>4, <1>5, <1>6

\* What the front of the pipeline is about to hand to EXU, or what EXU
\* redirects to, is what the sequential machine executes next.
LEMMA NextPc ==
    ASSUME PipeInv, Shift, ExuOnPath, Clean(AfterExu), exu.valid => ~Redirects(AfterLsu)
    PROVE  /\ exu_flush => correct_target = AfterExu.pc
           /\ ~exu_flush => Front = AfterExu.pc
<1>1. CASE exu.valid
  <2>1. /\ exu.pc = AfterLsu.pc /\ exu.inst = CurWord(AfterLsu)
        /\ br_op # "Nop" => correct_target = Dnpc(AfterLsu)
    BY <1>1, ExuHandsOn DEF ExuRight
  <2>2. TypeOK /\ FetchPath /\ AfterLsu \in RefState /\ lsu_ready /\ AfterExu = RefStep(AfterLsu)
    BY <1>1, StatesTyped DEF PipeInv, Base, PathInv, Shift, AfterExu
  <2>3. CurRow(AfterLsu).br = "Nop" => ~exu.predict.taken
    <3>1. MemState = AfterLsu /\ Clean(AfterLsu)
      BY ShiftMem DEF ExuOnPath
    <3>2. BranchOK(exu, AfterLsu)
      BY <1>1, <3>1 DEF PipeInv, BtbInv
    <3>3. Branchy(AfterLsu, Slot(AfterLsu.pc)) => CurRow(AfterLsu).br # "Nop"
      BY <2>2, CleanStep
    <3> QED
      BY <2>1, <3>2, <3>3 DEF BranchOK
  <2> QED
    BY <1>1, <2>1, <2>2, <2>3, FrontRight
<1>2. CASE ~exu.valid
  <2>1. ~exu_flush /\ AfterExu = AfterLsu
    BY <1>2 DEF exu_flush, valid_br, exu_fire, AfterExu
  <2> QED
    BY <1>2, <2>1 DEF PipeInv, FrontInv
<1> QED
  BY <1>1, <1>2

\* The word IDU decodes is the one in the sequential machine's memory.
LEMMA DecodedRight ==
    ASSUME PipeInv, Shift, ExuOnPath, Clean(AfterExu), exu.valid => ~Redirects(AfterLsu),
           idu.valid, idu.pc = AfterExu.pc, Clean(RefStep(AfterExu))
    PROVE  idu.inst = CurWord(AfterExu)
<1> DEFINE t == Slot(AfterExu.pc)
<1>1. AfterLsu \in RefState /\ AfterExu \in RefState /\ t \in Slots /\ t \notin AfterExu.dirty
  <2>1. AfterLsu \in RefState /\ AfterExu \in RefState
    BY StatesTyped DEF PipeInv, Base
  <2> QED
    BY <2>1, RefFields, CleanStep
<1>2. t \notin AfterLsu.dirty /\ AfterExu.mem[t] = AfterLsu.mem[t]
  <2>1. CASE exu.valid
    <3>1. AfterExu = RefStep(AfterLsu) /\ Cur(AfterLsu).op # "FENCE_I"
      BY <2>1 DEF AfterExu, Redirects
    <3>2. AfterExu.dirty = AfterLsu.dirty \cup Changed(AfterLsu)
      BY <1>1, <3>1, StepBook
    <3> QED
      BY <1>1, <3>1, <3>2 DEF Changed
  <2>2. CASE ~exu.valid
    BY <1>1, <2>2 DEF AfterExu
  <2> QED
    BY <2>1, <2>2
<1>3. MemState = AfterLsu /\ Clean(AfterLsu)
  BY ShiftMem DEF ExuOnPath
<1>4. NoFence
  <2>1. wbu.valid => Cur(ref).op # "FENCE_I"
    BY DEF ExuOnPath, LsuOnPath, Redirects
  <2>2. Issued => lsu.valid
    BY DEF Shift, Issued
  <2> QED
    BY <2>1, <2>2 DEF NoFence, ExuOnPath, Redirects
<1>5. code[t] \subseteq {AfterLsu.mem[t]}
  BY <1>1, <1>2, <1>3, <1>4 DEF PipeInv, CodeInv
<1>6. idu.inst \in code[t]
  BY DEF PipeInv, FetchedInv, Fetched
<1> QED
  BY <1>2, <1>5, <1>6 DEF CurWord

\* A forwarded or read operand that does not stall is the register of the reference
\* behind everything in flight.
LEMMA OperandsRight ==
    ASSUME PipeInv, RegFileEdge, CSRFileEdge, Shift, ExuOnPath, Clean(AfterExu), exu.valid => ~Redirects(AfterLsu),
           NEW rs \in Regs, ~need_stall(rs, TRUE)
    PROVE  forward_reg(rs) = AfterExu.regs[rs]
<1>1. ref \in RefState /\ AfterWbu \in RefState /\ AfterLsu \in RefState /\ Clean(ref) /\ Clean(AfterWbu)
  BY StatesTyped DEF PipeInv, Base, ExuOnPath
<1>2. regs = ref.regs
  BY <1>1 DEF PipeInv, FilesInv
<1>3. wbu.valid => AfterWbu = RefStep(ref) /\ ~SeqExcp(ref).valid /\ WbuRight(wbu, ref)
  <2>1. wbu.valid => WbuRight(wbu, ref)
    BY <1>1, Commits
  <2> QED
    BY <2>1 DEF AfterWbu, ExuOnPath, LsuOnPath, Redirects
<1>4. lsu.valid => /\ AfterLsu = RefStep(AfterWbu) /\ ~SeqExcp(AfterWbu).valid /\ lsu.inst = CurWord(AfterWbu)
                   /\ D(lsu).we => ls_out = Value(AfterWbu)
  <2>1. lsu.valid => AfterLsu = RefStep(AfterWbu) /\ ~SeqExcp(AfterWbu).valid
    BY DEF AfterLsu, ExuOnPath, Redirects
  <2>2. lsu.valid => LsuRight(lsu, AfterWbu) /\ (~SeqExcp(AfterWbu).valid /\ D(lsu).we => ls_out = Value(AfterWbu))
    BY LsuHandsOn DEF ExuOnPath
  <2> QED
    BY <2>1, <2>2 DEF LsuRight
<1>5. exu.valid => /\ ~SeqExcp(AfterLsu).valid /\ exu.inst = CurWord(AfterLsu)
                   /\ D(exu).we /\ D(exu).lsu = "Nop" => ex_out = Value(AfterLsu)
  <2>1. exu.valid => /\ ExuRight(exu, AfterLsu)
                     /\ D(exu).we /\ D(exu).lsu = "Nop" => ex_out = Value(AfterLsu)
    BY ExuHandsOn
  <2> QED
    BY <2>1 DEF ExuRight, Redirects
<1>6. rs # 0 => ~\E h \in Hazards : h.valid /\ h.rd = rs /\ ~h.data_valid
  BY DEF need_stall
<1>7. (~wbu.valid => AfterWbu = ref) /\ (~lsu.valid => AfterLsu = AfterWbu)
  BY DEF AfterWbu, AfterLsu
<1>8. forward_reg(rs) = IF exu.valid THEN RefStep(AfterLsu).regs[rs] ELSE AfterLsu.regs[rs]
  BY <1>1, <1>2, <1>3, <1>4, <1>5, <1>6, <1>7, ForwardRight
<1> QED
  BY <1>8 DEF AfterExu

\* What enters the execute stage is what the reference will do.
LEMMA ExuStep ==
    ASSUME PipeInv, NEW fetched \in BOOLEAN, NEW answered \in BOOLEAN, Edge(fetched, answered)
    PROVE  ExuInv'
<1>1. PipelineEdge /\ DifftestStep /\ LsuInv /\ RegFileEdge /\ CSRFileEdge
  BY DEF Edge, PipeInv, Base
<1>2. Flush \/ Stay \/ Shift
  BY <1>1, Moves
<1>3. ExuInv' <=> (exu'.valid /\ ExuOnPath' =>
         exu'.pc = AfterLsu'.pc /\ (Clean(AfterExu') => ExuRight(exu', AfterLsu')))
  BY DEF ExuInv, Clean, ExuRight, D, In, CurWord, Cur, Src1, Src2, ReadsRs1, ReadsRs2
<1>4. CASE Flush
  BY <1>3, <1>4 DEF Flush, Bubble
<1>5. CASE Stay
  <2>1. AfterLsu' = AfterLsu /\ AfterExu' = AfterExu /\ exu' = exu
    BY <1>5 DEF Stay
  <2>2. ExuOnPath' => ExuOnPath
    BY <1>5, PathMoves
  <2> QED
    BY <1>3, <2>1, <2>2 DEF PipeInv, ExuInv
<1>6. CASE Shift
  <2> SUFFICES ASSUME exu'.valid, ExuOnPath'
               PROVE  exu'.pc = AfterLsu'.pc /\ (Clean(AfterExu') => ExuRight(exu', AfterLsu'))
    BY <1>3
  <2>1. /\ exu' = IduOut /\ idu.valid /\ ~hazard_stall /\ ~exu_flush
        /\ AfterLsu' = AfterExu /\ AfterExu' = RefStep(AfterExu)
    BY <1>6 DEF Shift, Bubble
  <2>2. ExuOnPath /\ Clean(AfterExu) /\ (exu.valid => ~Redirects(AfterLsu))
    BY <1>6, PathMoves
  <2>3. idu.pc = AfterExu.pc
    BY <1>6, <2>1, <2>2, NextPc DEF Front
  <2>4. IduOut.pc = idu.pc /\ IduOut.inst = idu.inst
    BY DEF IduOut
  <2>5. ASSUME Clean(RefStep(AfterExu)) PROVE ExuRight(IduOut, AfterExu)
    <3>1. idu.inst = CurWord(AfterExu)
      BY <1>6, <2>1, <2>2, <2>3, <2>5, DecodedRight
    <3>2. /\ D(IduOut) = D(idu) /\ In(IduOut) = In(idu) /\ In(idu) = Cur(AfterExu)
          /\ IduOut.rs1_data = forward_reg(In(idu).rs1) /\ IduOut.rs2_data = forward_reg(In(idu).rs2)
      BY <3>1 DEF IduOut, D, In, Cur
    <3>3. In(idu).rs1 \in Regs /\ In(idu).rs2 \in Regs
      <4>1. AfterExu \in RefState
        BY StatesTyped DEF PipeInv, Base
      <4> QED
        BY <3>2, <4>1, RefFields
    <3>4. ReadsRs1(D(idu)) => ~need_stall(In(idu).rs1, TRUE)
      BY <2>1 DEF hazard_stall, need_stall, rs1_read, ReadsRs1
    <3>5. ReadsRs2(D(idu)) => ~need_stall(In(idu).rs2, TRUE)
      BY <2>1 DEF hazard_stall, need_stall, rs2_read, ReadsRs2
    <3>6. ReadsRs1(D(idu)) => forward_reg(In(idu).rs1) = AfterExu.regs[In(idu).rs1]
      BY <1>1, <1>6, <2>2, <3>3, <3>4, OperandsRight
    <3>7. ReadsRs2(D(idu)) => forward_reg(In(idu).rs2) = AfterExu.regs[In(idu).rs2]
      BY <1>1, <1>6, <2>2, <3>3, <3>5, OperandsRight
    <3> QED
      BY <2>4, <3>1, <3>2, <3>6, <3>7 DEF ExuRight, Src1, Src2
  <2> QED
    BY <2>1, <2>3, <2>4, <2>5
<1> QED
  BY <1>2, <1>4, <1>5, <1>6

\* The front of the pipeline changes only when its first instruction moves on.
LEMMA FrontStays ==
    ASSUME TypeOK, PathInv, ~redirect, NEW fetched \in BOOLEAN, IfuEdge(fetched), PipelineEdge,
           ~(lsu_ready /\ idu.valid /\ ~hazard_stall)
    PROVE  Front' = Front
<1>1. queue_rest \in Seq(IfuReg) /\ (queue # << >> => Head(queue) \in IfuReg)
  BY QueueTypes
<1>2. \A r \in IfuReg : r.valid
  BY DEF IfuReg
<1>3. queue_deq <=> queue # << >> /\ idu_ready
  BY DEF queue_deq
<1>4. Chain(queue_rest, FetchPc)
  <2>1. queue \in Seq(IfuReg) /\ Chain(queue, FetchPc)
    BY DEF TypeOK, PathInv, FetchPath
  <2>2. CASE queue_deq
    <3>1. queue # << >> /\ queue_rest = Tail(queue)
      BY <2>2 DEF queue_deq, queue_rest
    <3> QED
      BY <2>1, <3>1, ChainTail
  <2>3. CASE ~queue_deq
    BY <2>1, <2>3 DEF queue_rest
  <2> QED
    BY <2>2, <2>3
<1>5. FirstOf(queue', FetchPc') = FirstOf(queue_rest, FetchPc)
  BY <1>1, <1>2, <1>4, IfuKeepsPath DEF PathInv
<1>6. idu' = (IF ~idu_ready THEN idu ELSE IF queue # << >> THEN Head(queue) ELSE Bubble)
  BY DEF PipelineEdge, PipelineConnect, redirect
<1>7. Front' = IF idu'.valid THEN idu'.pc ELSE FirstOf(queue', FetchPc')
  BY DEF Front, FirstOf, FetchPc
<1>8. CASE ~idu_ready
  <2>1. idu' = idu /\ queue_rest = queue
    BY <1>3, <1>6, <1>8 DEF queue_rest
  <2> QED
    BY <1>5, <1>7, <2>1 DEF Front
<1>9. CASE idu_ready
  <2>1. ~idu.valid
    BY <1>9 DEF idu_ready
  <2>2. CASE queue # << >>
    <3>1. idu' = Head(queue) /\ Head(queue).valid
      BY <1>1, <1>2, <1>6, <1>9, <2>2
    <3> QED
      BY <1>7, <2>1, <2>2, <3>1 DEF Front, FirstOf
  <2>3. CASE queue = << >>
    <3>1. idu' = Bubble /\ queue_rest = queue
      BY <1>3, <1>6, <1>9, <2>3 DEF queue_rest
    <3> QED
      BY <1>5, <1>7, <2>1, <3>1 DEF Front, Bubble
  <2> QED
    BY <2>2, <2>3
<1> QED
  BY <1>8, <1>9

\* After a redirect the next instruction to arrive is at its target.
LEMMA FrontRedirected ==
    ASSUME redirect, NEW fetched \in BOOLEAN, IfuEdge(fetched), PipelineEdge
    PROVE  Front' = redirect_target
<1>1. queue' = << >> /\ fetch' \in {Idle, Killed} /\ pc' = redirect_target
  BY DEF IfuEdge
<1>2. idu' = Bubble
  BY DEF PipelineEdge, PipelineConnect, redirect
<1>3. FetchPc' = pc'
  BY <1>1 DEF FetchPc, Idle, Killed
<1> QED
  BY <1>1, <1>2, <1>3 DEF Front, FirstOf, Bubble

\* The next instruction to arrive is the one the reference needs, unless a redirect
\* is still to come.
LEMMA FrontStep ==
    ASSUME PipeInv, NEW fetched \in BOOLEAN, NEW answered \in BOOLEAN, Edge(fetched, answered)
    PROVE  FrontInv'
<1>1. /\ PipelineEdge /\ DifftestStep /\ LsuInv /\ RegFileEdge /\ CSRFileEdge /\ IfuEdge(fetched)
      /\ TypeOK /\ PathInv
  BY DEF Edge, PipeInv, Base
<1>2. Flush \/ Stay \/ Shift
  BY <1>1, Moves
<1> SUFFICES ASSUME ~exu'.valid, ExuOnPath' PROVE Front' = AfterLsu'.pc
  BY DEF FrontInv
<1>3. CASE Flush
  <2>1. Clean(AfterWbu')
    BY DEF ExuOnPath, LsuOnPath, Clean
  <2>2. AfterWbu' = AfterWbu /\ AfterLsu' = AfterWbu /\ wbu_flush
    BY <1>3 DEF Flush
  <2>3. redirect_target = AfterWbu.pc /\ redirect
    BY <1>1, <2>1, <2>2, Commits DEF redirect, redirect_target
  <2> QED
    BY <1>1, <2>2, <2>3, FrontRedirected
<1>4. CASE Stay
  <2>1. ~redirect /\ ~lsu_ready /\ exu' = exu /\ AfterLsu' = AfterLsu
    BY <1>4 DEF Stay, redirect, exu_flush, valid_br, exu_fire
  <2>2. ExuOnPath
    BY <1>4, PathMoves
  <2>3. Front' = Front
    BY <1>1, <2>1, FrontStays
  <2> QED
    BY <2>1, <2>2, <2>3 DEF PipeInv, FrontInv
<1>5. CASE Shift
  <2>1. AfterLsu' = AfterExu /\ ~wbu_flush
    BY <1>5 DEF Shift
  <2>2. ExuOnPath /\ Clean(AfterExu) /\ (exu.valid => ~Redirects(AfterLsu))
    BY <1>5, PathMoves
  <2>3. CASE exu_flush
    <3>1. redirect /\ redirect_target = AfterExu.pc
      BY <1>5, <2>1, <2>2, <2>3, NextPc DEF redirect, redirect_target
    <3> QED
      BY <1>1, <2>1, <3>1, FrontRedirected
  <2>4. CASE ~exu_flush
    <3>1. ~(idu.valid /\ ~hazard_stall)
      BY <1>5, <2>4 DEF Shift, IduOut
    <3>2. Front' = Front
      BY <1>1, <2>1, <2>4, <3>1, FrontStays DEF redirect
    <3> QED
      BY <1>5, <2>1, <2>2, <2>4, <3>2, NextPc
  <2> QED
    BY <2>3, <2>4
<1> QED
  BY <1>2, <1>3, <1>4, <1>5

\* A request on the bus is the one of the instruction in the LSU.
LEMMA BusStep ==
    ASSUME PipeInv, NEW fetched \in BOOLEAN, NEW answered \in BOOLEAN, Edge(fetched, answered)
    PROVE  BusInv'
<1>1. /\ PipelineEdge /\ DifftestStep /\ LsuInv /\ LsuEdge(answered) /\ TypeOK /\ BusInv
  BY DEF Edge, PipeInv, Base
<1>2. lsu_state \in LsuStates /\ (lsu_state # "s_idle" => lsu.valid /\ ~wbu_flush)
  BY <1>1 DEF TypeOK, LsuInv, LsuOwnsRequest, FlushFindsLsuIdle, wbu_flush
<1>3. Flush \/ Stay \/ Shift
  BY <1>1, Moves
<1>4. lsu.valid => req_op \in {"Nop", "LW", "SW"}
  BY <1>1, LsuTypes
<1>5. Stay => req_op' = req_op /\ LsuFault' = LsuFault /\ lsu' = lsu
  BY DEF Stay, req_op, LsuFault, D, In
<1>6. CASE lsu_state = "s_idle"
  <2>1. CASE LsuEnter
    <3>1. Stay
      BY <1>3, <1>6, <2>1 DEF LsuEnter, Flush, Shift, lsu_ready
    <3>2. lsu_state' = entry_state /\ ~access_fault'
      BY <1>1, <1>6, <2>1 DEF LsuEdge
    <3>3. lsu.valid
      BY <2>1 DEF LsuEnter
    <3> QED
      BY <1>4, <1>5, <3>1, <3>2, <3>3 DEF BusInv, entry_state
  <2>2. CASE ~LsuEnter
    <3>1. lsu_state' = "s_idle"
      BY <1>1, <1>6, <2>2 DEF LsuEdge
    <3> QED
      BY <3>1 DEF BusInv
  <2> QED
    BY <2>1, <2>2
<1>7. CASE lsu_state = "s_wait_ready"
  <2>1. lsu_state' = "s_idle"
    BY <1>1, <1>7 DEF LsuEdge
  <2> QED
    BY <2>1 DEF BusInv
<1>8. CASE lsu_state \in {"s_r_addr", "s_r_wait_mem"}
  <2>1. Stay
    BY <1>2, <1>3, <1>8 DEF Flush, Shift, lsu_ready
  <2>2. req_op = "LW" /\ ~access_fault
    BY <1>1, <1>8 DEF BusInv
  <2>3. \/ /\ lsu_state' \in {"s_r_addr", "s_r_wait_mem"}
           /\ access_fault' <=> access_fault
        \/ /\ lsu_state' = "s_wait_ready" /\ read_reg' = mem[Slot(lsu.addr)] /\ mem' = mem
           /\ access_fault' <=> (access_fault \/ LsuFault)
    BY <1>1, <1>8 DEF LsuEdge, NoStore
  <2> QED
    BY <1>5, <2>1, <2>2, <2>3 DEF BusInv
<1>9. CASE lsu_state \in {"s_w_addr", "s_w_data", "s_w_wait_mem"}
  <2>1. Stay
    BY <1>2, <1>3, <1>9 DEF Flush, Shift, lsu_ready
  <2>2. req_op = "SW" /\ ~access_fault
    BY <1>1, <1>9 DEF BusInv
  <2>3. \/ /\ lsu_state' \in {"s_w_addr", "s_w_data", "s_w_wait_mem"}
           /\ access_fault' <=> access_fault
        \/ /\ lsu_state' = "s_wait_ready"
           /\ access_fault' <=> (access_fault \/ LsuFault)
    BY <1>1, <1>9 DEF LsuEdge
  <2> QED
    BY <1>5, <2>1, <2>2, <2>3 DEF BusInv
<1> QED
  BY <1>2, <1>6, <1>7, <1>8, <1>9 DEF LsuStates

(***************************************************************************)
(* The memory follows the pipeline: it changes only when the LSU's         *)
(* instruction makes its access, and from then on it is the memory of the  *)
(* state behind that instruction.                                          *)
(***************************************************************************)
Keeps == MemState' = MemState /\ NoStore
Issues == /\ Stay /\ lsu.valid /\ ~Issued /\ Issued'
          /\ MemState = AfterWbu /\ MemState' = AfterLsu /\ AfterLsu = RefStep(AfterWbu)
          /\ (req_op = "SW" /\ Store) \/ (req_op # "SW" /\ NoStore)

\* An edge keeps memory, or the store in the LSU is performed.
LEMMA MemMoves ==
    ASSUME PipeInv, NEW fetched \in BOOLEAN, NEW answered \in BOOLEAN, Edge(fetched, answered)
    PROVE  /\ Keeps \/ Issues
           /\ lsu_state = "s_w_wait_mem" => Stay /\ Issued' /\ req_op = "SW"
           /\ lsu_state = "s_wait_ready" => Shift /\ lsu.valid
<1>1. PipelineEdge /\ DifftestStep /\ LsuInv /\ LsuEdge(answered) /\ TypeOK /\ BusInv
  BY DEF Edge, PipeInv, Base
<1>2. lsu_state \in LsuStates /\ (lsu_state # "s_idle" => lsu.valid /\ ~wbu_flush)
  BY <1>1 DEF TypeOK, LsuInv, LsuOwnsRequest, FlushFindsLsuIdle, wbu_flush
<1>3. Flush \/ Stay \/ Shift
  BY <1>1, Moves
<1>4. lsu.valid => req_op \in {"Nop", "LW", "SW"} /\ AfterLsu = RefStep(AfterWbu)
  BY <1>1, LsuTypes DEF AfterLsu
<1>5. MemState' = IF lsu_state' \in {"s_w_wait_mem", "s_wait_ready"} THEN AfterLsu' ELSE AfterWbu'
  BY DEF MemState, Issued
<1>6. Issued' <=> lsu_state' \in {"s_w_wait_mem", "s_wait_ready"}
  BY DEF Issued
<1>7. Stay => AfterWbu' = AfterWbu /\ AfterLsu' = AfterLsu
  BY DEF Stay
<1>8. CASE lsu_state = "s_idle"
  <2>0. NoStore /\ MemState = AfterWbu /\ ~Issued
    BY <1>1, <1>8 DEF LsuEdge, MemState, Issued
  <2>1. CASE LsuEnter
    <3>1. Stay /\ lsu.valid
      BY <1>3, <1>8, <2>1 DEF LsuEnter, Flush, Shift, lsu_ready
    <3>2. lsu_state' = entry_state
      BY <1>1, <1>8, <2>1 DEF LsuEdge
    <3>3. CASE req_op = "Nop"
      BY <1>4, <1>5, <1>6, <1>7, <1>8, <2>0, <3>1, <3>2, <3>3 DEF entry_state, Issues
    <3>4. CASE req_op # "Nop"
      BY <1>4, <1>5, <1>7, <1>8, <2>0, <3>1, <3>2, <3>4 DEF entry_state, Keeps
    <3> QED
      BY <3>3, <3>4
  <2>2. CASE ~LsuEnter
    <3>1. lsu_state' = "s_idle"
      BY <1>1, <1>8, <2>2 DEF LsuEdge
    <3>2. Flush => AfterWbu' = AfterWbu
      BY DEF Flush
    <3>3. Shift => AfterWbu' = AfterWbu
      BY <1>8 DEF Shift, AfterLsu
    <3> QED
      BY <1>3, <1>5, <1>7, <1>8, <2>0, <3>1, <3>2, <3>3 DEF Keeps
  <2> QED
    BY <2>1, <2>2
<1>9. CASE lsu_state = "s_wait_ready"
  <2>1. lsu_state' = "s_idle" /\ NoStore /\ MemState = AfterLsu
    BY <1>1, <1>9 DEF LsuEdge, MemState, Issued
  <2>2. Shift /\ lsu.valid
    BY <1>2, <1>3, <1>9 DEF Flush, Stay, lsu_ready
  <2>3. AfterWbu' = AfterLsu
    BY <2>2 DEF Shift
  <2> QED
    BY <1>5, <1>9, <2>1, <2>2, <2>3 DEF Keeps
<1>10. CASE lsu_state \in {"s_r_addr", "s_r_wait_mem"}
  <2>1. Stay /\ req_op = "LW" /\ lsu.valid
    BY <1>1, <1>2, <1>3, <1>10 DEF Flush, Shift, lsu_ready, BusInv
  <2>2. NoStore /\ lsu_state' \in {"s_r_addr", "s_r_wait_mem", "s_wait_ready"}
    BY <1>1, <1>10 DEF LsuEdge
  <2>3. MemState = AfterWbu /\ ~Issued
    BY <1>10 DEF MemState, Issued
  <2> QED
    BY <1>4, <1>5, <1>6, <1>7, <1>10, <2>1, <2>2, <2>3 DEF Keeps, Issues
<1>11. CASE lsu_state \in {"s_w_addr", "s_w_data"}
  <2>1. Stay /\ req_op = "SW" /\ lsu.valid
    BY <1>1, <1>2, <1>3, <1>11 DEF Flush, Shift, lsu_ready, BusInv
  <2>2. \/ NoStore /\ lsu_state' \in {"s_w_addr", "s_w_data"}
        \/ Store /\ lsu_state' = "s_w_wait_mem"
    BY <1>1, <1>11 DEF LsuEdge
  <2>3. MemState = AfterWbu /\ ~Issued
    BY <1>11 DEF MemState, Issued
  <2> QED
    BY <1>4, <1>5, <1>6, <1>7, <1>11, <2>1, <2>2, <2>3 DEF Keeps, Issues
<1>12. CASE lsu_state = "s_w_wait_mem"
  <2>1. Stay /\ req_op = "SW"
    BY <1>1, <1>2, <1>3, <1>12 DEF Flush, Shift, lsu_ready, BusInv
  <2>2. NoStore /\ lsu_state' \in {"s_w_wait_mem", "s_wait_ready"}
    BY <1>1, <1>12 DEF LsuEdge
  <2>3. MemState = AfterLsu
    BY <1>12 DEF MemState, Issued
  <2> QED
    BY <1>5, <1>6, <1>7, <1>12, <2>1, <2>2, <2>3 DEF Keeps
<1> QED
  BY <1>2, <1>8, <1>9, <1>10, <1>11, <1>12 DEF LsuStates

\* What the access of the LSU's instruction does to the memory is what the
\* sequential machine does when it executes that instruction.
LEMMA IssueMem ==
    ASSUME PipeInv, NEW fetched \in BOOLEAN, NEW answered \in BOOLEAN, Edge(fetched, answered),
           Issues, Clean(AfterLsu)
    PROVE  mem' = AfterLsu.mem
<1> DEFINE s == AfterWbu
<1>1. /\ RegFileEdge /\ CSRFileEdge /\ TypeOK /\ ref \in RefState /\ lsu.valid /\ ~wbu_flush
      /\ AfterLsu = RefStep(s) /\ MemState = s
  BY DEF Edge, PipeInv, Base, Issues, Stay
<1>2. s \in RefState /\ Clean(s)
  BY <1>1, StatesTyped
<1>3. lsu.pc = s.pc /\ LsuRight(lsu, s)
  <2>1. LsuOnPath
    BY <1>1, <1>2, Commits
  <2> QED
    BY <1>1, <2>1 DEF PipeInv, LsuRegInv
<1>4. mem = s.mem
  BY <1>1, <1>2 DEF PipeInv, MemInv
<1>5. lsu.inst = CurWord(s) /\ In(lsu) = Cur(s) /\ D(lsu) = CurRow(s)
  BY <1>3, SameInst DEF LsuRight
<1>6. CurRow(s).lsu = "SW" <=> Cur(s).op = "SW"
  BY <1>2, RefFields, RowMeaning
<1>7. SeqExcp(s) = IF lsu.excp.valid THEN lsu.excp
                   ELSE IF Cur(s).op \in {"LW", "SW"} /\ Slot(Addr(s)) \in FaultSlots
                   THEN Excp(IF Cur(s).op = "SW" THEN "StoreAMOPageFault" ELSE "LoadAccessFault", Addr(s))
                   ELSE NoExcp
  <2>1. lsu.excp = StageExcp(lsu.pc, lsu.inst)
    BY <1>1 DEF PipeInv, ExcpInv
  <2> QED
    BY <1>2, <1>3, <1>5, <2>1, SeqExcpStages
<1>8. Excp("StoreAMOPageFault", Addr(s)).valid /\ ~NoExcp.valid
  BY ExcpTypes, ExcpNamed DEF ExcpNames
<1> HIDE DEF s
<1>9. CASE req_op # "SW"
  <2>1. Cur(s).op # "SW" \/ SeqExcp(s).valid
    BY <1>5, <1>6, <1>7, <1>9 DEF req_op
  <2>2. mem' = mem
    BY <1>9 DEF Issues, NoStore
  <2> QED
    BY <1>1, <1>2, <1>4, <2>1, <2>2, NoStoreStep
<1>10. CASE req_op = "SW"
  <2>1. ~lsu.excp.valid /\ Cur(s).op = "SW" /\ D(lsu).lsu = "SW"
    BY <1>5, <1>6, <1>10 DEF req_op
  <2>2. lsu.addr = Addr(s) /\ lsu.data = Src2(s)
    BY <1>3, <2>1 DEF LsuRight
  <2>3. Store
    BY <1>10 DEF Issues
  <2>4. CASE LsuFault
    <3>1. SeqExcp(s).valid
      BY <1>7, <1>8, <2>1, <2>2, <2>4 DEF LsuFault
    <3>2. mem' = mem
      BY <2>3, <2>4 DEF Store
    <3> QED
      BY <1>1, <1>2, <1>4, <3>1, <3>2, NoStoreStep
  <2>5. CASE ~LsuFault
    <3>1. ~SeqExcp(s).valid
      BY <1>7, <1>8, <2>1, <2>2, <2>5 DEF LsuFault
    <3>2. mem' = [mem EXCEPT ![Slot(lsu.addr)] = lsu.data]
      BY <2>3, <2>5 DEF Store
    <3>3. RefStep(s).mem = [s.mem EXCEPT ![Slot(Addr(s))] = Src2(s)]
      BY <1>2, <2>1, <3>1, StepPlain
    <3> QED
      BY <1>1, <1>4, <2>2, <3>2, <3>3
  <2> QED
    BY <2>4, <2>5
<1> QED
  BY <1>9, <1>10

\* Memory is that of the reference behind the last issued store.
LEMMA MemStep ==
    ASSUME PipeInv, NEW fetched \in BOOLEAN, NEW answered \in BOOLEAN, Edge(fetched, answered)
    PROVE  MemInv' /\ (Clean(MemState') => Clean(MemState))
<1>1. MemInv' <=> (Clean(MemState') => mem' = MemState'.mem)
  BY DEF MemInv, Clean
<1>2. CASE Keeps
  BY <1>1, <1>2 DEF Keeps, NoStore, PipeInv, MemInv
<1>3. CASE Issues
  <2>1. MemState' = AfterLsu /\ MemState = AfterWbu
    BY <1>3 DEF Issues
  <2>2. Clean(AfterLsu) => Clean(AfterWbu)
    BY StatesTyped DEF PipeInv, Base
  <2> QED
    BY <1>1, <1>3, <2>1, <2>2, IssueMem
<1> QED
  BY <1>2, <1>3, MemMoves

\* A fence.i that is executed in WBU empties the instruction cache.
LEMMA FenceFlushes ==
    ASSUME PipeInv, RegFileEdge, CSRFileEdge, Clean(AfterWbu), wbu.valid, Cur(ref).op = "FENCE_I"
    PROVE  icache_flush
<1>1. WbuRight(wbu, ref) /\ ref \in RefState
  BY Commits DEF PipeInv, Base
<1>2. D(wbu) = CurRow(ref)
  BY <1>1, SameInst DEF WbuRight
<1>3. CurRow(ref).exec = "FenceI"
  BY <1>1, RefFields, RowMeaning
<1> QED
  BY <1>2, <1>3 DEF icache_flush

\* What a fetch may see of a slot is its present word unless the slot is dirty.
LEMMA CodeStep ==
    ASSUME PipeInv, NEW fetched \in BOOLEAN, NEW answered \in BOOLEAN, Edge(fetched, answered)
    PROVE  CodeInv'
<1>1. /\ RegFileEdge /\ CSRFileEdge /\ PipelineEdge /\ DifftestStep /\ LsuInv /\ TypeOK /\ ref \in RefState
  BY DEF Edge, PipeInv, Base
<1>2. ref' = AfterWbu /\ wbu' = IF Shift /\ lsu.valid THEN LsuOut ELSE Bubble
  BY <1>1, Moves
<1>3. CodeInv' <=> (Clean(MemState') /\ NoFence' =>
         \A t \in Slots : t \notin MemState'.dirty => code'[t] \subseteq {MemState'.mem[t]})
  BY DEF CodeInv, Clean
<1>4. NoFence' <=> /\ wbu'.valid => Cur(ref').op # "FENCE_I"
                   /\ Issued' => Cur(AfterWbu').op # "FENCE_I"
  BY DEF NoFence, Cur, CurWord
<1> SUFFICES ASSUME Clean(MemState'), NoFence', NEW t \in Slots, t \notin MemState'.dirty
             PROVE  code'[t] \subseteq {MemState'.mem[t]}
  BY <1>3
<1>5. AfterWbu \in RefState /\ AfterLsu \in RefState /\ Clean(MemState) /\ Clean(AfterWbu)
  <2>1. Clean(MemState)
    BY MemStep
  <2> QED
    BY <1>1, <2>1, StatesTyped DEF MemState
<1>6. ~icache_flush /\ wbu.valid => Cur(ref).op # "FENCE_I"
  BY <1>1, <1>5, FenceFlushes
<1>7. CASE Keeps /\ icache_flush
  <2>1. code' = [s \in Slots |-> {mem[s]}] /\ MemState' = MemState
    BY <1>7 DEF Keeps, NoStore
  <2>2. mem = MemState.mem
    BY <1>5 DEF PipeInv, MemInv
  <2> QED
    BY <2>1, <2>2
<1>8. CASE Keeps /\ ~icache_flush
  <2>1. code' = code /\ MemState' = MemState
    BY <1>8 DEF Keeps, NoStore
  <2>2. ASSUME Issued PROVE Cur(AfterWbu).op # "FENCE_I"
    <3>1. CASE lsu_state = "s_w_wait_mem"
      <4>1. Issued' /\ AfterWbu' = AfterWbu
        BY <3>1, MemMoves DEF Stay
      <4> QED
        BY <1>4, <4>1
    <3>2. CASE lsu_state = "s_wait_ready"
      <4>1. wbu' = LsuOut
        BY <1>2, <3>2, MemMoves
      <4> QED
        BY <1>2, <1>4, <4>1 DEF LsuOut
    <3> QED
      BY <2>2, <3>1, <3>2 DEF Issued
  <2>3. NoFence
    BY <1>6, <1>8, <2>2 DEF NoFence
  <2> QED
    BY <1>5, <2>1, <2>3 DEF PipeInv, CodeInv
<1>9. CASE Issues
  <2>1. /\ ~wbu_flush /\ ~Issued /\ Issued' /\ AfterWbu' = AfterWbu /\ lsu.valid
        /\ MemState = AfterWbu /\ MemState' = AfterLsu /\ AfterLsu = RefStep(AfterWbu)
    BY <1>9 DEF Issues, Stay
  <2>2. ~icache_flush
    BY <2>1 DEF icache_flush, wbu_flush
  <2>3. NoFence
    BY <1>6, <2>1, <2>2 DEF NoFence
  <2>4. AfterLsu.dirty = AfterWbu.dirty \cup Changed(AfterWbu)
    BY <1>4, <1>5, <2>1, StepBook
  <2>5. t \notin AfterWbu.dirty /\ AfterLsu.mem[t] = AfterWbu.mem[t]
    BY <2>1, <2>4 DEF Changed
  <2>6. code[t] \subseteq {AfterLsu.mem[t]}
    BY <1>5, <2>1, <2>3, <2>5 DEF PipeInv, CodeInv
  <2>7. \/ code' = code
        \/ /\ mem' = [mem EXCEPT ![Slot(lsu.addr)] = lsu.data]
           /\ code' = [code EXCEPT ![Slot(lsu.addr)] = @ \cup {lsu.data}]
    BY <1>9, <2>2 DEF Issues, Store, NoStore
  <2>8. mem' = AfterLsu.mem
    BY <1>9, <2>1, IssueMem
  <2>9. mem \in [Slots -> Word] /\ code \in [Slots -> SUBSET Word]
    BY <1>1 DEF TypeOK
  <2>10. ASSUME NEW w \in code'[t] PROVE w = AfterLsu.mem[t]
    <3>1. w \in code[t] \/ w = mem'[t]
      BY <2>7, <2>9
    <3> QED
      BY <2>6, <2>8, <3>1
  <2> QED
    BY <2>1, <2>10
<1> QED
  BY <1>7, <1>8, <1>9, MemMoves

\* What a fetch may newly return is what the memory holds, and nothing that it
\* could return is lost but at a fence.i, which also redirects.
LEMMA CodeMoves ==
    ASSUME PipeInv, NEW fetched \in BOOLEAN, NEW answered \in BOOLEAN, Edge(fetched, answered)
    PROVE  /\ Clean(MemState') => \A t \in Slots : \A w \in code'[t] : w \in code[t] \/ w = MemState'.mem[t]
           /\ ~redirect => \A t \in Slots : code[t] \subseteq code'[t]
<1>1. mem \in [Slots -> Word] /\ code \in [Slots -> SUBSET Word]
  BY DEF PipeInv, Base, TypeOK
<1>2. Clean(MemState') => mem' = MemState'.mem
  BY MemStep DEF MemInv, Clean
<1>3. icache_flush => redirect
  BY DEF icache_flush, redirect, wbu_flush
<1>4. \/ code' = code
      \/ icache_flush /\ mem' = mem /\ code' = [s \in Slots |-> {mem[s]}]
      \/ /\ mem' = [mem EXCEPT ![Slot(lsu.addr)] = lsu.data]
         /\ code' = [code EXCEPT ![Slot(lsu.addr)] = @ \cup {lsu.data}]
  BY MemMoves DEF Keeps, Issues, NoStore, Store
<1>5. CASE code' = code
  BY <1>5
<1>6. CASE icache_flush /\ mem' = mem /\ code' = [s \in Slots |-> {mem[s]}]
  BY <1>2, <1>3, <1>6
<1>7. CASE /\ mem' = [mem EXCEPT ![Slot(lsu.addr)] = lsu.data]
           /\ code' = [code EXCEPT ![Slot(lsu.addr)] = @ \cup {lsu.data}]
  BY <1>1, <1>2, <1>7
<1> QED
  BY <1>4, <1>5, <1>6, <1>7

(***************************************************************************)
(* The front end.  What the IFU adds to its queue it has just fetched, and *)
(* it predicts a branch only where the target buffer has one.              *)
(***************************************************************************)
Predicted(a, p) == p.taken => \/ btb[Slot(a)].valid
                              \/ fetch.st = "busy" /\ fetch.predict.taken /\ a = fetch.addr
NewlyFetched(r) == \E a \in Word, p \in Prediction : \E word \in code[Slot(a)] :
                      r = FetchOut(a, word, p) /\ Predicted(a, p)

\* An answer of the port adds at most one new instruction to the queue.
LEMMA RespondAdds ==
    ASSUME TypeOK, NEW fetched \in BOOLEAN, NEW addr \in Word, NEW p \in Prediction, Predicted(addr, p),
           Respond(addr, p, fetched)
    PROVE  /\ \A i \in 1 .. Len(queue') : (\E j \in 1 .. Len(queue) : queue'[i] = queue[j]) \/ NewlyFetched(queue'[i])
           /\ fetch'.st = "busy" => fetch'.addr \in Word /\ Predicted(fetch'.addr, fetch'.predict)
<1>1. queue \in Seq(IfuReg) /\ queue_rest \in Seq(IfuReg)
  BY QueueTypes DEF TypeOK
<1>2. \A i \in 1 .. Len(queue_rest) : \E j \in 1 .. Len(queue) : queue_rest[i] = queue[j]
  <2>1. CASE queue_deq
    <3>1. queue # << >> /\ queue_rest = Tail(queue)
      BY <2>1 DEF queue_deq, queue_rest
    <3>2. Len(Tail(queue)) = Len(queue) - 1 /\ \A i \in 1 .. Len(Tail(queue)) : Tail(queue)[i] = queue[i + 1]
      BY <1>1, <3>1
    <3>3. \A i \in 1 .. Len(queue) - 1 : i + 1 \in 1 .. Len(queue)
      BY <1>1
    <3> QED
      BY <3>1, <3>2, <3>3
  <2>2. CASE ~queue_deq
    BY <2>2 DEF queue_rest
  <2> QED
    BY <2>1, <2>2
<1>3. CASE fetched /\ queue_room
  <2>1. PICK word \in code[Slot(addr)] : queue' = Append(queue_rest, FetchOut(addr, word, p))
    BY <1>3 DEF Respond
  <2>2. fetch' = Idle
    BY <1>3 DEF Respond
  <2>3. NewlyFetched(FetchOut(addr, word, p))
    BY DEF NewlyFetched
  <2>4. /\ Len(queue') = Len(queue_rest) + 1 /\ queue'[Len(queue_rest) + 1] = FetchOut(addr, word, p)
        /\ \A i \in 1 .. Len(queue_rest) : queue'[i] = queue_rest[i]
    BY <1>1, <2>1
  <2>5. \A i \in 1 .. Len(queue_rest) + 1 : i \in 1 .. Len(queue_rest) \/ i = Len(queue_rest) + 1
    BY <1>1
  <2> QED
    BY <1>2, <2>2, <2>3, <2>4, <2>5 DEF Idle
<1>4. CASE ~(fetched /\ queue_room)
  <2>1. queue' = queue_rest /\ fetch' = [st |-> "busy", addr |-> addr, predict |-> p]
    BY <1>4 DEF Respond
  <2> QED
    BY <1>2, <2>1
<1> QED
  BY <1>3, <1>4

\* So does an edge of the fetch unit, and a redirect empties the queue.
LEMMA IfuAdds ==
    ASSUME TypeOK, NEW fetched \in BOOLEAN, IfuEdge(fetched)
    PROVE  /\ \A i \in 1 .. Len(queue') : (\E j \in 1 .. Len(queue) : queue'[i] = queue[j]) \/ NewlyFetched(queue'[i])
           /\ fetch'.st = "busy" => fetch'.addr \in Word /\ Predicted(fetch'.addr, fetch'.predict)
           /\ redirect => queue' = << >>
<1>0. pc \in Word /\ queue \in Seq(IfuReg)
  BY DEF TypeOK
<1>1. CASE redirect
  <2>1. queue' = << >> /\ fetch' \in {Idle, Killed}
    BY <1>1 DEF IfuEdge
  <2> QED
    BY <2>1 DEF Idle, Killed
<1>2. CASE ~redirect /\ fetch.st = "idle"
  <2>1. PICK p \in Predictions : Respond(pc, p, fetched)
    BY <1>2 DEF IfuEdge
  <2>2. p \in Prediction /\ Predicted(pc, p)
    BY PredictionTypes DEF Predicted
  <2> QED
    BY <1>0, <1>2, <2>1, <2>2, RespondAdds
<1>3. CASE ~redirect /\ fetch.st = "busy"
  <2>1. Respond(fetch.addr, fetch.predict, fetched)
    BY <1>3 DEF IfuEdge
  <2>2. fetch.addr \in Word /\ fetch.predict \in Prediction
    BY <1>3 DEF TypeOK, Idle, Killed
  <2>3. Predicted(fetch.addr, fetch.predict)
    BY <1>3 DEF Predicted
  <2> QED
    BY <1>3, <2>1, <2>2, <2>3, RespondAdds
<1>4. CASE ~redirect /\ fetch.st = "killed"
  <2>1. queue' = queue_rest /\ fetch' \in {Idle, fetch}
    BY <1>4 DEF IfuEdge
  <2>2. CASE queue_deq
    <3>1. queue # << >> /\ queue' = Tail(queue)
      BY <2>1, <2>2 DEF queue_deq, queue_rest
    <3>2. Len(Tail(queue)) = Len(queue) - 1 /\ \A i \in 1 .. Len(Tail(queue)) : Tail(queue)[i] = queue[i + 1]
      BY <1>0, <3>1
    <3>3. \A i \in 1 .. Len(queue) - 1 : i + 1 \in 1 .. Len(queue)
      BY <1>0
    <3> QED
      BY <1>4, <2>1, <3>1, <3>2, <3>3 DEF Idle
  <2>3. CASE ~queue_deq
    BY <1>4, <2>1, <2>3 DEF queue_rest, Idle
  <2> QED
    BY <2>2, <2>3
<1> QED
  BY <1>1, <1>2, <1>3, <1>4 DEF IfuEdge

\* Where the registers of the front end get their contents from.
LEMMA FrontMoves ==
    ASSUME TypeOK, LsuInv, PipelineEdge, DifftestStep
    PROVE  /\ idu' = Bubble \/ idu' = idu \/ (idu' = queue[1] /\ 1 \in 1 .. Len(queue))
           /\ redirect => idu' = Bubble
           /\ exu' = Bubble \/ exu' = exu \/ (exu' = IduOut /\ idu.valid)
           /\ lsu' = Bubble \/ lsu' = lsu \/ (lsu' = ExuOut /\ exu.valid)
<1>1. queue \in Seq(IfuReg)
  BY DEF TypeOK
<1>2. queue # << >> => Head(queue) = queue[1] /\ 1 \in 1 .. Len(queue)
  BY <1>1
<1> QED
  BY <1>2 DEF PipelineEdge, PipelineConnect, redirect

\* A slot that has held a branch stays known at every edge.
LEMMA BranchyMoves ==
    ASSUME PipeInv, NEW fetched \in BOOLEAN, NEW answered \in BOOLEAN, Edge(fetched, answered),
           NEW t \in Slots, Branchy(MemState, t)
    PROVE  Branchy(MemState', t)
<1>1. AfterWbu \in RefState
  BY StatesTyped DEF PipeInv, Base
<1> QED
  BY <1>1, MemMoves, BranchyStep DEF Keeps, Issues

\* Predictor entries, and predictions in flight, are for slots that hold or held a
\* branch.
LEMMA BtbStep ==
    ASSUME PipeInv, NEW fetched \in BOOLEAN, NEW answered \in BOOLEAN, Edge(fetched, answered)
    PROVE  BtbInv'
<1> DEFINE s == MemState
           n == MemState'
<1>1. /\ IfuEdge(fetched) /\ BpuEdge /\ PipelineEdge /\ DifftestStep /\ LsuInv /\ TypeOK
  BY DEF Edge, PipeInv, Base
<1>2. BtbInv' <=> (Clean(n) =>
        /\ \A t \in Slots : btb'[t].valid => Branchy(n, t)
        /\ \A t \in Slots : \A w \in code'[t] : IsBranch(w) => Branchy(n, t)
        /\ \A i \in 1 .. Len(queue') : BranchOK(queue'[i], n)
        /\ idu'.valid => BranchOK(idu', n)
        /\ exu'.valid => BranchOK(exu', n)
        /\ fetch'.st = "busy" /\ fetch'.predict.taken => Branchy(n, Slot(fetch'.addr)))
  BY DEF BtbInv, Clean, Branchy, BranchOK
<1> SUFFICES ASSUME Clean(n)
             PROVE  /\ \A t \in Slots : btb'[t].valid => Branchy(n, t)
                    /\ \A t \in Slots : \A w \in code'[t] : IsBranch(w) => Branchy(n, t)
                    /\ \A i \in 1 .. Len(queue') : BranchOK(queue'[i], n)
                    /\ idu'.valid => BranchOK(idu', n)
                    /\ exu'.valid => BranchOK(exu', n)
                    /\ fetch'.st = "busy" /\ fetch'.predict.taken => Branchy(n, Slot(fetch'.addr))
  BY <1>2
<1>3. \A t \in Slots : Branchy(s, t) => Branchy(n, t)
  BY BranchyMoves
<1>4. Clean(s)
  BY MemStep
<1>5. /\ \A t \in Slots : btb[t].valid => Branchy(s, t)
      /\ \A t \in Slots : \A w \in code[t] : IsBranch(w) => Branchy(s, t)
      /\ \A i \in 1 .. Len(queue) : BranchOK(queue[i], s)
      /\ idu.valid => BranchOK(idu, s)
      /\ exu.valid => BranchOK(exu, s)
      /\ fetch.st = "busy" /\ fetch.predict.taken => Branchy(s, Slot(fetch.addr))
  BY <1>4 DEF PipeInv, BtbInv
<1>6. Clean(n) => \A t \in Slots : \A w \in code'[t] : w \in code[t] \/ w = n.mem[t]
  BY CodeMoves
<1> HIDE DEF s, n
<1>7. \A a \in Word : Slot(a) \in Slots
  BY SlotType
<1>8. \A r : r.pc \in Word /\ BranchOK(r, s) => BranchOK(r, n)
  BY <1>3, <1>7 DEF BranchOK
<1>9. /\ idu.valid => idu.pc \in Word
      /\ exu.valid => exu.pc \in Word
      /\ \A i \in 1 .. Len(queue) : queue[i].pc \in Word
  <2>1. \A i \in 1 .. Len(queue) : queue[i] \in IfuReg
    BY <1>1 DEF TypeOK
  <2>2. \A r \in IfuReg : r.pc \in Word
    BY DEF IfuReg
  <2> QED
    BY <1>1, <2>1, <2>2, Registers
<1>10. ASSUME NEW t \in Slots, btb'[t].valid PROVE Branchy(n, t)
  <2>1. CASE btb'[t] = btb[t]
    BY <1>3, <1>5, <1>10, <2>1
  <2>2. CASE btb'[t] # btb[t]
    <3>1. valid_br /\ t = Slot(exu.pc)
      <4>1. btb \in [Slots -> BtbEntry \cup {NoEntry}]
        BY <1>1 DEF TypeOK
      <4> QED
        BY <1>1, <2>2, <4>1 DEF BpuEdge
    <3>2. exu.valid /\ IsBranch(exu.inst)
      BY <3>1 DEF valid_br, exu_fire, br_op, D, In, IsBranch
    <3> QED
      BY <1>3, <1>5, <3>1, <3>2 DEF BranchOK
  <2> QED
    BY <2>1, <2>2
<1>11. ASSUME NEW t \in Slots, NEW w \in code'[t], IsBranch(w) PROVE Branchy(n, t)
  <2>1. w \in code[t] \/ w = n.mem[t]
    BY <1>6
  <2> QED
    BY <1>3, <1>5, <1>11, <2>1 DEF Branchy
<1>12. \A a \in Word : \A p : Predicted(a, p) /\ p.taken => Branchy(s, Slot(a))
  BY <1>5, <1>7 DEF Predicted
<1>13. ASSUME NEW r, NewlyFetched(r) PROVE BranchOK(r, n)
  <2>1. PICK a \in Word, p \in Prediction : \E word \in code[Slot(a)] : r = FetchOut(a, word, p) /\ Predicted(a, p)
    BY <1>13 DEF NewlyFetched
  <2>2. PICK word \in code[Slot(a)] : r = FetchOut(a, word, p) /\ Predicted(a, p)
    BY <2>1
  <2>3. r.pc = a /\ r.inst = word /\ r.predict = p
    BY <2>2 DEF FetchOut
  <2>4. IsBranch(word) => Branchy(s, Slot(a))
    BY <1>5, <1>7
  <2> QED
    BY <1>3, <1>7, <1>12, <2>2, <2>3, <2>4 DEF BranchOK
<1>14. ASSUME NEW i \in 1 .. Len(queue') PROVE BranchOK(queue'[i], n)
  <2>1. (\E j \in 1 .. Len(queue) : queue'[i] = queue[j]) \/ NewlyFetched(queue'[i])
    BY <1>1, IfuAdds
  <2> QED
    BY <1>5, <1>8, <1>9, <1>13, <2>1
<1>15. idu'.valid => BranchOK(idu', n)
  BY <1>1, <1>5, <1>8, <1>9, FrontMoves DEF Bubble
<1>16. exu'.valid => BranchOK(exu', n)
  <2>1. IduOut.pc = idu.pc /\ IduOut.inst = idu.inst /\ IduOut.predict = idu.predict
    BY DEF IduOut
  <2>2. BranchOK(idu, s) => BranchOK(IduOut, s)
    BY <2>1 DEF BranchOK
  <2> QED
    BY <1>1, <1>5, <1>8, <1>9, <2>1, <2>2, FrontMoves DEF Bubble
<1>17. fetch'.st = "busy" /\ fetch'.predict.taken => Branchy(n, Slot(fetch'.addr))
  <2>1. fetch'.st = "busy" => fetch'.addr \in Word /\ Predicted(fetch'.addr, fetch'.predict)
    BY <1>1, IfuAdds
  <2> QED
    BY <1>3, <1>7, <1>12, <2>1
<1> QED
  BY <1>10, <1>11, <1>14, <1>15, <1>16, <1>17

\* What waits to be decoded holds a word its slot may be fetched as, and the
\* exception of its fetch.
LEMMA FetchedStep ==
    ASSUME PipeInv, NEW fetched \in BOOLEAN, NEW answered \in BOOLEAN, Edge(fetched, answered)
    PROVE  FetchedInv'
<1>1. /\ IfuEdge(fetched) /\ PipelineEdge /\ DifftestStep /\ LsuInv /\ TypeOK /\ FetchedInv
  BY DEF Edge, PipeInv, Base
<1> DEFINE Ok(r) == r.inst \in code'[Slot(r.pc)] /\ r.excp = FetchExcp(r.pc)
<1>2. FetchedInv' <=> (\A i \in 1 .. Len(queue') : Ok(queue'[i])) /\ (idu'.valid => Ok(idu'))
  BY DEF FetchedInv, Fetched
<1>3. CASE redirect
  <2>1. queue' = << >> /\ idu' = Bubble
    BY <1>1, <1>3, IfuAdds, FrontMoves
  <2> QED
    BY <1>2, <2>1 DEF Bubble
<1>4. CASE ~redirect
  <2>1. \A t \in Slots : code[t] \subseteq code'[t]
    BY <1>4, CodeMoves
  <2>2. \A a \in Word : Slot(a) \in Slots
    BY SlotType
  <2>3. \A r : r.pc \in Word /\ Fetched(r) => Ok(r)
    BY <2>1, <2>2 DEF Fetched
  <2>4. (idu.valid => idu.pc \in Word) /\ \A i \in 1 .. Len(queue) : queue[i].pc \in Word
    <3>1. \A i \in 1 .. Len(queue) : queue[i] \in IfuReg
      BY <1>1 DEF TypeOK
    <3>2. \A r \in IfuReg : r.pc \in Word
      BY DEF IfuReg
    <3> QED
      BY <1>1, <3>1, <3>2, Registers
  <2>5. ASSUME NEW r, NewlyFetched(r) PROVE r.pc \in Word /\ Fetched(r)
    <3>1. PICK a \in Word, p \in Prediction : \E word \in code[Slot(a)] : r = FetchOut(a, word, p)
      BY <2>5 DEF NewlyFetched
    <3>2. PICK word \in code[Slot(a)] : r = FetchOut(a, word, p)
      BY <3>1
    <3>3. r.pc = a /\ r.inst = word /\ r.excp = FetchExcp(a)
      BY <3>2 DEF FetchOut, FetchExcp
    <3> QED
      BY <3>3 DEF Fetched
  <2>6. /\ \A j \in 1 .. Len(queue) : Fetched(queue[j])
        /\ idu.valid => Fetched(idu)
    BY <1>1 DEF FetchedInv
  <2> HIDE DEF Ok
  <2>7. ASSUME NEW i \in 1 .. Len(queue') PROVE Ok(queue'[i])
    <3>1. (\E j \in 1 .. Len(queue) : queue'[i] = queue[j]) \/ NewlyFetched(queue'[i])
      BY <1>1, IfuAdds
    <3> QED
      BY <2>3, <2>4, <2>5, <2>6, <3>1
  <2>8. idu'.valid => Ok(idu')
    BY <1>1, <2>3, <2>4, <2>6, FrontMoves DEF Bubble
  <2> QED
    BY <1>2, <2>7, <2>8
<1> QED
  BY <1>3, <1>4

\* The exception of every instruction in flight is the one its stage has found.
LEMMA ExcpStep ==
    ASSUME PipeInv, NEW fetched \in BOOLEAN, NEW answered \in BOOLEAN, Edge(fetched, answered)
    PROVE  ExcpInv'
<1>1. PipelineEdge /\ DifftestStep /\ LsuInv /\ TypeOK /\ ExcpInv /\ FetchedInv
  BY DEF Edge, PipeInv, Base
<1>2. ExcpInv' <=> /\ exu'.valid => exu'.excp = DecodeExcp(exu'.pc, exu'.inst)
                   /\ lsu'.valid => lsu'.excp = StageExcp(lsu'.pc, lsu'.inst)
  BY DEF ExcpInv
<1>3. idu.valid => IduOut.excp = DecodeExcp(IduOut.pc, IduOut.inst)
  <2>1. IduOut.pc = idu.pc /\ IduOut.inst = idu.inst
    BY DEF IduOut
  <2> QED
    BY <1>1, <2>1, IduRaises DEF FetchedInv, Fetched
<1>4. exu.valid => ExuOut.excp = StageExcp(ExuOut.pc, ExuOut.inst)
  <2>1. ExuOut.pc = exu.pc /\ ExuOut.inst = exu.inst
    BY DEF ExuOut
  <2> QED
    BY <1>1, <2>1, ExuRaises DEF ExcpInv
<1>5. ~Bubble.valid
  BY DEF Bubble
<1>6. /\ exu.valid => exu.excp = DecodeExcp(exu.pc, exu.inst)
      /\ lsu.valid => lsu.excp = StageExcp(lsu.pc, lsu.inst)
  BY <1>1 DEF ExcpInv
<1>7. exu'.valid => exu'.excp = DecodeExcp(exu'.pc, exu'.inst)
  BY <1>1, <1>3, <1>5, <1>6, FrontMoves
<1>8. lsu'.valid => lsu'.excp = StageExcp(lsu'.pc, lsu'.inst)
  BY <1>1, <1>4, <1>5, <1>6, FrontMoves
<1> QED
  BY <1>2, <1>7, <1>8

\* Between the access of a store and its retirement memory is ahead of the
\* sequential machine; at every other moment they are equal.
LEMMA PreciseStep ==
    ASSUME PipeInv, NEW fetched \in BOOLEAN, NEW answered \in BOOLEAN, Edge(fetched, answered)
    PROVE  PreciseMemory'
<1>1. PipelineEdge /\ DifftestStep /\ LsuInv
  BY DEF Edge, PipeInv, Base
<1>2. ref' = AfterWbu /\ wbu' = IF Shift /\ lsu.valid THEN LsuOut ELSE Bubble
  BY <1>1, Moves
<1>3. Stay => lsu' = lsu /\ lsu.valid /\ req_op' = req_op
  BY DEF Stay, req_op, D, In
<1>4. StoreInFlight' <=> \/ lsu'.valid /\ req_op' = "SW" /\ Issued'
                         \/ wbu'.valid /\ D(wbu').lsu = "SW"
  BY DEF StoreInFlight, Issued, D, In
<1> SUFFICES ASSUME ref'.waived = {}, ~StoreInFlight' PROVE mem' = ref'.mem
  BY DEF PreciseMemory
<1>5. Clean(AfterWbu)
  BY <1>2 DEF Clean
<1>6. CASE Keeps /\ ~Issued
  <2>1. MemState = AfterWbu
    BY <1>6 DEF MemState
  <2>2. mem = AfterWbu.mem
    BY <1>5, <2>1 DEF PipeInv, MemInv
  <2> QED
    BY <1>2, <1>6, <2>2 DEF Keeps, NoStore
<1>7. CASE Keeps /\ Issued
  <2>1. CASE lsu_state = "s_w_wait_mem"
    BY <1>3, <1>4, <2>1, MemMoves
  <2>2. CASE lsu_state = "s_wait_ready"
    <3>1. Shift /\ lsu.valid /\ wbu' = LsuOut
      BY <1>2, <2>2, MemMoves
    <3>2. LsuOut.valid /\ D(LsuOut) = D(lsu)
      BY DEF LsuOut, D, In
    <3>3. D(lsu).lsu # "SW" /\ ~wbu.valid /\ AfterWbu = ref
      BY <1>4, <3>1, <3>2 DEF Shift
    <3>4. ~StoreInFlight
      BY <3>3 DEF StoreInFlight, req_op
    <3>5. mem = ref.mem
      BY <1>5, <3>3, <3>4 DEF PipeInv, PreciseMemory, Clean
    <3> QED
      BY <1>2, <1>7, <3>3, <3>5 DEF Keeps, NoStore
  <2> QED
    BY <1>7, <2>1, <2>2 DEF Issued
<1>8. CASE Issues
  <2>1. Stay /\ Issued' /\ MemState = AfterWbu
    BY <1>8 DEF Issues
  <2>2. req_op # "SW"
    BY <1>3, <1>4, <2>1
  <2>3. mem' = mem
    BY <1>8, <2>2 DEF Issues, NoStore
  <2>4. mem = AfterWbu.mem
    BY <1>5, <2>1 DEF PipeInv, MemInv
  <2> QED
    BY <1>2, <2>3, <2>4
<1> QED
  BY <1>6, <1>7, <1>8, MemMoves

-----------------------------------------------------------------------------
\* The invariant holds at reset.
LEMMA PipeInvInit == Init => PipeInv
<1> SUFFICES ASSUME Init PROVE PipeInv
  OBVIOUS
<1>1. TypeOK /\ LsuInv /\ PathInv
  BY TypeInit, LsuInvInit, PathInvInit
<1>2. /\ ~wbu.valid /\ ~lsu.valid /\ ~exu.valid /\ ~idu.valid /\ fetch.st = "idle" /\ queue = << >>
      /\ lsu_state = "s_idle" /\ pc = ref.pc /\ code = [s \in Slots |-> {mem[s]}] /\ btb = [s \in Slots |-> NoEntry]
      /\ regs = ref.regs /\ csrs = ref.csrs /\ mem = ref.mem
      /\ ref = [pc |-> ResetVector, regs |-> regs, csrs |-> csrs, mem |-> mem,
                dirty |-> {}, wasBranch |-> {}, last |-> "none", waived |-> {}]
  BY DEF Init, Bubble, Idle
<1>3. ref \in RefState
  BY <1>1, <1>2, ResetVectorAssumption DEF RefState, TypeOK
<1>4. AfterWbu = ref /\ AfterLsu = ref /\ AfterExu = ref /\ MemState = ref /\ ~Issued
  BY <1>2 DEF AfterWbu, AfterLsu, AfterExu, MemState, Issued
<1>5. FilesInv /\ WbuInv /\ LsuRegInv /\ ExuInv /\ BusInv /\ ExcpInv /\ MemInv /\ PreciseMemory
  BY <1>2, <1>4 DEF FilesInv, WbuInv, LsuRegInv, ExuInv, BusInv, ExcpInv, MemInv, PreciseMemory
<1>6. FrontInv
  BY <1>2, <1>4 DEF FrontInv, Front, FirstOf, FetchPc
<1>7. CodeInv /\ FetchedInv
  BY <1>2, <1>4 DEF CodeInv, FetchedInv
<1>8. BtbInv
  BY <1>2, <1>4 DEF BtbInv, NoEntry, Branchy
<1> QED
  BY <1>1, <1>3, <1>5, <1>6, <1>7, <1>8 DEF PipeInv, Base

\* Every edge keeps the invariant.
LEMMA PipeInvNext == PipeInv /\ [Next]_vars => PipeInv'
<1> SUFFICES ASSUME PipeInv, [Next]_vars PROVE PipeInv'
  OBVIOUS
<1>1. CASE UNCHANGED vars
  <2>1. /\ AfterWbu' = AfterWbu /\ AfterLsu' = AfterLsu /\ AfterExu' = AfterExu /\ MemState' = MemState
        /\ Issued' = Issued /\ Front' = Front /\ req_op' = req_op /\ LsuFault' = LsuFault
    BY <1>1 DEF vars, AfterWbu, AfterLsu, AfterExu, MemState, Issued, Front, FirstOf, FetchPc, req_op, LsuFault, D, In
  <2>2. /\ fetch' = fetch /\ queue' = queue /\ btb' = btb /\ idu' = idu /\ exu' = exu /\ lsu' = lsu /\ wbu' = wbu
        /\ lsu_state' = lsu_state /\ read_reg' = read_reg /\ access_fault' = access_fault
        /\ regs' = regs /\ csrs' = csrs /\ mem' = mem /\ code' = code /\ ref' = ref
    BY <1>1 DEF vars
  <2>3. Base'
    BY <2>2, TypeNext, LsuInvNext, PathInvNext DEF PipeInv, Base, LsuInv
  <2>4. FilesInv' /\ MemInv' /\ PreciseMemory'
    BY <2>1, <2>2 DEF PipeInv, FilesInv, MemInv, PreciseMemory, StoreInFlight, Clean, D, In
  <2>5. WbuInv'
    <3>1. WbuInv' <=> (wbu'.valid /\ Clean(ref') => wbu'.pc = ref'.pc /\ (Clean(AfterWbu') => WbuRight(wbu', ref')))
      BY DEF WbuInv, Clean, WbuRight, CurWord, SeqExcp, D, In, Value, CsrValue, Cur, Src1, Src2, Addr
    <3> QED
      BY <2>1, <2>2, <3>1 DEF PipeInv, WbuInv
  <2>6. (LsuOnPath' <=> LsuOnPath) /\ (ExuOnPath' <=> ExuOnPath)
    <3>1. LsuOnPath' <=> Clean(AfterWbu') /\ (wbu'.valid => ~Redirects(ref'))
      BY DEF LsuOnPath, Clean, Redirects, SeqExcp, Cur, CurWord
    <3>2. ExuOnPath' <=> LsuOnPath' /\ Clean(AfterLsu') /\ (lsu'.valid => ~Redirects(AfterWbu'))
      BY DEF ExuOnPath, Clean, Redirects, SeqExcp, Cur, CurWord
    <3> QED
      BY <2>1, <2>2, <3>1, <3>2 DEF LsuOnPath, ExuOnPath
  <2>7. LsuRegInv'
    <3>1. LsuRegInv' <=> (lsu'.valid /\ LsuOnPath' =>
             lsu'.pc = AfterWbu'.pc /\ (Clean(AfterLsu') => LsuRight(lsu', AfterWbu')))
      BY DEF LsuRegInv, Clean, LsuRight, D, In, CurWord, Value, Addr, CsrValue, Cur, Src1, Src2
    <3> QED
      BY <2>1, <2>2, <2>6, <3>1 DEF PipeInv, LsuRegInv
  <2>8. ExuInv'
    <3>1. ExuInv' <=> (exu'.valid /\ ExuOnPath' =>
             exu'.pc = AfterLsu'.pc /\ (Clean(AfterExu') => ExuRight(exu', AfterLsu')))
      BY DEF ExuInv, Clean, ExuRight, D, In, CurWord, Cur, Src1, Src2, ReadsRs1, ReadsRs2
    <3> QED
      BY <2>1, <2>2, <2>6, <3>1 DEF PipeInv, ExuInv
  <2>9. FrontInv' /\ BusInv' /\ ExcpInv' /\ FetchedInv'
    BY <2>1, <2>2, <2>6 DEF PipeInv, FrontInv, BusInv, ExcpInv, FetchedInv, Fetched
  <2>10. CodeInv'
    <3>1. NoFence' <=> NoFence
      BY <2>1, <2>2 DEF NoFence, Cur, CurWord
    <3> QED
      BY <2>1, <2>2, <3>1 DEF PipeInv, CodeInv, Clean
  <2>11. BtbInv'
    BY <2>1, <2>2 DEF PipeInv, BtbInv, Clean, Branchy, BranchOK
  <2> QED
    BY <2>3, <2>4, <2>5, <2>7, <2>8, <2>9, <2>10, <2>11 DEF PipeInv
<1>2. CASE Next
  <2>1. PICK fetched, answered \in BOOLEAN : Edge(fetched, answered)
    BY <1>2 DEF Next
  <2>2. TypeOK /\ LsuInv /\ PathInv /\ LsuOwnsRequest /\ ref \in RefState
    BY DEF PipeInv, Base, LsuInv
  <2>3. Base'
    <3>1. TypeOK' /\ LsuInv' /\ PathInv'
      BY <1>2, <2>2, TypeNext, LsuInvNext, PathInvNext
    <3>2. ref' = AfterWbu /\ AfterWbu \in RefState
      BY <2>1, <2>2, Moves, StatesTyped DEF Edge
    <3> QED
      BY <3>1, <3>2 DEF Base
  <2>4. FilesInv' /\ WbuInv' /\ LsuRegInv' /\ ExuInv' /\ FrontInv' /\ BusInv'
    BY <2>1, FilesStep, WbuStep, LsuRegStep, ExuStep, FrontStep, BusStep
  <2>5. MemInv' /\ CodeInv' /\ BtbInv' /\ FetchedInv' /\ ExcpInv' /\ PreciseMemory'
    BY <2>1, MemStep, CodeStep, BtbStep, FetchedStep, ExcpStep, PreciseStep
  <2> QED
    BY <2>3, <2>4, <2>5 DEF PipeInv
<1> QED
  BY <1>1, <1>2

\* For every program, every width of the words, every depth of the response
\* queue and every timing of the instruction cache and of the bus: as long as
\* the program stays inside the contract, each instruction the pipeline retires
\* is the one the sequential machine executes, the register and CSR files are
\* the sequential machine's, and so is memory but for a store that has been
\* issued and has not retired.
THEOREM PipelineIsSequential == Spec => []Sequential
<1>1. PipeInv => Sequential
  BY DEF PipeInv, WbuInv, FilesInv, Sequential, Lockstep, Agree, Clean
<1> QED
  BY PipeInvInit, PipeInvNext, <1>1, PTL DEF Spec
=============================================================================
