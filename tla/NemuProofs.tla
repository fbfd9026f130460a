----------------------------- MODULE NemuProofs -----------------------------
(***************************************************************************)
(* NEMU's loop, comparison and keyboard, for every size of the key queue,  *)
(* number of pcs and values, configuration and number of events; and the   *)
(* guests beside it: clocks, audio ring and threads of every size.         *)
(***************************************************************************)
EXTENDS MCNemu, SequenceTheorems, WellFoundedInduction, TLAPS

(***************************************************************************)
(* The ring of keys.                                                       *)
(***************************************************************************)
Ring == 0 .. KEY_QUEUE_LEN - 1
Keys == [keydown : BOOLEAN, keycode : 1 .. KEYDOWN_MASK - 1]
Queues == [key_queue : [Ring -> Nat], key_f : Ring, key_r : Ring, ok : BOOLEAN]

\* The number of entries and the place of the k-th, without the remainders.
Used(q) == IF q.key_r < q.key_f THEN q.key_r + KEY_QUEUE_LEN - q.key_f ELSE q.key_r - q.key_f
Place(q, k) == IF q.key_f + k - 1 < KEY_QUEUE_LEN THEN q.key_f + k - 1 ELSE q.key_f + k - 1 - KEY_QUEUE_LEN

\* The remainder of a number below twice the divisor.
LEMMA Remainder ==
    ASSUME NEW L \in Nat \ {0}, NEW x \in 0 .. 2 * L - 1
    PROVE  x % L = IF x < L THEN x ELSE x - L
<1>1. CASE x < L
      BY <1>1
<1>2. CASE ~(x < L)
  <2>1. x - L \in 0 .. L - 1
        BY <1>2
  <2>2. x = 1 * L + (x - L)
        BY <1>2
  <2>3. QED
        BY <1>2, <2>1, <2>2
<1>3. QED
      BY <1>1, <1>2

\* The components of a key queue have their types, and its places are in the ring.
LEMMA QueueFields ==
    ASSUME NEW q \in Queues
    PROVE  /\ q.key_queue \in [Ring -> Nat] /\ q.key_f \in Ring /\ q.key_r \in Ring /\ q.ok \in BOOLEAN
           /\ KEY_QUEUE_LEN \in Nat \ {0}
           /\ q.key_f \in Nat /\ q.key_f < KEY_QUEUE_LEN /\ q.key_r \in Nat /\ q.key_r < KEY_QUEUE_LEN
           /\ Used(q) \in 0 .. KEY_QUEUE_LEN - 1
           /\ \A k \in 1 .. KEY_QUEUE_LEN : Place(q, k) \in Ring
<1>1. /\ q.key_queue \in [Ring -> Nat] /\ q.key_f \in Ring /\ q.key_r \in Ring /\ q.ok \in BOOLEAN
      BY DEF Queues
<1>2. KEY_QUEUE_LEN \in Nat \ {0}
      BY SizesAssumption
<1>3. /\ q.key_f \in Nat /\ q.key_f < KEY_QUEUE_LEN /\ q.key_r \in Nat /\ q.key_r < KEY_QUEUE_LEN
      BY <1>1, <1>2 DEF Ring
<1>4. Used(q) \in 0 .. KEY_QUEUE_LEN - 1
      BY <1>2, <1>3 DEF Used
<1>5. ASSUME NEW k \in 1 .. KEY_QUEUE_LEN PROVE Place(q, k) \in Ring
      BY <1>2, <1>3 DEF Place, Ring
<1>6. QED
      BY <1>1, <1>2, <1>3, <1>4, <1>5

\* The keys in the ring, as the sequence of what reading them will give.
LEMMA PendingForm ==
    ASSUME NEW q \in Queues
    PROVE  Pending(q) = [k \in 1 .. Used(q) |-> __am_input_keybrd(q.key_queue[Place(q, k)])]
<1>1. (q.key_r + KEY_QUEUE_LEN - q.key_f) % KEY_QUEUE_LEN = Used(q)
  <2>1. q.key_r + KEY_QUEUE_LEN - q.key_f \in 0 .. 2 * KEY_QUEUE_LEN - 1
        BY QueueFields
  <2> DEFINE x == q.key_r + KEY_QUEUE_LEN - q.key_f
  <2> HIDE DEF x
  <2>2. x % KEY_QUEUE_LEN = IF x < KEY_QUEUE_LEN THEN x ELSE x - KEY_QUEUE_LEN
        BY <2>1, SizesAssumption, Remainder DEF x
  <2>3. QED
        BY <2>2, QueueFields DEF Used, x
<1>2. ASSUME NEW k \in 1 .. Used(q) PROVE (q.key_f + k - 1) % KEY_QUEUE_LEN = Place(q, k)
  <2>1. q.key_f + k - 1 \in 0 .. 2 * KEY_QUEUE_LEN - 1
        BY QueueFields
  <2> DEFINE x == q.key_f + k - 1
  <2> HIDE DEF x
  <2>2. x % KEY_QUEUE_LEN = IF x < KEY_QUEUE_LEN THEN x ELSE x - KEY_QUEUE_LEN
        BY <2>1, SizesAssumption, Remainder DEF x
  <2>3. QED
        BY <2>1, <2>2, QueueFields DEF Place, x
<1>3. QED
      BY <1>1, <1>2 DEF Pending

\* A ring that is not full takes a key at its end.
LEMMA Enqueued ==
    ASSUME NEW q \in Queues, NEW key \in Nat
    PROVE  /\ key_enqueue(q, key) \in Queues
           /\ key_enqueue(q, key).ok =>
                 Pending(key_enqueue(q, key)) = Append(Pending(q), __am_input_keybrd(key))
<1> DEFINE p == key_enqueue(q, key)
           L == KEY_QUEUE_LEN
           r == IF q.key_r + 1 < L THEN q.key_r + 1 ELSE 0
<1>1. (q.key_r + 1) % L = r
  <2>1. q.key_r + 1 \in 0 .. 2 * L - 1
        BY QueueFields
  <2> DEFINE x == q.key_r + 1
  <2> HIDE DEF x
  <2>2. x % L = IF x < L THEN x ELSE x - L
        BY <2>1, SizesAssumption, Remainder DEF x
  <2>3. QED
        BY <2>2, QueueFields DEF x
<1>2. r \in Ring
      BY QueueFields DEF Ring
<1>3. p = [key_queue |-> [q.key_queue EXCEPT ![q.key_r] = key], key_f |-> q.key_f, key_r |-> r,
           ok |-> q.ok /\ r # q.key_f]
      BY <1>1 DEF key_enqueue
<1>r. r = IF q.key_r + 1 < L THEN q.key_r + 1 ELSE 0
      OBVIOUS
<1> HIDE DEF p, r
<1>4. p \in Queues
  <2>1. [q.key_queue EXCEPT ![q.key_r] = key] \in [Ring -> Nat]
        BY QueueFields
  <2>2. QED
        BY <1>2, <1>3, <2>1, QueueFields DEF Queues
<1>5. ASSUME p.ok PROVE Pending(p) = Append(Pending(q), __am_input_keybrd(key))
  <2>1. p.key_f = q.key_f /\ p.key_r = r /\ r # q.key_f /\ p.key_queue = [q.key_queue EXCEPT ![q.key_r] = key]
        BY <1>3, <1>5
  <2>2. Used(p) = Used(q) + 1
        BY <1>r, <2>1, QueueFields DEF Used
  <2>3. ASSUME NEW k \in 1 .. Used(q) + 1 PROVE Place(p, k) = Place(q, k)
        BY <2>1 DEF Place
  <2>4. ASSUME NEW k \in 1 .. Used(q) PROVE Place(q, k) # q.key_r /\ Place(q, k) \in Ring
        BY QueueFields DEF Place, Used, Ring
  <2>5. Place(q, Used(q) + 1) = q.key_r
        BY QueueFields DEF Place, Used
  <2> DEFINE s == Pending(q)
             e == __am_input_keybrd(key)
             f == [k \in 1 .. Used(q) + 1 |-> __am_input_keybrd(p.key_queue[Place(p, k)])]
  <2>6. Pending(p) = f
        BY <1>4, <2>2, PendingForm
  <2>7. s = [k \in 1 .. Used(q) |-> __am_input_keybrd(q.key_queue[Place(q, k)])]
        BY PendingForm
  <2>8. ASSUME NEW k \in 1 .. Used(q) PROVE f[k] = s[k]
    <3>1. p.key_queue[Place(p, k)] = q.key_queue[Place(q, k)]
          BY <2>1, <2>3, <2>4, QueueFields
    <3>2. k \in 1 .. Used(q) + 1
          BY QueueFields
    <3>3. QED
          BY <2>7, <3>1, <3>2
  <2>9. f[Used(q) + 1] = e
    <3>1. p.key_queue[Place(p, Used(q) + 1)] = key
      <4>1. Used(q) + 1 \in 1 .. Used(q) + 1
            BY QueueFields
      <4>2. QED
            BY <2>1, <2>3, <2>5, <4>1, QueueFields
    <3>2. QED
          BY <3>1, QueueFields
  <2>10. Len(s) = Used(q) /\ DOMAIN f = 1 .. Used(q) + 1 /\ Used(q) \in Nat
         BY <2>7, QueueFields
  <2> HIDE DEF s, e, f
  <2>11. f = Append(s, e)
    <3> DEFINE S == {s[k] : k \in 1 .. Used(q)} \cup {e}
    <3>1. s \in Seq(S)
          BY <2>7, <2>10
    <3>2. e \in S
          OBVIOUS
    <3>3. f \in Seq(S)
      <4>1. f = [k \in 1 .. Used(q) + 1 |-> f[k]]
            BY DEF f
      <4>2. \A k \in 1 .. Used(q) + 1 : f[k] \in S
            BY <2>8, <2>9, <2>10
      <4>3. QED
            BY <2>10, <4>1, <4>2
    <3> HIDE DEF S
    <3>4. Len(f) = Used(q) + 1
          BY <2>10, <3>3
    <3>5. /\ Append(s, e) \in Seq(S) /\ Len(Append(s, e)) = Used(q) + 1
          /\ \A k \in 1 .. Used(q) : Append(s, e)[k] = s[k]
          /\ Append(s, e)[Used(q) + 1] = e
          BY <2>10, <3>1, <3>2, AppendProperties
    <3>6. \A k \in 1 .. Len(f) : f[k] = Append(s, e)[k]
          BY <2>8, <2>9, <2>10, <3>4, <3>5
    <3>7. QED
          BY <3>3, <3>4, <3>5, <3>6, SeqEqual
  <2>12. QED
         BY <2>6, <2>11 DEF s, e
<1>6. QED
      BY <1>4, <1>5 DEF p

AnyKeys == [keydown : BOOLEAN, keycode : Nat]

\* There are as many as key_r is ahead of key_f.
LEMMA PendingType ==
    ASSUME NEW q \in Queues
    PROVE  Pending(q) \in Seq(AnyKeys) /\ Len(Pending(q)) = Used(q)
<1>1. ASSUME NEW k \in 1 .. Used(q) PROVE __am_input_keybrd(q.key_queue[Place(q, k)]) \in AnyKeys
  <2>1. q.key_queue[Place(q, k)] \in Nat
        BY QueueFields
  <2>2. ASSUME NEW key \in Nat PROVE __am_input_keybrd(key) \in AnyKeys
        BY DEF __am_input_keybrd, AnyKeys, KEYDOWN_MASK
  <2>3. QED
        BY <2>1, <2>2
<1>2. QED
      BY <1>1, PendingForm, QueueFields

\* A read takes the first key, or finds none.
LEMMA Dequeued ==
    ASSUME NEW q \in Queues
    PROVE  /\ key_dequeue(q).q \in Queues /\ key_dequeue(q).q.ok = q.ok /\ key_dequeue(q).key \in Nat
           /\ q.key_f = q.key_r => key_dequeue(q).key = NEMU_KEY_NONE /\ key_dequeue(q).q = q
           /\ q.key_f # q.key_r =>
                 /\ Pending(q) # <<>> /\ Pending(q)[1] = __am_input_keybrd(key_dequeue(q).key)
                 /\ Tail(Pending(q)) = Pending(key_dequeue(q).q)
<1>1. CASE q.key_f = q.key_r
      BY <1>1 DEF key_dequeue, NEMU_KEY_NONE
<1>2. CASE q.key_f # q.key_r
  <2> DEFINE L == KEY_QUEUE_LEN
             f == IF q.key_f + 1 < L THEN q.key_f + 1 ELSE 0
             p == [q EXCEPT !.key_f = f]
             key == q.key_queue[q.key_f]
  <2>1. (q.key_f + 1) % L = f
    <3>1. q.key_f + 1 \in 0 .. 2 * L - 1
          BY QueueFields
    <3> DEFINE x == q.key_f + 1
    <3> HIDE DEF x
    <3>2. x % L = IF x < L THEN x ELSE x - L
          BY <3>1, SizesAssumption, Remainder DEF x
    <3>3. QED
          BY <3>2, QueueFields DEF x
  <2>2. f \in Ring /\ key \in Nat
        BY QueueFields DEF Ring
  <2>3. key_dequeue(q) = [q |-> p, key |-> key]
        BY <1>2, <2>1 DEF key_dequeue
  <2>4. f = IF q.key_f + 1 < L THEN q.key_f + 1 ELSE 0
        OBVIOUS
  <2> HIDE DEF f
  <2>5. /\ p \in Queues /\ p.ok = q.ok /\ p.key_f = f /\ p.key_r = q.key_r /\ p.key_queue = q.key_queue
        BY <2>2 DEF Queues
  <2> HIDE DEF p
  <2>6. Used(q) = Used(p) + 1 /\ Used(p) \in Nat
        BY <1>2, <2>4, <2>5, QueueFields DEF Used
  <2>7. Place(q, 1) = q.key_f
        BY QueueFields DEF Place
  <2>8. ASSUME NEW k \in 1 .. Used(p) PROVE Place(q, k + 1) = Place(p, k)
        BY <2>4, <2>5, <2>6, QueueFields DEF Place
  <2>9. /\ Pending(q) \in Seq(AnyKeys) /\ Pending(p) \in Seq(AnyKeys)
        /\ Len(Pending(q)) = Used(q) /\ Len(Pending(p)) = Used(p)
        BY <2>5, PendingType
  <2>10. Pending(q) # <<>>
         BY <2>6, <2>9
  <2>11. Pending(q)[1] = __am_input_keybrd(key)
    <3>1. 1 \in 1 .. Used(q)
          BY <2>6
    <3>2. QED
          BY <2>7, <3>1, PendingForm
  <2>12. Tail(Pending(q)) = Pending(p)
    <3>1. /\ Tail(Pending(q)) \in Seq(AnyKeys) /\ Len(Tail(Pending(q))) = Used(p)
          /\ \A k \in 1 .. Used(p) : Tail(Pending(q))[k] = Pending(q)[k + 1]
          BY <2>6, <2>9, <2>10, HeadTailProperties
    <3>2. ASSUME NEW k \in 1 .. Used(p) PROVE Pending(q)[k + 1] = Pending(p)[k]
      <4>1. k + 1 \in 1 .. Used(q)
            BY <2>6
      <4>2. Pending(q)[k + 1] = __am_input_keybrd(q.key_queue[Place(q, k + 1)])
            BY <4>1, PendingForm
      <4>3. Pending(p)[k] = __am_input_keybrd(p.key_queue[Place(p, k)])
            BY <2>5, PendingForm
      <4>4. QED
            BY <2>5, <2>8, <4>2, <4>3
    <3>3. QED
          BY <2>9, <3>1, <3>2, SeqEqual
  <2>13. QED
         BY <1>2, <2>2, <2>3, <2>5, <2>10, <2>11, <2>12
<1>3. QED
      BY <1>1, <1>2

(***************************************************************************)
(* Keys read, then keys in the ring, are the keys accepted.                *)
(***************************************************************************)
LEMMA AppendBehind ==
    ASSUME NEW S, NEW s \in Seq(S), NEW t \in Seq(S), NEW e \in S
    PROVE  s \o Append(t, e) = Append(s \o t, e)
<1>1. Append(t, e) = t \o <<e>> /\ <<e>> \in Seq(S)
      BY AppendIsConcat
<1>2. s \o t \in Seq(S)
      BY ConcatProperties
<1>3. Append(s \o t, e) = (s \o t) \o <<e>>
      BY <1>2, AppendIsConcat
<1>4. (s \o t) \o <<e>> = s \o (t \o <<e>>)
      BY <1>1, ConcatAssociative
<1>5. QED
      BY <1>1, <1>3, <1>4

\* Moving the first element of one sequence to the end of another changes nothing
\* of the two put together.
LEMMA MoveFirst ==
    ASSUME NEW S, NEW s \in Seq(S), NEW t \in Seq(S), t # <<>>
    PROVE  Append(s, t[1]) \o Tail(t) = s \o t
<1>1. t[1] \in S /\ Tail(t) \in Seq(S) /\ Len(Tail(t)) = Len(t) - 1 /\ Len(t) \in Nat \ {0}
      BY EmptySeq, HeadTailProperties, ElementOfSeq
<1>2. /\ Append(s, t[1]) \in Seq(S) /\ Len(Append(s, t[1])) = Len(s) + 1
      /\ \A j \in 1 .. Len(s) : Append(s, t[1])[j] = s[j]
      /\ Append(s, t[1])[Len(s) + 1] = t[1]
      BY <1>1, AppendProperties
<1> DEFINE a == Append(s, t[1])
           u == Tail(t)
<1>3. \A j \in 1 .. Len(t) - 1 : u[j] = t[j + 1]
      BY <1>1, HeadTailProperties
<1>4. Len(s) \in Nat
      BY LenProperties
<1> HIDE DEF a, u
<1>5. /\ a \o u \in Seq(S) /\ Len(a \o u) = Len(s) + Len(t)
      /\ \A j \in 1 .. Len(s) + Len(t) : (a \o u)[j] = IF j <= Len(s) + 1 THEN a[j] ELSE u[j - (Len(s) + 1)]
      BY <1>1, <1>2, <1>4, ConcatProperties DEF a, u
<1>6. /\ s \o t \in Seq(S) /\ Len(s \o t) = Len(s) + Len(t)
      /\ \A j \in 1 .. Len(s) + Len(t) : (s \o t)[j] = IF j <= Len(s) THEN s[j] ELSE t[j - Len(s)]
      BY ConcatProperties
<1>7. ASSUME NEW j \in 1 .. Len(s) + Len(t) PROVE (a \o u)[j] = (s \o t)[j]
  <2>1. CASE j <= Len(s)
        BY <1>2, <1>4, <1>5, <1>6, <2>1 DEF a
  <2>2. CASE j = Len(s) + 1
        BY <1>1, <1>2, <1>4, <1>5, <1>6, <2>2 DEF a
  <2>3. CASE j > Len(s) + 1
    <3>1. j - (Len(s) + 1) \in 1 .. Len(t) - 1 /\ (j - (Len(s) + 1)) + 1 = j - Len(s)
          BY <1>1, <1>4, <2>3
    <3>2. u[j - (Len(s) + 1)] = t[j - Len(s)]
          BY <1>3, <3>1
    <3>3. ~(j <= Len(s) + 1) /\ ~(j <= Len(s))
          BY <1>4, <2>3
    <3>4. (a \o u)[j] = u[j - (Len(s) + 1)] /\ (s \o t)[j] = t[j - Len(s)]
          BY <1>5, <1>6, <3>3
    <3>5. QED
          BY <3>2, <3>4
  <2>4. j \in Int /\ Len(s) \in Int
        BY <1>1, <1>4
  <2>5. j <= Len(s) \/ j = Len(s) + 1 \/ j > Len(s) + 1
        BY <2>4
  <2>6. QED
        BY <2>1, <2>2, <2>3, <2>5
<1>8. QED
      BY <1>5, <1>6, <1>7, SeqEqual DEF a, u

\* A queue that asserts stays failed.
LEMMA NoKeyLost ==
    ASSUME NEW q \in Queues, NEW key \in Nat
    PROVE  key_enqueue(q, key).ok => q.ok
BY QueueFields DEF key_enqueue

\* What handling an event keeps, when t are the keys read so far.
Good(h, st, t) ==
    /\ h \in [state : {st, "QUIT"}, q : Queues, accepted : Seq(Keys)]
    /\ h.q.ok => t \o Pending(h.q) = h.accepted

\* A key arrives at the guest as it was pressed, unless it has no code.
LEMMA KeyAsPressed ==
    ASSUME NEW e \in Events, e.type = "key", am_scancode(e) # NEMU_KEY_NONE
    PROVE  /\ am_scancode(e) \in Nat /\ Pressed(e) \in Keys
           /\ __am_input_keybrd(am_scancode(e)) = Pressed(e)
<1>1. e.scancode \in Nat /\ e.down \in BOOLEAN
  <2>1. e # [type |-> "quit"]
        OBVIOUS
  <2>2. e \in [type : {"key"}, scancode : Scancodes, down : BOOLEAN]
        BY <2>1 DEF Events
  <2>3. QED
        BY <2>2, KeysAssumption
<1>2. e.scancode % 256 \in 0 .. 255
      BY <1>1
<1> DEFINE key == keymap[e.scancode % 256]
           M == KEYDOWN_MASK
<1>3. M \in Nat \ {0}
      BY DEF KEYDOWN_MASK
<1>4. key \in 0 .. M - 1
  <2>1. PICK c \in 0 .. 255 : c = e.scancode % 256
        BY <1>2
  <2>2. keymap[c] \in 0 .. M - 1
        BY KeysAssumption
  <2>3. QED
        BY <2>1, <2>2
<1>5. /\ am_scancode(e) = (IF key = 0 THEN 0 ELSE key + (IF e.down THEN M ELSE 0))
      /\ Pressed(e) = [keydown |-> e.down, keycode |-> key]
      BY DEF am_scancode, Pressed, NEMU_KEY_NONE
<1> HIDE DEF key
<1>6. key # 0
      BY <1>5 DEF NEMU_KEY_NONE
<1>7. Pressed(e) \in Keys
  <2>1. key \in 1 .. M - 1
        BY <1>3, <1>4, <1>6
  <2>2. QED
        BY <1>1, <1>5, <2>1 DEF Keys
<1>8. ASSUME NEW k \in 0 .. M - 1, NEW b \in BOOLEAN
      PROVE  __am_input_keybrd(k + (IF b THEN M ELSE 0)) = [keydown |-> b, keycode |-> k]
  <2> DEFINE x == k + (IF b THEN M ELSE 0)
  <2>1. x \in 0 .. 2 * M - 1 /\ (x >= M <=> b) /\ x \in Nat
        BY <1>3
  <2>2. x = IF b THEN k + M ELSE k
        BY <1>3
  <2> HIDE DEF x
  <2>3. x % M = IF x < M THEN x ELSE x - M
        BY <1>3, <2>1, Remainder
  <2>4. x % M = k
        BY <1>3, <2>2, <2>3
  <2>5. (x >= M) = b
        BY <2>1
  <2>6. __am_input_keybrd(x) = [keydown |-> x >= M, keycode |-> x % M]
        BY DEF __am_input_keybrd
  <2>7. QED
        BY <2>4, <2>5, <2>6 DEF x
<1>9. am_scancode(e) = key + (IF e.down THEN M ELSE 0) /\ am_scancode(e) \in Nat
      BY <1>1, <1>3, <1>4, <1>5, <1>6
<1>10. __am_input_keybrd(key + (IF e.down THEN M ELSE 0)) = [keydown |-> e.down, keycode |-> key]
      BY <1>1, <1>4, <1>8
<1>11. QED
      BY <1>5, <1>7, <1>9, <1>10

\* One event keeps the order of keys, or trips the assertion.
LEMMA HandleEventGood ==
    ASSUME NEW st, NEW t \in Seq(Keys), NEW h, Good(h, st, t), NEW e \in Events
    PROVE  Good(HandleEvent(h, e), st, t)
<1>1. h \in [state : {st, "QUIT"}, q : Queues, accepted : Seq(Keys)] /\ (h.q.ok => t \o Pending(h.q) = h.accepted)
      BY DEF Good
<1>2. h.state \in {st, "QUIT"} /\ h.q \in Queues /\ h.accepted \in Seq(Keys)
      BY <1>1
<1>3. e.type = "quit" \/ e.type = "key"
      BY DEF Events
<1>4. CASE e.type = "quit"
  <2>1. HandleEvent(h, e) = [h EXCEPT !.state = "QUIT"]
        BY <1>4 DEF HandleEvent
  <2>2. QED
        BY <1>1, <1>2, <2>1 DEF Good
<1>5. CASE e.type = "key" /\ h.state = "RUNNING" /\ am_scancode(e) # NEMU_KEY_NONE
  <2> DEFINE p == key_enqueue(h.q, am_scancode(e))
             a == Append(h.accepted, Pressed(e))
  <2>1. HandleEvent(h, e) = [h EXCEPT !.q = p, !.accepted = a]
        BY <1>1, <1>5 DEF HandleEvent
  <2>2. /\ am_scancode(e) \in Nat /\ Pressed(e) \in Keys /\ __am_input_keybrd(am_scancode(e)) = Pressed(e)
        BY <1>5, KeyAsPressed
  <2>3. /\ p \in Queues /\ (p.ok => h.q.ok) /\ (p.ok => Pending(p) = Append(Pending(h.q), Pressed(e)))
        BY <1>2, <2>2, Enqueued, NoKeyLost
  <2>4. a \in Seq(Keys)
        BY <1>2, <2>2, AppendProperties
  <2>5. p.ok => t \o Append(Pending(h.q), Pressed(e)) = Append(t \o Pending(h.q), Pressed(e))
    <3>1. Keys \subseteq AnyKeys
          BY DEF Keys, AnyKeys
    <3>2. t \in Seq(AnyKeys) /\ Pressed(e) \in AnyKeys
          BY <2>2, <3>1, SeqMonotonic
    <3>3. Pending(h.q) \in Seq(AnyKeys)
          BY <1>2, PendingType
    <3>4. QED
          BY <3>2, <3>3, AppendBehind
  <2>6. p.ok => t \o Pending(p) = a
        BY <1>1, <2>3, <2>5
  <2> HIDE DEF p, a
  <2>7. QED
        BY <1>1, <2>1, <2>3, <2>4, <2>6 DEF Good
<1>6. CASE ~(e.type = "quit") /\ ~(e.type = "key" /\ h.state = "RUNNING" /\ am_scancode(e) # NEMU_KEY_NONE)
      BY <1>6 DEF HandleEvent
<1>7. QED
      BY <1>3, <1>4, <1>5, <1>6

\* A set of numbers has a least element.
LEMMA NatMin ==
    ASSUME NEW T \in SUBSET Nat, T # {}
    PROVE  \E n0 \in T : \A m \in T : n0 <= m
<1>1. IsWellFoundedOn(OpToRel(<, Nat), Nat)
      BY NatLessThanWellFounded
<1>2. \E n0 \in T : \A m \in T : ~(<<m, n0>> \in OpToRel(<, Nat))
      BY <1>1, WFMin
<1>3. \E n0 \in T : \A m \in T : ~(m < n0)
      BY <1>2 DEF OpToRel
<1>4. QED
      BY <1>3

\* The loop over the events: the function that describes it exists, and every
\* value of it is good; in both cases a least counterexample is impossible.
LEMMA HandleEventsGood ==
    ASSUME NEW st, NEW t \in Seq(Keys), NEW h, Good(h, st, t), NEW es \in Seq(Events)
    PROVE  Good(HandleEvents(h, es), st, t)
<1> DEFINE After(f, k) == IF k = 0 THEN h ELSE HandleEvent(f[k - 1], es[k])
           Loop(f, m) == f = [k \in 0 .. m |-> After(f, k)]
           handle == CHOOSE f : Loop(f, Len(es))
<1>1. Len(es) \in Nat /\ \A k \in 1 .. Len(es) : es[k] \in Events
      BY ElementOfSeq, LenProperties
<1>2. \E f : Loop(f, Len(es))
  <2> DEFINE T == {m \in 0 .. Len(es) : ~\E f : Loop(f, m)}
  <2> SUFFICES ASSUME T # {} PROVE FALSE
      BY <1>1
  <2>1. T \in SUBSET Nat
        OBVIOUS
  <2> HIDE DEF T
  <2>2. PICK m \in T : \A k \in T : m <= k
        BY <2>1, NatMin
  <2>3. m \in 0 .. Len(es) /\ ~\E f : Loop(f, m)
        BY <2>2 DEF T
  <2>4. Loop([k \in 0 .. 0 |-> h], 0)
        OBVIOUS
  <2>5. m - 1 \in 0 .. Len(es)
    <3> HIDE DEF Loop
    <3>1. m # 0
          BY <2>3, <2>4
    <3>2. QED
          BY <1>1, <2>3, <3>1
  <2>6. m - 1 \notin T
        BY <1>1, <2>2, <2>3
  <2>7. PICK f : Loop(f, m - 1)
        BY <2>5, <2>6 DEF T
  <2> DEFINE g == [k \in 0 .. m |-> IF k < m THEN f[k] ELSE HandleEvent(f[m - 1], es[m])]
  <2>8. ASSUME NEW k \in 0 .. m PROVE g[k] = After(g, k)
    <3>1. CASE k = m
          BY <1>1, <2>3, <2>5, <3>1
    <3>2. CASE k < m
      <4>1. k \in 0 .. m - 1 /\ g[k] = f[k]
            BY <1>1, <2>3, <3>2
      <4>2. f[k] = After(f, k)
            BY <2>7, <4>1
      <4>3. k # 0 => g[k - 1] = f[k - 1]
            BY <1>1, <2>3, <3>2
      <4>4. QED
            BY <4>1, <4>2, <4>3
    <3>3. QED
          BY <1>1, <2>3, <3>1, <3>2
  <2>9. Loop(g, m)
        BY <2>8
  <2>10. QED
        BY <2>3, <2>9
<1>3. Loop(handle, Len(es))
      BY <1>2
<1>4. HandleEvents(h, es) = handle[Len(es)]
      BY DEF HandleEvents
<1> HIDE DEF handle
<1>5. \A k \in 0 .. Len(es) : handle[k] = After(handle, k)
      BY <1>3
<1>6. \A k \in 0 .. Len(es) : Good(handle[k], st, t)
  <2> DEFINE T == {m \in 0 .. Len(es) : ~Good(handle[m], st, t)}
  <2> SUFFICES ASSUME T # {} PROVE FALSE
      OBVIOUS
  <2>1. T \in SUBSET Nat
        OBVIOUS
  <2> HIDE DEF T
  <2>2. PICK m \in T : \A k \in T : m <= k
        BY <2>1, NatMin
  <2>3. m \in 0 .. Len(es) /\ ~Good(handle[m], st, t)
        BY <2>2 DEF T
  <2>4. m # 0 /\ m - 1 \in 0 .. Len(es) /\ m \in 1 .. Len(es)
        BY <1>1, <1>5, <2>3
  <2>5. m - 1 \notin T
        BY <1>1, <2>2, <2>3
  <2>6. Good(handle[m - 1], st, t)
        BY <2>4, <2>5 DEF T
  <2>7. handle[m] = HandleEvent(handle[m - 1], es[m]) /\ es[m] \in Events
        BY <1>1, <1>5, <2>4
  <2>8. QED
        BY <2>3, <2>6, <2>7, HandleEventGood
<1>7. QED
      BY <1>1, <1>4, <1>6

(***************************************************************************)
(* The inductive invariant.                                                *)
(***************************************************************************)
Types ==
    /\ TypeOK
    /\ build \in Builds /\ {is_batch_mode, is_skip_ref, peeked, wrong, ended} \subseteq BOOLEAN
    /\ late \in Nat /\ sdl \in Seq(Events)
    /\ key_queue \in [Ring -> Nat] /\ accepted \in Seq(Keys) /\ taken \in Seq(Keys)

\* Where the loop is and the state it runs in: after a closed window or a trap
\* no instruction follows the one that is running.
Control ==
    /\ at = "exec" => nemu_state \in {"RUNNING", "QUIT"} /\ n # 0
    /\ at = "devices" => nemu_state = "RUNNING"
    /\ late # 0 => nemu_state \in Over /\ at # "batch"
    /\ late <= 1 /\ (at = "exec" => late = 0)
    /\ nemu_state = "END" => ended
    /\ ended => nemu_state = "END" \/ (nemu_state = "QUIT" /\ at = "exited")

\* In batch mode nothing is watched, and the loop ends with the program only.
Batch ==
    is_batch_mode =>
       /\ wps = [w \in {"x", "key"} |-> NotWatched] /\ bps = {}
       /\ at # "prompt" /\ (at = "batch" => nemu_state = "STOP")
       /\ at \in {"exec", "devices"} => n = Unbounded
       /\ at \in {"return", "exited"} => nemu_state \in Over

\* While nothing was wrong and no device was read by the debugger, the reference
\* is where the emulated machine is, memory included.
Compare ==
    /\ ~peeked => ~is_skip_ref
    /\ ~build.difftest => ~wrong
    /\ build.difftest /\ ~peeked /\ ~wrong => ref = dut
    /\ NoFalseAlarm
    /\ wrong /\ ~peeked /\ at # "crashed" => nemu_state = "ABORT" \/ (nemu_state = "QUIT" /\ at = "exited")

Inv == Types /\ Control /\ Batch /\ Compare /\ KeysInOrder

\* The switches of a build are Booleans.
LEMMA BuildFields == \A b \in Builds : b.device \in BOOLEAN /\ b.difftest \in BOOLEAN
BY BuildsAssumption

\* The invariant holds when the monitor starts.
LEMMA InvInit == Init => Inv
<1> SUFFICES ASSUME Init PROVE Inv
    OBVIOUS
<1>0. NPc \in Nat \ {0} /\ NVal \in Nat \ {0} /\ KEY_QUEUE_LEN \in Nat \ {0} /\ MaxSi \in Nat
      BY SizesAssumption
<1>1. TypeOK
      BY <1>0 DEF Init, TypeOK, Over, Cpu, Pcs, Vals, Reset
<1>2. Types
      BY <1>0, <1>1, EmptySeq DEF Types, Init, Ring
<1>3. Control
      BY DEF Init, Control
<1>4. Batch
      BY DEF Init, Batch
<1>5. Compare
      BY DEF Init, Compare, NoFalseAlarm
<1>6. KeysInOrder
  <2>1. Queue \in Queues
        BY <1>0 DEF Init, Queue, Queues, Ring
  <2>2. Used(Queue) = 0
        BY DEF Init, Queue, Used
  <2>3. Pending(Queue) \in Seq(AnyKeys) /\ Len(Pending(Queue)) = 0
        BY <2>1, <2>2, PendingType
  <2>4. Pending(Queue) = <<>>
        BY <2>3, EmptySeq
  <2>5. QED
        BY <2>4 DEF Init, KeysInOrder
<1>7. QED
      BY <1>2, <1>3, <1>4, <1>5, <1>6 DEF Inv

(***************************************************************************)
(* One instruction.                                                        *)
(***************************************************************************)
LEMMA SemanticsFields ==
    ASSUME NEW c \in Cpu, NEW kind
    PROVE  /\ Semantics(c, kind) \in Cpu
           /\ Semantics(c, kind).pc = (c.pc + 1) % NPc
           /\ Semantics(c, kind).x = (CASE kind = "alu" -> (c.x + 1) % NVal [] kind = "load" -> c.m [] OTHER -> c.x)
           /\ Semantics(c, kind).m = IF kind = "store" THEN c.x ELSE c.m
<1>0. NPc \in Nat \ {0} /\ NVal \in Nat \ {0}
      BY SizesAssumption
<1>1. c.pc \in Pcs /\ c.x \in Vals /\ c.m \in Vals
      BY DEF Cpu
<1>2. (c.pc + 1) % NPc \in Pcs
      BY <1>0, <1>1 DEF Pcs
<1>3. (c.x + 1) % NVal \in Vals
      BY <1>0, <1>1 DEF Vals
<1> DEFINE p == (c.pc + 1) % NPc
           y == (c.x + 1) % NVal
<1>4. Advance(c) = [c EXCEPT !.pc = p]
      BY DEF Advance, Cpu
<1>5. Semantics(c, kind) = (CASE kind = "alu" -> [[c EXCEPT !.pc = p] EXCEPT !.x = y]
                              [] kind = "store" -> [[c EXCEPT !.pc = p] EXCEPT !.m = c.x]
                              [] kind = "load" -> [[c EXCEPT !.pc = p] EXCEPT !.x = c.m]
                              [] OTHER -> [c EXCEPT !.pc = p])
      BY <1>4 DEF Semantics, Cpu
<1> HIDE DEF p, y
<1>6. p \in Pcs /\ y \in Vals
      BY <1>2, <1>3 DEF p, y
<1>7. c = [pc |-> c.pc, x |-> c.x, m |-> c.m]
      BY DEF Cpu
<1>8. /\ Semantics(c, kind) \in Cpu
      /\ Semantics(c, kind).pc = p
      /\ Semantics(c, kind).x = (CASE kind = "alu" -> y [] kind = "load" -> c.m [] OTHER -> c.x)
      /\ Semantics(c, kind).m = IF kind = "store" THEN c.x ELSE c.m
  <2>1. CASE kind = "alu"
        BY <1>1, <1>5, <1>6, <2>1 DEF Cpu
  <2>2. CASE kind = "store"
        BY <1>1, <1>5, <1>6, <2>2 DEF Cpu
  <2>3. CASE kind = "load"
        BY <1>1, <1>5, <1>6, <2>3 DEF Cpu
  <2>4. CASE kind \notin {"alu", "store", "load"}
        BY <1>1, <1>5, <1>6, <2>4 DEF Cpu
  <2>5. QED
        BY <2>1, <2>2, <2>3, <2>4
<1>9. QED
      BY <1>8 DEF p, y

Computed(kind, val, err) ==
    CASE kind = "device" -> [Semantics(dut, kind) EXCEPT !.x = val]
      [] err -> [Semantics(dut, kind) EXCEPT !.x = (Semantics(dut, kind).x + 1) % NVal]
      [] OTHER -> Semantics(dut, kind)
Skips(kind) == is_skip_ref \/ difftest_skip_ref(kind)
Aborts(kind, d) == build.difftest /\ ~Skips(kind) /\ ~isa_difftest_checkregs(Semantics(ref, kind), d)

\* What one instruction does to both machines and to the state of NEMU.
LEMMA ExecForms ==
    ASSUME Types, NEW kind \in Kinds, NEW val \in Vals, NEW err \in BOOLEAN, ExecOnce(kind, val, err)
    PROVE  /\ dut' = Computed(kind, val, err)
           /\ ref' = IF ~build.difftest THEN ref
                     ELSE IF Skips(kind) THEN [ref EXCEPT !.pc = dut'.pc, !.x = dut'.x]
                     ELSE Semantics(ref, kind)
           /\ nemu_state' = Stopped(IF Aborts(kind, dut') THEN "ABORT" ELSE set_nemu_state(kind), Hit(dut'))
           /\ is_skip_ref' = (build.difftest /\ "key" \in Watching)
<1> DEFINE d == Computed(kind, val, err)
<1>0. build.difftest \in BOOLEAN /\ is_skip_ref \in BOOLEAN
      BY BuildFields DEF Types
<1>1. dut' = d
      BY DEF ExecOnce, Computed
<1> DEFINE diff == IF build.difftest THEN difftest_step(d, ref, Skips(kind), kind) ELSE NoDifftest(Skips(kind))
<1>2. /\ ref' = diff.ref
      /\ nemu_state' = Stopped(IF diff.abort THEN "ABORT" ELSE set_nemu_state(kind), Hit(d))
      /\ is_skip_ref' = (build.difftest /\ (diff.skip \/ "key" \in Watching))
      BY DEF ExecOnce, Computed, Skips
<1> HIDE DEF d
<1>3. CASE ~build.difftest
  <2>1. diff.ref = ref /\ diff.abort = FALSE
        BY <1>3 DEF NoDifftest
  <2> HIDE DEF diff
  <2>2. QED
        BY <1>1, <1>2, <1>3, <2>1 DEF Aborts, d
<1>4. CASE build.difftest /\ Skips(kind)
  <2>1. diff.ref = [ref EXCEPT !.pc = d.pc, !.x = d.x] /\ diff.abort = FALSE /\ diff.skip = FALSE
        BY <1>4 DEF difftest_step
  <2> HIDE DEF diff
  <2>2. QED
        BY <1>1, <1>2, <1>4, <2>1 DEF Aborts, d
<1>5. CASE build.difftest /\ ~Skips(kind)
  <2>1. diff.ref = Semantics(ref, kind) /\ diff.skip = FALSE
        /\ diff.abort = ~isa_difftest_checkregs(Semantics(ref, kind), d)
        BY <1>5 DEF difftest_step
  <2> HIDE DEF diff
  <2>2. QED
        BY <1>1, <1>2, <1>5, <2>1 DEF Aborts, d
<1>6. QED
      BY <1>0, <1>3, <1>4, <1>5 DEF Skips, difftest_skip_ref

\* A read of the data register, by the guest or by the debugger.
LEMMA QueueTyped == Types => Queue \in Queues
BY DEF Types, TypeOK, Queue, Queues, Ring

\* The order of keys in the next state, in terms of the primed variables.
LEMMA KeysPrimed ==
    /\ Queue' = [key_queue |-> key_queue', key_f |-> key_f', key_r |-> key_r', ok |-> TRUE]
    /\ KeysInOrder' <=> (at' # "crashed" => taken' \o Pending(Queue') = accepted')
BY DEF Queue, KeysInOrder, Pending, __am_input_keybrd

\* Reading the keyboard register takes the oldest key and no other.
LEMMA ReadKeyStep ==
    ASSUME Types, KeysInOrder, at # "crashed", NEW reads \in BOOLEAN, ReadKey(reads)
    PROVE  /\ key_queue' \in [Ring -> Nat] /\ key_f' \in Ring /\ key_r' \in Ring
           /\ accepted' \in Seq(Keys) /\ taken' \in Seq(Keys) /\ KeysInOrder'
<1>0. /\ Queue \in Queues /\ accepted \in Seq(Keys) /\ taken \in Seq(Keys)
      /\ key_queue \in [Ring -> Nat] /\ key_f \in Ring /\ key_r \in Ring
      /\ taken \o Pending(Queue) = accepted
      BY QueueTyped DEF Types, TypeOK, Ring, KeysInOrder
<1>1. CASE ~reads
  <2>1. UNCHANGED <<key_queue, key_f, key_r, accepted, taken>>
        BY <1>1 DEF ReadKey, key_vars
  <2>2. Queue' = Queue
        BY <2>1 DEF Queue
  <2>3. QED
        BY <1>0, <2>1, <2>2, KeysPrimed
<1>2. CASE reads
  <2> DEFINE d == key_dequeue(Queue)
  <2>1. /\ key_queue' = d.q.key_queue /\ key_f' = d.q.key_f /\ key_r' = d.q.key_r /\ accepted' = accepted
        /\ taken' = IF d.key = NEMU_KEY_NONE THEN taken ELSE Append(taken, __am_input_keybrd(d.key))
        BY <1>2 DEF ReadKey
  <2>2. d.q \in Queues /\ d.q.ok = Queue.ok /\ d.key \in Nat
        BY <1>0, Dequeued
  <2>3. key_queue' \in [Ring -> Nat] /\ key_f' \in Ring /\ key_r' \in Ring
        BY <2>1, <2>2, QueueFields
  <2>4. Queue' = d.q
    <3>1. Queue.ok = TRUE
          BY DEF Queue
    <3>2. d.q = [key_queue |-> d.q.key_queue, key_f |-> d.q.key_f, key_r |-> d.q.key_r, ok |-> d.q.ok]
          BY <2>2 DEF Queues
    <3>3. QED
          BY <2>1, <2>2, <3>1, <3>2, KeysPrimed
  <2> HIDE DEF d
  <2>5. CASE Queue.key_f = Queue.key_r
    <3>1. d.key = NEMU_KEY_NONE /\ d.q = Queue
          BY <1>0, <2>5, Dequeued DEF d
    <3>2. QED
          BY <1>0, <2>1, <2>3, <2>4, <3>1, KeysPrimed
  <2>6. CASE Queue.key_f # Queue.key_r
    <3> DEFINE P == Pending(Queue)
               k == __am_input_keybrd(d.key)
    <3>1. P # <<>> /\ P[1] = k /\ Tail(P) = Pending(d.q)
          BY <1>0, <2>6, Dequeued DEF d
    <3>2. P \in Seq(AnyKeys) /\ taken \in Seq(AnyKeys)
      <4>1. Keys \subseteq AnyKeys
            BY DEF Keys, AnyKeys
      <4>2. QED
            BY <1>0, <4>1, PendingType, SeqMonotonic
    <3>3. k \in Keys
      <4> HIDE DEF P, k
      <4>1. Len(P) \in Nat \ {0} /\ Len(taken) \in Nat
            BY <3>1, <3>2, EmptySeq, LenProperties
      <4>2. Len(taken \o P) = Len(taken) + Len(P) /\ (taken \o P)[Len(taken) + 1] = P[1]
        <5>1. Len(taken) + 1 \in 1 .. Len(taken) + Len(P) /\ ~(Len(taken) + 1 <= Len(taken))
              BY <4>1
        <5>2. (Len(taken) + 1) - Len(taken) = 1
              BY <4>1
        <5>3. /\ Len(taken \o P) = Len(taken) + Len(P)
              /\ (taken \o P)[Len(taken) + 1] = P[(Len(taken) + 1) - Len(taken)]
              BY <3>2, <5>1, ConcatProperties
        <5>4. QED
              BY <5>2, <5>3
      <4>3. Len(taken) + 1 \in 1 .. Len(accepted) /\ accepted[Len(taken) + 1] = k
            BY <1>0, <3>1, <4>1, <4>2 DEF P
      <4>4. QED
            BY <1>0, <4>3, ElementOfSeq
    <3>4. d.key # NEMU_KEY_NONE
      <4>1. __am_input_keybrd(0).keycode = 0 % KEYDOWN_MASK
            BY DEF __am_input_keybrd
      <4>2. KEYDOWN_MASK \in Nat \ {0}
            BY DEF KEYDOWN_MASK
      <4>3. 0 % KEYDOWN_MASK = 0
        <5>1. 0 \in 0 .. 2 * KEYDOWN_MASK - 1
              BY <4>2
        <5>2. QED
              BY <4>2, <5>1, Remainder
      <4>4. k.keycode # 0
            BY <3>3, <4>2 DEF Keys
      <4>5. QED
            BY <4>1, <4>3, <4>4 DEF NEMU_KEY_NONE
    <3>5. taken' = Append(taken, P[1])
          BY <2>1, <3>1, <3>4
    <3>6. taken' \in Seq(Keys)
          BY <1>0, <3>1, <3>3, <3>5, AppendProperties
    <3>7. taken' \o Tail(P) = taken \o P
          BY <3>1, <3>2, <3>5, MoveFirst
    <3>8. QED
          BY <1>0, <2>1, <2>3, <2>4, <3>1, <3>6, <3>7, KeysPrimed
  <2>7. QED
        BY <2>5, <2>6
<1>3. QED
      BY <1>1, <1>2

\* What an instruction computes; only an error of the model's makes it wrong.
LEMMA ComputedFacts ==
    ASSUME dut \in Cpu, NEW kind \in Kinds, NEW val \in Vals, NEW err \in BOOLEAN,
           err => kind \in {"alu", "load"}
    PROVE  /\ Computed(kind, val, err) \in Cpu
           /\ Computed(kind, val, err).pc = Semantics(dut, kind).pc
           /\ Computed(kind, val, err).m = Semantics(dut, kind).m
           /\ ~err /\ kind # "device" => Computed(kind, val, err) = Semantics(dut, kind)
           /\ kind = "device" => Computed(kind, val, err) = [Semantics(dut, kind) EXCEPT !.x = val]
<1> DEFINE r == Semantics(dut, kind)
           y == (r.x + 1) % NVal
<1>1. r \in Cpu
      BY SemanticsFields
<1>2. Computed(kind, val, err) = (CASE kind = "device" -> [r EXCEPT !.x = val]
                                    [] err -> [r EXCEPT !.x = y] [] OTHER -> r)
      BY DEF Computed
<1>3. y \in Vals
  <2> HIDE DEF r
  <2>1. r.x \in Vals /\ NVal \in Nat \ {0}
        BY <1>1, SizesAssumption DEF Cpu
  <2>2. QED
        BY <2>1 DEF Vals
<1> HIDE DEF r, y
<1>4. CASE kind = "device"
      BY <1>1, <1>2, <1>4 DEF Cpu, r
<1>5. CASE kind # "device" /\ err
  <2>1. Computed(kind, val, err) = [r EXCEPT !.x = y]
        BY <1>2, <1>5
  <2>2. QED
        BY <1>1, <1>3, <1>5, <2>1 DEF Cpu, r
<1>6. CASE kind # "device" /\ ~err
      BY <1>1, <1>2, <1>6 DEF r
<1>7. QED
      BY <1>4, <1>5, <1>6

\* An instruction keeps the types and the order of keys.
LEMMA ExecTypes ==
    ASSUME Inv, NEW kind \in Kinds, NEW val \in Vals, NEW err \in BOOLEAN,
           err => kind \in {"alu", "load"}, ExecOnce(kind, val, err)
    PROVE  Types' /\ KeysInOrder'
<1>1. Types /\ at = "exec" /\ KeysInOrder /\ nemu_state \in {"RUNNING", "QUIT"} /\ n # 0 /\ n \in -1 .. MaxSi
      BY DEF Inv, ExecOnce, Control, Types, TypeOK
<1>2. dut \in Cpu /\ ref \in Cpu /\ MaxSi \in Nat
      BY <1>1, SizesAssumption DEF Types, TypeOK
<1>3. dut' \in Cpu
      BY <1>1, <1>2, ComputedFacts, ExecForms
<1>4. ref' \in Cpu
  <2>1. ref' \in {ref, [ref EXCEPT !.pc = dut'.pc, !.x = dut'.x], Semantics(ref, kind)}
        BY <1>1, ExecForms
  <2>2. Semantics(ref, kind) \in Cpu
        BY <1>2, SemanticsFields
  <2>3. [ref EXCEPT !.pc = dut'.pc, !.x = dut'.x] \in Cpu
        BY <1>2, <1>3 DEF Cpu
  <2>4. QED
        BY <1>2, <2>1, <2>2, <2>3
<1>5. nemu_state' \in {"RUNNING", "STOP"} \cup Over
      BY <1>1, ExecForms DEF Stopped, set_nemu_state, Over
<1>6. /\ key_queue' \in [Ring -> Nat] /\ key_f' \in Ring /\ key_r' \in Ring
      /\ accepted' \in Seq(Keys) /\ taken' \in Seq(Keys) /\ KeysInOrder'
      BY <1>1, ReadKeyStep DEF ExecOnce
<1>7. n' \in -1 .. MaxSi
      BY <1>1, <1>2 DEF ExecOnce, Unbounded
<1>8. at' \in {"batch", "prompt", "exec", "devices", "return", "exited", "crashed"}
      BY DEF ExecOnce
<1>9. TypeOK'
      BY <1>3, <1>4, <1>5, <1>6, <1>7, <1>8 DEF TypeOK, Ring
<1>10. /\ build' = build /\ is_batch_mode' = is_batch_mode /\ sdl' = sdl
       BY DEF ExecOnce
<1>11. is_skip_ref' \in BOOLEAN
  <2>1. build.difftest \in BOOLEAN
        BY <1>1, BuildFields DEF Types
  <2>2. QED
        BY <1>1, <2>1, ExecForms
<1>12. peeked' \in BOOLEAN /\ wrong' \in BOOLEAN /\ ended' \in BOOLEAN
       BY <1>1 DEF ExecOnce, Types
<1>13. late' \in Nat
       BY <1>1 DEF ExecOnce, Types
<1>14. QED
       BY <1>1, <1>6, <1>9, <1>10, <1>11, <1>12, <1>13 DEF Types

\* An instruction leaves the loop in a place its state allows.
LEMMA ExecControl ==
    ASSUME Inv, NEW kind \in Kinds, NEW val \in Vals, NEW err \in BOOLEAN, ExecOnce(kind, val, err)
    PROVE  Control' /\ Batch'
<1> DEFINE st == IF Aborts(kind, dut') THEN "ABORT" ELSE set_nemu_state(kind)
<1>1. /\ Types /\ at = "exec" /\ nemu_state \in {"RUNNING", "QUIT"} /\ late = 0 /\ ~ended /\ n # 0
      BY DEF Inv, ExecOnce, Control, Types
<1>2. /\ nemu_state' = Stopped(st, Hit(dut'))
      BY <1>1, ExecForms
<1>3. /\ late' = (IF nemu_state = "QUIT" THEN 1 ELSE 0) /\ (ended' <=> kind = "trap")
      /\ n' = (IF n = Unbounded THEN n ELSE n - 1)
      /\ at' = CASE kind = "unmapped" -> "crashed"
                 [] kind # "unmapped" /\ Breaks(nemu_state') -> "return"
                 [] kind # "unmapped" /\ ~Breaks(nemu_state') /\ build.device -> "devices"
                 [] OTHER -> IF n' = 0 THEN "return" ELSE "exec"
      /\ build' = build /\ is_batch_mode' = is_batch_mode
  <2>1. late' = (IF nemu_state = "QUIT" THEN 1 ELSE 0)
        BY <1>1 DEF ExecOnce
  <2>2. ended' = (ended \/ kind = "trap")
        BY DEF ExecOnce
  <2>3. ended' <=> kind = "trap"
        BY <1>1, <2>2
  <2>4. QED
        BY <2>1, <2>3 DEF ExecOnce
<1>4. ~Aborts(kind, dut') \/ kind \notin {"trap", "invalid"}
      BY DEF Aborts, Skips, difftest_skip_ref
<1>5. /\ kind = "trap" => st = "END"
      /\ kind # "trap" => st \in {"ABORT", "RUNNING", "QUIT"}
      /\ nemu_state = "QUIT" => st \in {"ABORT", "END", "QUIT"}
      BY <1>1, <1>4 DEF set_nemu_state
<1>6. build.device \in BOOLEAN
      BY <1>1, BuildFields DEF Types
<1> HIDE DEF st
<1>7. /\ nemu_state' = (IF Hit(dut') /\ st = "RUNNING" THEN "STOP" ELSE st)
      BY <1>2 DEF Stopped
<1>8. /\ at' = "exec" => nemu_state' = "RUNNING" /\ n' # 0
      /\ at' = "devices" => nemu_state' = "RUNNING"
      /\ at' # "batch" /\ at' # "prompt" /\ at' # "exited"
  <2>1. CASE kind = "unmapped"
        BY <1>3, <2>1
  <2>2. CASE kind # "unmapped" /\ nemu_state' # "RUNNING"
    <3>1. at' = "return"
          BY <1>3, <2>2 DEF Breaks
    <3>2. QED
          BY <3>1
  <2>3. CASE kind # "unmapped" /\ nemu_state' = "RUNNING"
    <3>1. at' = IF build.device THEN "devices" ELSE IF n' = 0 THEN "return" ELSE "exec"
          BY <1>3, <1>6, <2>3 DEF Breaks
    <3>2. QED
          BY <2>3, <3>1
  <2>4. QED
        BY <2>1, <2>2, <2>3
<1>9. Control'
  <2>1. nemu_state = "QUIT" => nemu_state' \in Over
        BY <1>5, <1>7 DEF Over
  <2>2. /\ nemu_state' = "END" => ended'
        /\ ended' => nemu_state' = "END"
        BY <1>3, <1>5, <1>7
  <2>3. late' <= 1 /\ (late' # 0 => nemu_state = "QUIT")
        BY <1>3
  <2>4. at' = "exec" => late' = 0
        BY <1>3, <1>8, <2>1 DEF Over
  <2>5. QED
        BY <1>8, <2>1, <2>2, <2>3, <2>4 DEF Control, Over
<1>10. ASSUME is_batch_mode PROVE Batch'
  <2>1. /\ wps = [w \in {"x", "key"} |-> NotWatched] /\ bps = {} /\ n = Unbounded
        BY <1>1, <1>10 DEF Inv, Batch
  <2>2. Watching = {}
        BY <2>1 DEF Watching, Exprs
  <2>3. ~Hit(dut')
        BY <2>1, <2>2 DEF Hit
  <2>4. wps' = [w \in {"x", "key"} |-> NotWatched] /\ bps' = {}
        BY <2>1, <2>2 DEF ExecOnce
  <2>5. n' = Unbounded /\ n' # 0
        BY <1>3, <2>1 DEF Unbounded
  <2>6. nemu_state' \in {"RUNNING"} \cup Over
        BY <1>5, <1>7, <2>3 DEF Over
  <2>7. at' = "return" => nemu_state' \in Over
    <3>1. CASE kind = "unmapped"
          BY <1>3, <3>1
    <3>2. CASE kind # "unmapped" /\ nemu_state' = "RUNNING"
          BY <1>3, <1>6, <2>5, <3>2 DEF Breaks
    <3>3. QED
          BY <2>6, <3>1, <3>2
  <2>8. QED
        BY <1>8, <2>4, <2>5, <2>7 DEF Batch, Over
<1>11. QED
      BY <1>3, <1>9, <1>10 DEF Batch

\* The comparison: without a skip the reference takes the same step, so it
\* differs exactly if the result is wrong; a skipped instruction is copied.
LEMMA ExecCompare ==
    ASSUME Inv, NEW kind \in Kinds, NEW val \in Vals, NEW err \in BOOLEAN,
           err => kind \in {"alu", "load"} /\ build.difftest, ExecOnce(kind, val, err)
    PROVE  Compare'
<1> DEFINE r == Semantics(dut, kind)
<1>1. /\ Types /\ Compare /\ at = "exec" /\ nemu_state \in {"RUNNING", "QUIT"}
      BY DEF Inv, ExecOnce, Control
<1>2. /\ dut \in Cpu /\ ref \in Cpu /\ build.difftest \in BOOLEAN /\ r \in Cpu
      /\ {wrong, peeked, is_skip_ref} \subseteq BOOLEAN
      BY <1>1, BuildFields, SemanticsFields DEF Types, TypeOK
<1>3. /\ dut' = Computed(kind, val, err)
      /\ ref' = IF ~build.difftest THEN ref
                ELSE IF Skips(kind) THEN [ref EXCEPT !.pc = dut'.pc, !.x = dut'.x]
                ELSE Semantics(ref, kind)
      /\ nemu_state' = Stopped(IF Aborts(kind, dut') THEN "ABORT" ELSE set_nemu_state(kind), Hit(dut'))
      /\ is_skip_ref' = (build.difftest /\ "key" \in Watching)
      BY <1>1, ExecForms
<1>4. /\ dut' \in Cpu /\ dut'.pc = r.pc /\ dut'.m = r.m
      /\ ~err /\ kind # "device" => dut' = r
      /\ kind = "device" => dut' = [r EXCEPT !.x = val]
      BY <1>2, <1>3, ComputedFacts
<1>5. /\ peeked' = (peeked \/ "key" \in Watching) /\ build' = build
      /\ wrong' = (wrong \/ dut' # [r EXCEPT !.x = IF kind = "device" THEN val ELSE @])
      /\ halt_ret' = CASE kind = "trap" -> dut.x [] kind = "invalid" -> -1 [] OTHER -> halt_ret
      BY <1>3 DEF ExecOnce, Computed
<1>6. wrong' => wrong \/ (err /\ dut'.x # r.x)
  <2> HIDE DEF r
  <2>1. CASE kind = "device"
        BY <1>4, <1>5, <2>1
  <2>2. CASE kind # "device"
    <3>1. [r EXCEPT !.x = IF kind = "device" THEN val ELSE @] = r
          BY <1>2, <2>2 DEF Cpu
    <3>2. wrong' => wrong \/ dut' # r
          BY <1>5, <3>1
    <3>3. dut' # r => err /\ dut'.x # r.x
          BY <1>2, <1>4, <2>2 DEF Cpu
    <3>4. QED
          BY <3>2, <3>3
  <2>3. QED
        BY <2>1, <2>2
<1>7. ~peeked => ~wrong /\ ~is_skip_ref
      BY <1>1 DEF Compare
<1>8. ~peeked' => ~is_skip_ref' /\ ~peeked /\ ~wrong /\ ~is_skip_ref
      BY <1>2, <1>3, <1>5, <1>7
<1>9. ~build'.difftest => ~wrong'
      BY <1>1, <1>2, <1>5, <1>6 DEF Compare
<1>10. ASSUME build.difftest, ~peeked' PROVE ref = dut
      BY <1>1, <1>8, <1>10 DEF Compare
<1>11. ASSUME build.difftest, ~peeked', ~wrong' PROVE ref' = dut'
  <2>1. ref = dut /\ (Skips(kind) <=> kind \in {"device", "trap", "invalid"})
        BY <1>8, <1>10, <1>11 DEF Skips, difftest_skip_ref
  <2>2. CASE ~Skips(kind)
    <3>1. dut' = r
      <4> HIDE DEF r
      <4>1. kind # "device"
            BY <2>1, <2>2
      <4>2. dut' = [r EXCEPT !.x = IF kind = "device" THEN val ELSE @]
            BY <1>5, <1>11
      <4>3. QED
            BY <1>2, <4>1, <4>2 DEF Cpu
    <3>2. QED
          BY <1>3, <1>11, <2>1, <2>2, <3>1
  <2>3. CASE Skips(kind)
    <3>1. ref' = [dut EXCEPT !.pc = dut'.pc, !.x = dut'.x]
          BY <1>3, <1>11, <2>1, <2>3
    <3>2. dut'.m = dut.m
          BY <1>2, <1>4, <2>1, <2>3, SemanticsFields
    <3>3. QED
          BY <1>2, <1>4, <3>1, <3>2 DEF Cpu
  <2>4. QED
        BY <2>2, <2>3
<1>12. ASSUME ~peeked' PROVE Aborts(kind, dut') => wrong'
  <2> SUFFICES ASSUME Aborts(kind, dut') PROVE wrong'
      OBVIOUS
  <2>1. build.difftest /\ ~Skips(kind) /\ ref = dut /\ ~(r.x = dut'.x /\ r.pc = dut'.pc)
        BY <1>10, <1>12 DEF Aborts, isa_difftest_checkregs
  <2>2. kind # "device"
        BY <2>1 DEF Skips, difftest_skip_ref
  <2> HIDE DEF r
  <2>3. [r EXCEPT !.x = IF kind = "device" THEN val ELSE @] = r
        BY <1>2, <2>2 DEF Cpu
  <2>4. dut' # r
        BY <2>1
  <2>5. wrong' = (wrong \/ dut' # r)
        BY <1>5, <2>3
  <2>6. QED
        BY <2>4, <2>5
<1>13. ASSUME ~peeked', wrong' PROVE nemu_state' = "ABORT"
  <2>1. err /\ dut'.x # r.x /\ build.difftest /\ kind \in {"alu", "load"} /\ ref = dut
        BY <1>6, <1>8, <1>10, <1>13
  <2>2. Aborts(kind, dut')
        BY <1>8, <1>13, <2>1 DEF Aborts, Skips, difftest_skip_ref, isa_difftest_checkregs
  <2>3. QED
        BY <1>3, <2>2 DEF Stopped
<1>14. NoFalseAlarm'
  <2>1. NoFalseAlarm' <=> (nemu_state' = "ABORT" /\ halt_ret' # -1 => wrong' \/ peeked')
        BY DEF NoFalseAlarm
  <2>2. ASSUME nemu_state' = "ABORT", halt_ret' # -1, ~peeked' PROVE wrong'
    <3>1. kind # "invalid"
          BY <1>5, <2>2
    <3>2. set_nemu_state(kind) # "ABORT"
          BY <1>1, <3>1 DEF set_nemu_state
    <3>3. Aborts(kind, dut')
          BY <1>3, <2>2, <3>2 DEF Stopped
    <3>4. QED
          BY <1>12, <2>2, <3>3
  <2>3. QED
        BY <2>1, <2>2
<1>15. QED
      BY <1>8, <1>9, <1>11, <1>13, <1>14, <1>5 DEF Compare

(***************************************************************************)
(* The host's events.                                                      *)
(***************************************************************************)
LEMMA PollStep ==
    ASSUME Inv, PollEvents
    PROVE  Inv'
<1> DEFINE h0 == [state |-> nemu_state, q |-> Queue, accepted |-> accepted]
           h == HandleEvents(h0, sdl)
<1>1. /\ Types /\ Control /\ Batch /\ Compare /\ KeysInOrder /\ at = "devices" /\ nemu_state = "RUNNING"
      /\ sdl \in Seq(Events) /\ accepted \in Seq(Keys) /\ taken \in Seq(Keys) /\ Queue \in Queues
      BY QueueTyped DEF Inv, PollEvents, Control, Types
<1>2. Good(h0, nemu_state, taken)
  <2>1. taken \o Pending(Queue) = accepted
        BY <1>1 DEF KeysInOrder
  <2>2. QED
        BY <1>1, <2>1 DEF Good
<1>3. Good(h, nemu_state, taken)
  <2> HIDE DEF h0
  <2>1. QED
        BY <1>1, <1>2, HandleEventsGood
<1>4. /\ sdl' = <<>> /\ nemu_state' = h.state /\ accepted' = h.accepted
      /\ key_queue' = h.q.key_queue /\ key_f' = h.q.key_f /\ key_r' = h.q.key_r
      /\ at' = (IF h.q.ok THEN LoopEnd ELSE "crashed")
      /\ UNCHANGED <<build, is_batch_mode, halt_ret, n, dut, ref, is_skip_ref, wps, bps, sent, taken,
                     peeked, wrong, ended, late>>
      BY DEF PollEvents, diff_vars
<1> HIDE DEF h0, h
<1>5. /\ h.state \in {"RUNNING", "QUIT"} /\ h.q \in Queues /\ h.accepted \in Seq(Keys)
      /\ h.q.ok => taken \o Pending(h.q) = h.accepted
      BY <1>1, <1>3 DEF Good
<1>6. h.q.key_queue \in [Ring -> Nat] /\ h.q.key_f \in Ring /\ h.q.key_r \in Ring /\ h.q.ok \in BOOLEAN
      BY <1>5, QueueFields
<1>7. /\ at' \in {"return", "exec", "crashed"} /\ (at' = "exec" => n # 0) /\ (at' = "return" => n = 0)
      BY <1>4, <1>6 DEF LoopEnd
<1>8. Types'
  <2>1. TypeOK'
        BY <1>1, <1>4, <1>5, <1>6, <1>7 DEF Types, TypeOK, Over, Ring
  <2>2. sdl' \in Seq(Events)
        BY <1>4, EmptySeq
  <2>3. QED
        BY <1>1, <1>4, <1>5, <1>6, <2>1, <2>2 DEF Types
<1>9. KeysInOrder'
  <2> SUFFICES ASSUME at' # "crashed" PROVE taken' \o Pending(Queue') = accepted'
      BY KeysPrimed
  <2>1. h.q.ok = TRUE
        BY <1>4, <1>6
  <2>2. h.q = [key_queue |-> h.q.key_queue, key_f |-> h.q.key_f, key_r |-> h.q.key_r, ok |-> h.q.ok]
        BY <1>5 DEF Queues
  <2>3. Queue' = h.q
        BY <1>4, <2>1, <2>2, KeysPrimed
  <2>4. QED
        BY <1>4, <1>5, <2>1, <2>3
<1>10. Control'
  <2>1. late = 0 /\ ~ended
        BY <1>1 DEF Control, Over
  <2>2. QED
        BY <1>4, <1>5, <1>7, <2>1 DEF Control
<1>11. Batch'
  <2> SUFFICES ASSUME is_batch_mode PROVE Batch'
      BY <1>4 DEF Batch
  <2>1. wps = [w \in {"x", "key"} |-> NotWatched] /\ bps = {} /\ n = Unbounded /\ n # 0
        BY <1>1 DEF Batch, Unbounded
  <2>2. QED
        BY <1>4, <1>7, <2>1 DEF Batch
<1>12. Compare'
  <2>1. wrong => peeked
        BY <1>1 DEF Compare
  <2>2. QED
        BY <1>1, <1>4, <1>5, <2>1 DEF Compare, NoFalseAlarm
<1>13. QED
      BY <1>8, <1>9, <1>10, <1>11, <1>12 DEF Inv

(***************************************************************************)
(* The other steps leave the machines alone; most leave the keys alone.    *)
(***************************************************************************)
LEMMA KeysKept ==
    ASSUME Types, KeysInOrder, at # "crashed", UNCHANGED key_vars
    PROVE  /\ key_queue' \in [Ring -> Nat] /\ key_f' \in Ring /\ key_r' \in Ring
           /\ accepted' \in Seq(Keys) /\ taken' \in Seq(Keys) /\ KeysInOrder'
<1>1. ReadKey(FALSE)
      BY DEF ReadKey
<1>2. QED
      BY <1>1, ReadKeyStep

\* Entering cpu_exec keeps the invariant.
LEMMA CpuExecStep ==
    ASSUME Inv, NEW k \in -1 .. MaxSi, CpuExec(k), at \in {"batch", "prompt"}, at = "batch" => k = -1,
           sdl' \in Seq(Events), UNCHANGED <<build, is_batch_mode, halt_ret, dut, ref, is_skip_ref, wps, bps,
                                             key_vars, peeked, wrong, ended, late>>
    PROVE  Inv'
<1>1. Types /\ Control /\ Batch /\ Compare /\ KeysInOrder
      BY DEF Inv
<1>2. /\ key_queue' \in [Ring -> Nat] /\ key_f' \in Ring /\ key_r' \in Ring
      /\ accepted' \in Seq(Keys) /\ taken' \in Seq(Keys) /\ KeysInOrder'
      BY <1>1, KeysKept
<1>3. \/ nemu_state \in Over /\ UNCHANGED <<nemu_state, n, at>>
      \/ /\ nemu_state \notin Over /\ nemu_state' = "RUNNING" /\ n' = k
         /\ at' = IF k = 0 THEN "return" ELSE "exec"
      BY DEF CpuExec
<1>4. Types'
  <2>1. TypeOK'
        BY <1>1, <1>2, <1>3 DEF Types, TypeOK, Ring
  <2>2. QED
        BY <1>1, <1>2, <2>1 DEF Types
<1>5. Control'
      BY <1>1, <1>3 DEF Control, Over
<1>6. Batch'
      BY <1>1, <1>3 DEF Batch, Over, Unbounded
<1>7. Compare'
      BY <1>1, <1>3 DEF Compare, NoFalseAlarm, Over
<1>8. QED
      BY <1>2, <1>4, <1>5, <1>6, <1>7 DEF Inv

\* A command that leaves the state of the loop alone.
LEMMA PromptStep ==
    ASSUME Inv, at = "prompt", UNCHANGED run_vars, NEW w \in {"x", "key"},
           \/ Peek(w)
           \/ UNCHANGED <<is_skip_ref, key_vars, peeked>>,
           sdl' \in Seq(Events), UNCHANGED <<build, is_batch_mode, wrong, ended, late, dut, ref>>
    PROVE  Inv'
<1>1. Types /\ Control /\ Batch /\ Compare /\ KeysInOrder
      BY DEF Inv
<1>2. /\ key_queue' \in [Ring -> Nat] /\ key_f' \in Ring /\ key_r' \in Ring
      /\ accepted' \in Seq(Keys) /\ taken' \in Seq(Keys) /\ KeysInOrder'
      BY <1>1, KeysKept, ReadKeyStep DEF Peek
<1>3. /\ is_skip_ref' \in BOOLEAN /\ peeked' \in BOOLEAN
      /\ ~peeked' => ~is_skip_ref' /\ ~peeked
  <2>1. build.difftest \in BOOLEAN /\ is_skip_ref \in BOOLEAN /\ peeked \in BOOLEAN /\ (~peeked => ~is_skip_ref)
        BY <1>1, BuildFields DEF Types, Compare
  <2>2. CASE Peek(w)
    <3>1. /\ is_skip_ref' = (is_skip_ref \/ (w = "key" /\ build.difftest))
          /\ peeked' = (peeked \/ w = "key")
          BY <2>2 DEF Peek
    <3>2. QED
          BY <2>1, <3>1
  <2>3. CASE is_skip_ref' = is_skip_ref /\ peeked' = peeked
        BY <2>1, <2>3
  <2>4. QED
        BY <2>2, <2>3
<1>4. UNCHANGED <<nemu_state, halt_ret, at, n>>
      BY DEF run_vars
<1>5. Types'
  <2>1. TypeOK'
        BY <1>1, <1>2, <1>4 DEF Types, TypeOK, Ring
  <2>2. QED
        BY <1>1, <1>2, <1>3, <2>1 DEF Types
<1>6. Control'
      BY <1>1, <1>4 DEF Control
<1>7. Batch'
      BY <1>1, <1>4 DEF Batch
<1>8. Compare'
      BY <1>1, <1>3, <1>4 DEF Compare, NoFalseAlarm
<1>9. QED
      BY <1>2, <1>5, <1>6, <1>7, <1>8 DEF Inv

\* A step between two places of the loop that ends an execution or NEMU.
LEMMA LeaveStep ==
    ASSUME Inv, UNCHANGED <<build, is_batch_mode, halt_ret, dut, ref, is_skip_ref, wps, bps,
                            key_vars, peeked, wrong, ended, late>>,
           sdl' \in Seq(Events), DeviceUpdateEarly \/ Return \/ CmdQ \/ EndOfInput
    PROVE  Inv'
<1>1. Types /\ Control /\ Batch /\ Compare /\ KeysInOrder /\ at # "crashed"
      BY DEF Inv, DeviceUpdateEarly, Return, CmdQ, EndOfInput, Command
<1>2. /\ key_queue' \in [Ring -> Nat] /\ key_f' \in Ring /\ key_r' \in Ring
      /\ accepted' \in Seq(Keys) /\ taken' \in Seq(Keys) /\ KeysInOrder'
      BY <1>1, KeysKept
<1>3. \/ /\ at = "devices" /\ at' = (IF n = 0 THEN "return" ELSE "exec") /\ nemu_state' = nemu_state /\ n' = n
      \/ /\ at = "return" /\ at' = (IF is_batch_mode THEN "exited" ELSE "prompt") /\ n' = 0
         /\ nemu_state' = IF nemu_state = "RUNNING" THEN "STOP" ELSE nemu_state
      \/ at = "prompt" /\ at' = "exited" /\ nemu_state' = "QUIT" /\ n' = n
      \/ at = "prompt" /\ at' = "exited" /\ nemu_state' = nemu_state /\ n' = n
      BY DEF DeviceUpdateEarly, Return, CmdQ, EndOfInput, Command, LoopEnd
<1>4. MaxSi \in Nat
      BY SizesAssumption
<1>5. Types'
  <2>1. TypeOK'
        BY <1>1, <1>2, <1>3, <1>4 DEF Types, TypeOK, Ring, Over
  <2>2. QED
        BY <1>1, <1>2, <2>1 DEF Types
<1>6. Control'
      BY <1>1, <1>3 DEF Control, Over
<1>7. Batch'
      BY <1>1, <1>3 DEF Batch, Over, Unbounded
<1>8. Compare'
      BY <1>1, <1>3 DEF Compare, NoFalseAlarm, Over
<1>9. QED
      BY <1>2, <1>5, <1>6, <1>7, <1>8 DEF Inv

\* An event of the host keeps the invariant.
LEMMA EventStep ==
    ASSUME Inv, NEW e \in Events, Event(e)
    PROVE  Inv'
<1>1. Types /\ Control /\ Batch /\ Compare /\ KeysInOrder /\ at # "crashed"
      BY DEF Inv, Event
<1>2. /\ key_queue' \in [Ring -> Nat] /\ key_f' \in Ring /\ key_r' \in Ring
      /\ accepted' \in Seq(Keys) /\ taken' \in Seq(Keys) /\ KeysInOrder'
      BY <1>1, KeysKept DEF Event
<1>3. sdl' \in Seq(Events)
      BY <1>1, AppendProperties DEF Event, Types
<1>4. UNCHANGED <<build, is_batch_mode, nemu_state, halt_ret, at, n, dut, ref, is_skip_ref, wps, bps,
                  peeked, wrong, ended, late>>
      BY DEF Event, run_vars, diff_vars
<1>5. Types'
  <2>1. TypeOK'
        BY <1>1, <1>2, <1>4 DEF Types, TypeOK, Ring
  <2>2. QED
        BY <1>1, <1>2, <1>3, <1>4, <2>1 DEF Types
<1>6. Control' /\ Batch' /\ Compare'
      BY <1>1, <1>4 DEF Control, Batch, Compare, NoFalseAlarm
<1>7. QED
      BY <1>2, <1>5, <1>6 DEF Inv

\* Every step keeps the invariant.
LEMMA InvNext == Inv /\ [Next]_vars => Inv'
<1> SUFFICES ASSUME Inv, [Next]_vars PROVE Inv'
    OBVIOUS
<1>0. sdl \in Seq(Events) /\ <<>> \in Seq(Events)
      BY EmptySeq DEF Inv, Types
<1>1. CASE SomeInstruction
  <2>1. PICK kind \in Kinds, val \in Vals, err \in BOOLEAN :
           (err => kind \in {"alu", "load"} /\ build.difftest) /\ ExecOnce(kind, val, err)
        BY <1>1 DEF SomeInstruction
  <2>2. Types' /\ KeysInOrder'
        BY <2>1, ExecTypes
  <2>3. Control' /\ Batch'
        BY <2>1, ExecControl
  <2>4. Compare'
        BY <2>1, ExecCompare
  <2>5. QED
        BY <2>2, <2>3, <2>4 DEF Inv
<1>2. CASE PollEvents
      BY <1>2, PollStep
<1>3. CASE DeviceUpdateEarly \/ Return \/ EndOfInput
      BY <1>0, <1>3, LeaveStep DEF DeviceUpdateEarly, Return, EndOfInput, diff_vars
<1>4. CASE CmdQ
      BY <1>0, <1>4, LeaveStep DEF CmdQ, Command
<1>5. CASE BatchC
  <2>1. Unbounded \in -1 .. MaxSi /\ Unbounded = -1
        BY SizesAssumption DEF Unbounded
  <2>2. QED
        BY <1>0, <1>5, <2>1, CpuExecStep DEF BatchC, diff_vars
<1>6. ASSUME NEW k \in {Unbounded} \cup 0 .. MaxSi, CmdRun(k) PROVE Inv'
  <2>1. k \in -1 .. MaxSi
        BY SizesAssumption DEF Unbounded
  <2>2. QED
        BY <1>0, <1>6, <2>1, CpuExecStep DEF CmdRun, Command
<1>7. ASSUME NEW e \in Events, Event(e) PROVE Inv'
      BY <1>7, EventStep
<1>8. ASSUME NEW w \in {"x", "key"}, CmdP(w) \/ CmdW(w) \/ CmdD(w) PROVE Inv'
      BY <1>0, <1>8, PromptStep DEF CmdP, CmdW, CmdD, Command
<1>9. ASSUME NEW b \in BreakPcs, CmdB(b) PROVE Inv'
      BY <1>0, <1>9, PromptStep DEF CmdB, Command
<1>10. CASE UNCHANGED vars
      BY <1>10 DEF vars, Inv, Types, TypeOK, Control, Batch, Compare, NoFalseAlarm, KeysInOrder, Queue, Pending,
                   __am_input_keybrd
<1>11. QED
      BY <1>1, <1>2, <1>3, <1>4, <1>5, <1>6, <1>7, <1>8, <1>9, <1>10 DEF Next

(***************************************************************************)
(* The results.                                                            *)
(***************************************************************************)
\* dut.c: for every program, configuration and history of events, a machine that
\* makes no mistake is never stopped by the comparison, and one that does is
\* stopped at the instruction, as long as the debugger read no device register.
THEOREM ComparisonIsRight == Spec => []ComparisonRight
<1>1. Inv => ComparisonRight
      BY DEF Inv, Compare, ComparisonRight, ErrorsFound
<1>2. QED
      BY InvInit, InvNext, <1>1, PTL DEF Spec

\* keyboard.c, device.c, cpu-exec.c, state.c: for every length of the queue no key
\* is lost, repeated or reordered without NEMU stopping, at most one instruction
\* follows a closed window, and the exit status is the verdict on the program.
THEOREM EventsAreRight == Spec => []EventsRight
<1>1. Inv => TypeOK /\ KeysInOrder /\ QuitRunsOneMore
      BY DEF Inv, Types, Control, QuitRunsOneMore
<1>2. Inv => ExitVerdict
  <2> SUFFICES ASSUME Inv PROVE ExitVerdict
      OBVIOUS
  <2>1. Types /\ Control /\ Batch /\ Compare
        BY DEF Inv
  <2>2. ASSUME at = "exited", nemu_state # "QUIT", ~peeked
        PROVE  is_exit_status_bad <=> ~(ended /\ halt_ret = 0 /\ ~wrong)
    <3>1. nemu_state = "END" <=> ended
          BY <2>1, <2>2 DEF Control
    <3>2. wrong => nemu_state = "ABORT"
          BY <2>1, <2>2 DEF Compare
    <3>3. QED
          BY <2>2, <3>1, <3>2 DEF is_exit_status_bad
  <2>3. at = "exited" /\ is_batch_mode => nemu_state \in Over
        BY <2>1 DEF Batch
  <2>4. QED
        BY <2>2, <2>3 DEF ExitVerdict
<1>3. Inv => EventsRight
      BY <1>1, <1>2 DEF EventsRight
<1>4. QED
      BY InvInit, InvNext, <1>3, PTL DEF Spec

(***************************************************************************)
(* The clocks.                                                             *)
(***************************************************************************)
\* What the first load has left while a read is under way.
UptimeInv ==
    /\ clock \in Nat /\ latch \in Nat /\ since \in Nat /\ first \in Nat /\ reading \in BOOLEAN
    /\ reading => /\ since <= clock
                  /\ IF time_port = "nemu" THEN latch = since /\ first = Hi(since) ELSE first = Lo(since)
    /\ UptimeRight

\* A time is its two words.
LEMMA TwoWords ==
    ASSUME NEW t \in Nat
    PROVE  /\ Hi(t) \in Nat /\ Lo(t) \in 0 .. TimeBase - 1
           /\ Hi(t) * TimeBase \in Nat /\ t = Hi(t) * TimeBase + Lo(t)
BY UptimeAssumption DEF Hi, Lo

\* A later time has a high word that is not smaller, and one that is larger is
\* larger by a whole low word.
LEMMA HighWords ==
    ASSUME NEW s \in Nat, NEW t \in Nat, s <= t, Hi(s) # Hi(t)
    PROVE  Hi(s) * TimeBase + TimeBase <= Hi(t) * TimeBase
<1>1. /\ Hi(s) \in Nat /\ Lo(s) \in 0 .. TimeBase - 1 /\ s = Hi(s) * TimeBase + Lo(s)
      /\ Hi(t) \in Nat /\ Lo(t) \in 0 .. TimeBase - 1 /\ t = Hi(t) * TimeBase + Lo(t)
      BY TwoWords
<1> DEFINE a == Hi(s)
           b == Hi(t)
<1> HIDE DEF a, b
<1>2. a \in Nat /\ b \in Nat /\ a # b /\ TimeBase \in Nat
      BY <1>1, UptimeAssumption DEF a, b
<1>3. CASE a < b
  <2>1. PICK d \in Nat : b = a + 1 + d
    <3>1. b - a - 1 \in Nat /\ b = a + 1 + (b - a - 1)
          BY <1>2, <1>3
    <3>2. QED
          BY <3>1
  <2>2. b * TimeBase = a * TimeBase + TimeBase + d * TimeBase /\ d * TimeBase >= 0
        BY <1>2, <2>1
  <2>3. a * TimeBase \in Nat /\ b * TimeBase \in Nat /\ d * TimeBase \in Nat
        BY <1>2, <2>1
  <2>4. QED
        BY <1>2, <2>2, <2>3 DEF a, b
<1>4. CASE b < a
  <2>1. PICK d \in Nat : a = b + 1 + d
    <3>1. a - b - 1 \in Nat /\ a = b + 1 + (a - b - 1)
          BY <1>2, <1>4
    <3>2. QED
          BY <3>1
  <2>2. a * TimeBase = b * TimeBase + TimeBase + d * TimeBase /\ d * TimeBase >= 0
        BY <1>2, <2>1
  <2>3. a * TimeBase \in Nat /\ b * TimeBase \in Nat /\ d * TimeBase \in Nat
        BY <1>2, <2>1
  <2>4. QED
        BY <1>1, <1>2, <2>2, <2>3 DEF a, b
<1>5. QED
      BY <1>2, <1>3, <1>4

\* The word from one time below the word of a later one: a time in between, or
\* ahead of the later one by less than a low word.
LEMMA MixedWords ==
    ASSUME NEW s \in Nat, NEW t \in Nat, s <= t
    PROVE  LET x == Hi(t) * TimeBase + Lo(s)
           IN  /\ x \in Nat
               /\ x \in s .. t \/ (Hi(s) # Hi(t) /\ x > t /\ x < t + TimeBase)
<1> DEFINE a == Hi(s) * TimeBase
           b == Hi(t) * TimeBase
           u == Lo(s)
           v == Lo(t)
<1>1. /\ a \in Nat /\ u \in 0 .. TimeBase - 1 /\ s = a + u
      /\ b \in Nat /\ v \in 0 .. TimeBase - 1 /\ t = b + v /\ TimeBase \in Nat
      BY TwoWords, UptimeAssumption
<1>2. Hi(s) = Hi(t) => a = b
      OBVIOUS
<1>3. Hi(s) # Hi(t) => a + TimeBase <= b
      BY HighWords
<1> HIDE DEF a, b, u, v
<1>4. b + u \in Nat /\ (b + u \in s .. t \/ (Hi(s) # Hi(t) /\ b + u > t /\ b + u < t + TimeBase))
      BY <1>1, <1>2, <1>3
<1>5. QED
      BY <1>4 DEF b, u

\* Each step keeps what the first load has left, and the second load makes a
\* time that is right.
LEMMA UptimeStep == UptimeInv /\ [TimeNext]_time_vars => UptimeInv'
<1> SUFFICES ASSUME UptimeInv, [TimeNext]_time_vars PROVE UptimeInv'
    OBVIOUS
<1>1. CASE UNCHANGED time_vars
      BY <1>1 DEF UptimeInv, UptimeRight, time_vars
<1>2. CASE Tick
  <2>1. UptimeRight'
        BY <1>2 DEF UptimeInv, UptimeRight, Tick
  <2>2. QED
        BY <1>2, <2>1 DEF UptimeInv, Tick
<1>3. CASE UptimeFirst
  <2>1. UptimeRight'
        BY <1>3 DEF UptimeInv, UptimeRight, UptimeFirst
  <2>2. Hi(clock) \in Nat /\ Lo(clock) \in Nat
        BY TwoWords DEF UptimeInv
  <2>3. QED
        BY <1>3, <2>1, <2>2 DEF UptimeInv, UptimeFirst, nemu_first, live_first, rtc_io_handler
<1>4. CASE UptimeSecond
  <2>1. /\ clock \in Nat /\ since \in Nat /\ since <= clock /\ first \in Nat /\ latch \in Nat
        /\ IF time_port = "nemu" THEN latch = since /\ first = Hi(since) ELSE first = Lo(since)
        BY <1>4 DEF UptimeInv, UptimeSecond
  <2>2. /\ clock' = clock /\ since' = since /\ first' = first /\ reading' = FALSE /\ time_port' = time_port
        BY <1>4 DEF UptimeSecond
  <2>3. CASE time_port = "nemu"
    <3>1. uptime' = [us |-> since, since |-> since, now |-> clock] /\ latch' = latch
          BY <1>4, <2>1, <2>3, TwoWords DEF UptimeSecond, nemu_second, rtc_io_handler
    <3>2. since \in {1 * t : t \in since .. clock}
          BY <2>1
    <3>3. UptimeRight'
          BY <2>2, <2>3, <3>1, <3>2 DEF UptimeRight
    <3>4. QED
          BY <2>1, <2>2, <3>1, <3>3 DEF UptimeInv
  <2>4. CASE time_port # "nemu"
    <3> DEFINE scale == IF time_port = "npc" THEN 7 ELSE 1
               x == Hi(clock) * TimeBase + Lo(since)
    <3>1. uptime' = [us |-> x * scale, since |-> since, now |-> clock] /\ latch' = latch
          BY <1>4, <2>1, <2>4 DEF UptimeSecond, live_second, npc_cycle_per_us, ysyxsoc_cycle_per_us
    <3>2. /\ x \in Nat
          /\ x \in since .. clock \/ (Hi(since) # Hi(clock) /\ x > clock /\ x < clock + TimeBase)
          BY <2>1, MixedWords
    <3>3. TimeBase \in Nat
          BY UptimeAssumption
    <3> HIDE DEF x
    <3>4. \/ x * scale \in {scale * t : t \in since .. clock}
          \/ Hi(since) # Hi(clock) /\ x * scale > scale * clock /\ x * scale < scale * (clock + TimeBase)
      <4>1. x * scale = scale * x
            BY <3>2
      <4>2. CASE x \in since .. clock
            BY <4>1, <4>2
      <4>3. CASE Hi(since) # Hi(clock) /\ x > clock /\ x < clock + TimeBase
            BY <2>1, <3>2, <3>3, <4>3
      <4>4. QED
            BY <3>2, <4>2, <4>3
    <3>5. scale = IF time_port = "npc" THEN npc_cycle_per_us ELSE 1
          BY DEF npc_cycle_per_us
    <3> HIDE DEF scale
    <3>6. UptimeRight'
          BY <2>2, <2>4, <3>1, <3>4, <3>5 DEF UptimeRight
    <3>7. QED
          BY <2>1, <2>2, <3>1, <3>6 DEF UptimeInv
  <2>5. QED
        BY <2>3, <2>4
<1>5. QED
      BY <1>1, <1>2, <1>3, <1>4 DEF TimeNext

\* timer.c: for words of every size, whatever time passes between the loads.
LEMMA UptimeStarts == ASSUME NEW p, TimeInit(p) PROVE UptimeInv
BY DEF TimeInit, UptimeInv, UptimeRight

(***************************************************************************)
(* The audio ring.                                                         *)
(***************************************************************************)
SB == CONFIG_SB_SIZE
Bytes == 0 .. SB - 1
\* The place k bytes after r, without the remainder.
After(r, k) == IF r + k < SB THEN r + k ELSE r + k - SB
\* Bytes taken out of the ring, and those in it that are not.
Taken == Len(played) - (IF cb = "copy" THEN stream ELSE 0)
Backlog == queued - Taken
Written == IF drv = "write" THEN i ELSE 0

AudioTypes ==
    /\ sbuf \in [Bytes -> Nat] /\ reg_wptr \in Bytes /\ reg_rptr \in Bytes
    /\ drv \in {"idle", "wait", "write"} /\ len \in 0 .. SB /\ wptr \in Bytes /\ i \in Nat
    /\ drv = "write" => i <= len
    /\ drv # "idle" => len > 0
    /\ cb \in {"idle", "copy"} /\ cb_wptr \in Bytes /\ cb_rptr \in Bytes /\ stream \in Nat
    /\ queued \in Nat /\ played \in Seq(Nat) /\ filled \in BOOLEAN
\* The ring between the pointers, the bytes the driver has written beyond wptr,
\* and the part of it that a callback has looked at.
RingInv ==
    /\ Taken \in Nat /\ Backlog \in 0 .. SB - 1
    /\ reg_wptr = After(reg_rptr, Backlog)
    /\ \A k \in 0 .. Backlog + Written - 1 : sbuf[After(reg_rptr, k)] = Taken + k + 1
DriverInv == drv = "write" => wptr = reg_wptr /\ Backlog + len <= SB
CallbackInv == cb = "copy" => cb_rptr = reg_rptr /\ available \in 0 .. Backlog /\ stream \in 0 .. to_copy
PlayedInv == \A k \in 1 .. Len(played) : played[k] = k
AudioInv == AudioTypes /\ (~filled => RingInv /\ DriverInv /\ CallbackInv /\ PlayedInv)

\* The size of the ring.
LEMMA Size == SB \in Nat \ {0} /\ Lens \subseteq 1 .. SB /\ AskLen \in Nat \ {0}
BY AudioAssumption DEF SB

\* The remainders of the code are the places of the ring.
LEMMA RingPlaces ==
    /\ \A r \in Bytes, k \in 0 .. SB : After(r, k) = (r + k) % SB /\ After(r, k) \in Bytes
    /\ \A r \in Bytes, k \in 0 .. SB - 1 : (After(r, k) + SB - r) % SB = k
    /\ \A r, w \in Bytes : (w + SB - r) % SB \in Bytes
    /\ \A r \in Bytes, j, k \in 0 .. SB - 1 : After(r, j) = After(r, k) => j = k
    /\ \A r \in Bytes, j \in 0 .. SB - 1, k \in 0 .. SB : j + k <= SB => After(After(r, j), k) = After(r, j + k)
<1>1. ASSUME NEW r \in Bytes, NEW k \in 0 .. SB PROVE After(r, k) = (r + k) % SB /\ After(r, k) \in Bytes
  <2>1. r + k \in 0 .. 2 * SB - 1
        BY Size DEF Bytes
  <2> DEFINE x == r + k
  <2> HIDE DEF x
  <2>2. x % SB = IF x < SB THEN x ELSE x - SB
        BY <2>1, Size, Remainder DEF x
  <2>3. QED
        BY <2>1, <2>2, Size DEF After, Bytes, x
<1>2. ASSUME NEW r \in Bytes, NEW k \in 0 .. SB - 1 PROVE (After(r, k) + SB - r) % SB = k
  <2> DEFINE x == After(r, k) + SB - r
  <2>1. x \in 0 .. 2 * SB - 1 /\ (IF x < SB THEN x ELSE x - SB) = k
        BY Size DEF After, Bytes
  <2> HIDE DEF x
  <2>2. x % SB = IF x < SB THEN x ELSE x - SB
        BY <2>1, Size, Remainder
  <2>3. QED
        BY <2>1, <2>2 DEF x
<1>3. ASSUME NEW r \in Bytes, NEW w \in Bytes PROVE (w + SB - r) % SB \in Bytes
  <2> DEFINE x == w + SB - r
  <2>1. x \in 0 .. 2 * SB - 1
        BY Size DEF Bytes
  <2> HIDE DEF x
  <2>2. x % SB = IF x < SB THEN x ELSE x - SB
        BY <2>1, Size, Remainder
  <2>3. x % SB \in Bytes
        BY <2>1, <2>2, Size DEF Bytes
  <2>4. QED
        BY <2>3 DEF x
<1>4. ASSUME NEW r \in Bytes, NEW j \in 0 .. SB - 1, NEW k \in 0 .. SB - 1, After(r, j) = After(r, k) PROVE j = k
      BY <1>4, Size DEF After, Bytes
<1>5. ASSUME NEW r \in Bytes, NEW j \in 0 .. SB - 1, NEW k \in 0 .. SB, j + k <= SB
      PROVE  After(After(r, j), k) = After(r, j + k)
      BY <1>5, Size DEF After, Bytes
<1>6. QED
      BY <1>1, <1>2, <1>3, <1>4, <1>5

\* What a callback copies.
LEMMA Copies ==
    ASSUME AudioTypes
    PROVE  available \in Bytes /\ to_copy \in 0 .. available
<1>1. available \in Bytes
      BY RingPlaces DEF AudioTypes, available, SB
<1>2. QED
      BY <1>1, Size DEF to_copy, Bytes

\* What the driver and the callback leave alone.
LEMMA AudioTypesStep == AudioInv /\ AudioNext => AudioTypes'
<1> SUFFICES ASSUME AudioTypes, AudioNext PROVE AudioTypes'
    BY DEF AudioInv
<1>1. CASE __am_audio_ctrl
      BY <1>1 DEF AudioTypes, __am_audio_ctrl, drv_vars, cb_vars
<1>2. ASSUME NEW size \in Lens, PlayEnter(size) PROVE AudioTypes'
      BY <1>2, Size DEF AudioTypes, PlayEnter, device_vars, cb_vars
<1>3. CASE PlayWait
      BY <1>3 DEF AudioTypes, PlayWait, device_vars, cb_vars
<1>4. CASE PlayByte
  <2> DEFINE place == IF i < CONFIG_SB_SIZE - wptr THEN wptr + i ELSE i - (CONFIG_SB_SIZE - wptr)
  <2>1. sbuf' = [sbuf EXCEPT ![place] = queued + i + 1] /\ i' = i + 1 /\ i < len
        BY <1>4 DEF PlayByte
  <2>2. queued + i + 1 \in Nat
        BY DEF AudioTypes
  <2> HIDE DEF place
  <2>3. sbuf' \in [Bytes -> Nat]
        BY <2>1, <2>2 DEF AudioTypes
  <2>4. QED
        BY <1>4, <2>1, <2>3 DEF AudioTypes, PlayByte, cb_vars
<1>5. CASE PlayPublish
  <2>1. (wptr + len) % SB \in Bytes
        BY RingPlaces DEF AudioTypes
  <2>2. QED
        BY <1>5, <2>1 DEF AudioTypes, PlayPublish, cb_vars, SB
<1>6. CASE CallbackEnter
      BY <1>6 DEF AudioTypes, CallbackEnter, device_vars, drv_vars
<1>7. CASE CallbackByte
  <2>1. available \in Bytes /\ to_copy \in 0 .. available
        BY Copies
  <2>2. (cb_rptr + stream) % SB \in Bytes
    <3>1. cb_rptr \in Bytes /\ stream \in 0 .. SB
          BY <1>7, <2>1, Size DEF AudioTypes, CallbackByte, Bytes
    <3>2. QED
          BY <3>1, RingPlaces
  <2>3. sbuf[(cb_rptr + stream) % SB] \in Nat
        BY <2>2 DEF AudioTypes
  <2>4. played' \in Seq(Nat)
        BY <1>7, <2>3 DEF AudioTypes, CallbackByte, SB
  <2>5. QED
        BY <1>7, <2>4 DEF AudioTypes, CallbackByte, device_vars, drv_vars
<1>8. CASE CallbackReturn
  <2>1. available \in Bytes /\ to_copy \in 0 .. available
        BY Copies
  <2>2. (cb_rptr + to_copy) % SB \in Bytes
    <3>1. cb_rptr \in Bytes /\ to_copy \in 0 .. SB
          BY <2>1, Size DEF AudioTypes, Bytes
    <3>2. QED
          BY <3>1, RingPlaces
  <2>3. QED
        BY <1>8, <2>2 DEF AudioTypes, CallbackReturn, drv_vars, SB
<1>9. QED
      BY <1>1, <1>2, <1>3, <1>4, <1>5, <1>6, <1>7, <1>8 DEF AudioNext, AudioDriver, sdl_audio_callback

\* The driver's steps up to the publication: they see the ring through has_room
\* and write beyond wptr.
LEMMA DriverStep ==
    ASSUME AudioInv, AudioTypes', ~filled', PlayWait \/ PlayByte \/ PlayPublish
    PROVE  (RingInv /\ DriverInv /\ CallbackInv /\ PlayedInv)'
<1>0. ~filled
      BY DEF PlayWait, PlayByte, PlayPublish
<1>1. AudioTypes /\ RingInv /\ DriverInv /\ CallbackInv /\ PlayedInv
      BY <1>0 DEF AudioInv
<1>2. /\ SB \in Nat \ {0} /\ Taken \in Nat /\ Backlog \in 0 .. SB - 1 /\ reg_rptr \in Bytes /\ len \in 0 .. SB
      /\ queued \in Nat /\ Backlog = queued - Taken /\ i \in Nat
      BY <1>1, Size DEF AudioTypes, RingInv, Backlog
<1>3. /\ cb' = cb /\ cb_wptr' = cb_wptr /\ cb_rptr' = cb_rptr /\ stream' = stream /\ played' = played
      /\ reg_rptr' = reg_rptr
      BY DEF PlayWait, PlayByte, PlayPublish, cb_vars, device_vars
<1>4. Taken' = Taken /\ available' = available /\ to_copy' = to_copy /\ PlayedInv'
      BY <1>1, <1>3 DEF Taken, available, to_copy, PlayedInv
<1>5. CASE PlayWait
  <2>1. /\ drv' = "write" /\ wptr' = reg_wptr /\ i' = 0 /\ len' = len /\ queued' = queued
        /\ sbuf' = sbuf /\ reg_wptr' = reg_wptr /\ drv = "wait"
        BY <1>5 DEF PlayWait, device_vars
  <2>2. reg_count = Backlog
        BY <1>1, <1>2, RingPlaces DEF reg_count, RingInv, SB
  <2>3. Backlog + len <= SB
        BY <1>2, <1>5, <2>2 DEF PlayWait, has_room, SB
  <2>4. Backlog' = Backlog /\ Written' = Written
        BY <1>4, <2>1 DEF Backlog, Written
  <2>5. RingInv'
        BY <1>1, <1>3, <1>4, <2>1, <2>4 DEF RingInv
  <2>6. DriverInv' /\ CallbackInv'
        BY <1>1, <1>3, <1>4, <2>1, <2>3, <2>4 DEF DriverInv, CallbackInv
  <2>7. QED
        BY <1>4, <2>5, <2>6
<1>6. CASE PlayByte
  <2> DEFINE place == IF i < CONFIG_SB_SIZE - wptr THEN wptr + i ELSE i - (CONFIG_SB_SIZE - wptr)
  <2>1. /\ drv = "write" /\ drv' = drv /\ wptr' = wptr /\ i' = i + 1 /\ i < len /\ len' = len
        /\ queued' = queued /\ sbuf' = [sbuf EXCEPT ![place] = queued + i + 1] /\ reg_wptr' = reg_wptr
        BY <1>6 DEF PlayByte
  <2>2. wptr = After(reg_rptr, Backlog) /\ Backlog + len <= SB
        BY <1>1, <2>1 DEF DriverInv, RingInv
  <2>3. place = After(reg_rptr, Backlog + i)
    <3>1. place = After(wptr, i)
          BY <1>1, <1>2 DEF After, SB, AudioTypes, Bytes
    <3>2. i \in 0 .. SB /\ Backlog + i <= SB
          BY <1>2, <2>1, <2>2
    <3>3. After(After(reg_rptr, Backlog), i) = After(reg_rptr, Backlog + i)
          BY <1>2, <3>2, RingPlaces
    <3>4. QED
          BY <2>2, <3>1, <3>3
  <2> HIDE DEF place
  <2>4. Backlog' = Backlog /\ Written = i /\ Written' = i + 1
        BY <1>4, <2>1 DEF Backlog, Written
  <2>5. ASSUME NEW k \in 0 .. Backlog + i PROVE sbuf'[After(reg_rptr, k)] = Taken + k + 1
    <3>1. k \in 0 .. SB - 1 /\ Backlog + i \in 0 .. SB - 1
          BY <1>2, <2>1, <2>2
    <3>2. After(reg_rptr, k) \in Bytes /\ (After(reg_rptr, k) = place => k = Backlog + i)
      <4>1. k \in 0 .. SB
            BY <1>2, <3>1
      <4>2. After(reg_rptr, k) \in Bytes
            BY <1>2, <4>1, RingPlaces
      <4>3. After(reg_rptr, k) = After(reg_rptr, Backlog + i) => k = Backlog + i
            BY <1>2, <3>1, RingPlaces
      <4>4. QED
            BY <2>3, <4>2, <4>3
    <3>3. CASE k = Backlog + i
      <4>1. sbuf'[After(reg_rptr, k)] = queued + i + 1
            BY <1>1, <2>1, <2>3, <3>2, <3>3 DEF AudioTypes
      <4>2. QED
            BY <1>2, <3>3, <4>1
    <3>4. CASE k # Backlog + i
      <4>1. sbuf'[After(reg_rptr, k)] = sbuf[After(reg_rptr, k)]
            BY <1>1, <2>1, <3>2, <3>4 DEF AudioTypes
      <4>2. k \in 0 .. Backlog + Written - 1
            BY <1>2, <2>4, <3>4
      <4>3. QED
            BY <1>1, <4>1, <4>2 DEF RingInv
    <3>5. QED
          BY <3>3, <3>4
  <2>6. 0 .. (Backlog + Written - 1)' = 0 .. Backlog + i
        BY <1>2, <2>4
  <2>7. RingInv'
        BY <1>1, <1>3, <1>4, <2>1, <2>4, <2>5, <2>6 DEF RingInv
  <2>8. DriverInv' /\ CallbackInv'
        BY <1>1, <1>3, <1>4, <2>1, <2>4 DEF DriverInv, CallbackInv
  <2>9. QED
        BY <1>4, <2>7, <2>8
<1>7. CASE PlayPublish
  <2>1. /\ drv = "write" /\ i = len /\ reg_wptr' = (wptr + len) % SB /\ drv' = "idle" /\ queued' = queued + len
        /\ reg_wptr' # reg_rptr /\ sbuf' = sbuf
        BY <1>7 DEF PlayPublish, SB
  <2>2. wptr = After(reg_rptr, Backlog) /\ Backlog + len <= SB /\ wptr \in Bytes
        BY <1>1, <2>1 DEF DriverInv, RingInv, AudioTypes
  <2>3. reg_wptr' = After(reg_rptr, Backlog + len)
    <3>1. reg_wptr' = After(wptr, len)
          BY <1>2, <2>1, <2>2, RingPlaces
    <3>2. QED
          BY <1>2, <2>2, <3>1, RingPlaces
  <2>4. Backlog + len # SB
        BY <1>2, <2>1, <2>3 DEF After, Bytes
  <2>5. Backlog' = Backlog + len /\ Written = len /\ Written' = 0
        BY <1>2, <1>4, <2>1 DEF Backlog, Written
  <2>6. Backlog' \in 0 .. SB - 1
        BY <1>2, <2>2, <2>4, <2>5
  <2>7. (Backlog + Written - 1)' = Backlog + Written - 1
        BY <1>2, <2>5
  <2>8. RingInv'
        BY <1>1, <1>3, <1>4, <2>1, <2>3, <2>5, <2>6, <2>7 DEF RingInv
  <2>9. DriverInv' /\ CallbackInv'
        BY <1>1, <1>2, <1>3, <1>4, <2>1, <2>5 DEF DriverInv, CallbackInv
  <2>10. QED
        BY <1>4, <2>8, <2>9
<1>8. QED
      BY <1>5, <1>6, <1>7

\* The callback's steps: it looks at the pointers once, plays from the bytes
\* between them and moves rptr past what it played.
LEMMA CallbackStep ==
    ASSUME AudioInv, AudioTypes', ~filled', CallbackEnter \/ CallbackByte \/ CallbackReturn
    PROVE  (RingInv /\ DriverInv /\ CallbackInv /\ PlayedInv)'
<1>0. ~filled
      BY DEF CallbackEnter, CallbackByte, CallbackReturn, drv_vars
<1>1. AudioTypes /\ RingInv /\ DriverInv /\ CallbackInv /\ PlayedInv
      BY <1>0 DEF AudioInv
<1>2. /\ SB \in Nat \ {0} /\ Taken \in Nat /\ Backlog \in 0 .. SB - 1 /\ reg_rptr \in Bytes /\ len \in 0 .. SB
      /\ queued \in Nat /\ Backlog = queued - Taken /\ i \in Nat /\ stream \in Nat
      BY <1>1, Size DEF AudioTypes, RingInv, Backlog
<1>3. /\ drv' = drv /\ len' = len /\ wptr' = wptr /\ i' = i /\ queued' = queued /\ sbuf' = sbuf /\ reg_wptr' = reg_wptr
      BY DEF CallbackEnter, CallbackByte, CallbackReturn, drv_vars, device_vars
<1>4. Written' = Written /\ Written \in 0 .. SB /\ Backlog + Written <= SB
      BY <1>1, <1>2, <1>3 DEF Written, DriverInv, AudioTypes
<1>a. available \in Bytes /\ to_copy \in 0 .. available
      BY <1>1, Copies
<1>b. Len(played) \in Nat
      BY <1>1 DEF AudioTypes
<1>5. available \in Bytes /\ to_copy \in 0 .. available /\ Len(played) \in Nat
      BY <1>a, <1>b
<1>6. CASE CallbackEnter
  <2>1. /\ cb = "idle" /\ cb' = "copy" /\ cb_wptr' = reg_wptr /\ cb_rptr' = reg_rptr /\ stream' = 0 /\ played' = played
        /\ reg_rptr' = reg_rptr
        BY <1>6 DEF CallbackEnter, device_vars
  <2>2. Taken' = Taken /\ Backlog' = Backlog
        BY <1>3, <1>5, <2>1 DEF Taken, Backlog
  <2>3. available' = Backlog
    <3>1. available' = (reg_wptr + SB - reg_rptr) % SB
          BY <2>1 DEF available, SB
    <3>2. QED
          BY <1>1, <1>2, <3>1, RingPlaces DEF RingInv
  <2>4. to_copy' \in 0 .. available'
        BY Size, <1>2, <2>3 DEF to_copy
  <2>5. RingInv' /\ PlayedInv'
        BY <1>1, <1>3, <1>4, <2>1, <2>2 DEF RingInv, PlayedInv
  <2>6. DriverInv' /\ CallbackInv'
        BY <1>1, <1>2, <1>3, <2>1, <2>2, <2>3, <2>4 DEF DriverInv, CallbackInv
  <2>7. QED
        BY <2>5, <2>6
<1>7. CASE CallbackByte
  <2>1. /\ cb = "copy" /\ cb' = cb /\ stream < to_copy /\ stream' = stream + 1
        /\ played' = Append(played, sbuf[(cb_rptr + stream) % SB])
        /\ cb_wptr' = cb_wptr /\ cb_rptr' = cb_rptr /\ reg_rptr' = reg_rptr
        BY <1>7 DEF CallbackByte, device_vars, SB
  <2>2. cb_rptr = reg_rptr /\ available \in 0 .. Backlog
        BY <1>1, <2>1 DEF CallbackInv
  <2>3. stream \in 0 .. Backlog + Written - 1 /\ stream \in 0 .. SB
        BY <1>2, <1>4, <1>5, <2>1, <2>2
  <2>4. sbuf[(cb_rptr + stream) % SB] = Len(played) + 1
    <3>1. After(reg_rptr, stream) = (cb_rptr + stream) % SB
          BY <1>2, <2>2, <2>3, RingPlaces
    <3>2. sbuf[After(reg_rptr, stream)] = Taken + stream + 1
          BY <1>1, <2>3 DEF RingInv
    <3>3. Taken + stream = Len(played)
          BY <1>2, <1>5, <2>1 DEF Taken
    <3>4. QED
          BY <3>1, <3>2, <3>3
  <2>5. Len(played') = Len(played) + 1 /\ \A k \in 1 .. Len(played) + 1 : played'[k] = k
    <3> DEFINE x == sbuf[(cb_rptr + stream) % SB]
    <3> HIDE DEF x
    <3>1. played' = Append(played, x) /\ x = Len(played) + 1 /\ played \in Seq(Nat) /\ x \in Nat
          BY <1>1, <1>5, <2>1, <2>4 DEF AudioTypes, x
    <3>2. QED
          BY <1>1, <3>1 DEF PlayedInv
  <2>6. Taken' = Taken /\ Backlog' = Backlog /\ available' = available /\ to_copy' = to_copy
        BY <1>2, <1>3, <1>5, <2>1, <2>5 DEF Taken, Backlog, available, to_copy
  <2>7. RingInv' /\ PlayedInv'
        BY <1>1, <1>3, <1>4, <2>1, <2>5, <2>6 DEF RingInv, PlayedInv
  <2>8. DriverInv' /\ CallbackInv'
        BY <1>1, <1>2, <1>3, <1>5, <2>1, <2>6 DEF DriverInv, CallbackInv
  <2>9. QED
        BY <2>7, <2>8
<1>8. CASE CallbackReturn
  <2>1. /\ cb = "copy" /\ cb' = "idle" /\ stream = to_copy /\ reg_rptr' = (cb_rptr + to_copy) % SB
        /\ played' = played
        BY <1>8 DEF CallbackReturn, SB
  <2>2. cb_rptr = reg_rptr /\ available \in 0 .. Backlog
        BY <1>1, <2>1 DEF CallbackInv
  <2> DEFINE gone == to_copy
  <2>3. gone \in 0 .. Backlog /\ gone \in 0 .. SB - 1 /\ gone \in 0 .. SB
        BY <1>2, <1>5, <2>2
  <2>4. reg_rptr' = After(reg_rptr, gone)
        BY <1>2, <2>1, <2>2, <2>3, RingPlaces
  <2>5. Taken' = Taken + gone /\ Backlog' = Backlog - gone
        BY <1>2, <1>3, <1>5, <2>1 DEF Taken, Backlog
  <2> HIDE DEF gone
  <2>6. ASSUME NEW k \in 0 .. SB - gone PROVE After(reg_rptr', k) = After(reg_rptr, gone + k)
    <3>1. k \in 0 .. SB /\ gone + k <= SB
          BY <1>2, <2>3
    <3>2. After(After(reg_rptr, gone), k) = After(reg_rptr, gone + k)
          BY <1>2, <2>3, <3>1, RingPlaces
    <3>3. QED
          BY <2>4, <3>2
  <2>7. ASSUME NEW k \in 0 .. (Backlog - gone) + Written - 1 PROVE sbuf[After(reg_rptr', k)] = (Taken + gone) + k + 1
    <3>1. k \in 0 .. SB - gone /\ gone + k \in 0 .. Backlog + Written - 1
          BY <1>2, <1>4, <2>3
    <3>2. sbuf[After(reg_rptr, gone + k)] = Taken + (gone + k) + 1
          BY <1>1, <3>1 DEF RingInv
    <3>3. QED
          BY <1>2, <2>3, <2>6, <3>1, <3>2
  <2>8. reg_wptr = After(reg_rptr', Backlog - gone)
    <3>1. Backlog - gone \in 0 .. SB - gone /\ gone + (Backlog - gone) = Backlog
          BY <1>2, <2>3
    <3>2. After(reg_rptr', Backlog - gone) = After(reg_rptr, gone + (Backlog - gone))
          BY <2>6, <3>1
    <3>3. QED
          BY <1>1, <3>1, <3>2 DEF RingInv
  <2>9. Taken + gone \in Nat /\ Backlog - gone \in 0 .. SB - 1
        BY <1>2, <2>3
  <2>10. RingInv' /\ PlayedInv'
        BY <1>1, <1>3, <1>4, <2>1, <2>5, <2>7, <2>8, <2>9 DEF RingInv, PlayedInv
  <2>11. DriverInv' /\ CallbackInv'
        BY <1>1, <1>2, <1>3, <2>1, <2>3, <2>5 DEF DriverInv, CallbackInv
  <2>12. QED
        BY <2>10, <2>11
<1>9. QED
      BY <1>6, <1>7, <1>8

\* Every step keeps the ring in order.
LEMMA AudioStep == AudioInv /\ [AudioNext]_audio_vars => AudioInv'
<1> SUFFICES ASSUME AudioInv, [AudioNext]_audio_vars PROVE AudioInv'
    OBVIOUS
<1>1. CASE UNCHANGED audio_vars
  <2>1. AudioTypes'
        BY <1>1 DEF AudioInv, AudioTypes, audio_vars
  <2>2. Taken' = Taken /\ Backlog' = Backlog /\ Written' = Written /\ available' = available /\ to_copy' = to_copy
        BY <1>1 DEF Taken, Backlog, Written, available, to_copy, audio_vars
  <2>3. QED
        BY <1>1, <2>1, <2>2 DEF AudioInv, RingInv, DriverInv, CallbackInv, PlayedInv, audio_vars
<1>2. CASE AudioNext
  <2>1. AudioTypes'
        BY <1>2, AudioTypesStep
  <2>2. SUFFICES ASSUME ~filled' PROVE (RingInv /\ DriverInv /\ CallbackInv /\ PlayedInv)'
        BY <2>1 DEF AudioInv
  <2>3. CASE AudioDriver
        BY <2>1, <2>2, <2>3, DriverStep DEF AudioDriver
  <2>4. CASE sdl_audio_callback
        BY <2>1, <2>2, <2>4, CallbackStep DEF sdl_audio_callback
  <2>5. CASE __am_audio_ctrl \/ \E size \in Lens : PlayEnter(size)
    <3>1. /\ sbuf' = sbuf /\ reg_wptr' = reg_wptr /\ reg_rptr' = reg_rptr /\ i' = i /\ queued' = queued /\ filled' = filled
          /\ wptr' = wptr /\ cb' = cb /\ cb_wptr' = cb_wptr /\ cb_rptr' = cb_rptr /\ stream' = stream /\ played' = played
          /\ drv # "write" /\ drv' # "write"
          BY <2>5 DEF __am_audio_ctrl, PlayEnter, device_vars, drv_vars, cb_vars
    <3>2. Taken' = Taken /\ Backlog' = Backlog /\ Written' = Written /\ available' = available /\ to_copy' = to_copy
          BY <3>1 DEF Taken, Backlog, Written, available, to_copy
    <3>3. QED
          BY <2>2, <3>1, <3>2 DEF AudioInv, RingInv, DriverInv, CallbackInv, PlayedInv
  <2>6. QED
        BY <1>2, <2>3, <2>4, <2>5 DEF AudioNext
<1>3. QED
      BY <1>1, <1>2

\* The ring starts empty.
LEMMA AudioStarts == AudioInit => AudioInv
<1> SUFFICES ASSUME AudioInit PROVE AudioInv
    OBVIOUS
<1>1. AudioTypes
      BY Size DEF AudioInit, AudioTypes, Bytes, SB
<1>2. Taken = 0 /\ Backlog = 0 /\ Written = 0 /\ Len(played) = 0
  <2>1. played = <<>> /\ Len(<<>>) = 0
        BY DEF AudioInit
  <2>2. Len(played) = 0 /\ cb = "idle" /\ queued = 0 /\ drv = "idle"
        BY <2>1 DEF AudioInit
  <2>3. QED
        BY <2>2 DEF Taken, Backlog, Written
<1>3. RingInv
      BY <1>2, Size DEF AudioInit, RingInv, After
<1>4. QED
      BY <1>1, <1>2, <1>3 DEF AudioInit, AudioInv, DriverInv, CallbackInv, PlayedInv

\* What is in order is what the property asks for.
LEMMA AudioInvRight == AudioInv => AudioInOrder
<1> SUFFICES ASSUME AudioInv, ~filled PROVE Len(played) <= queued /\ \A k \in DOMAIN played : played[k] = k
    BY DEF AudioInOrder
<1>1. AudioTypes /\ RingInv /\ CallbackInv /\ PlayedInv
      BY DEF AudioInv
<1>2. Len(played) \in Nat /\ DOMAIN played = 1 .. Len(played) /\ queued \in Nat /\ stream \in Nat
      BY <1>1 DEF AudioTypes
<1>3. to_copy \in 0 .. available
      BY <1>1, Copies
<1>4. Len(played) <= queued
  <2>1. CASE cb = "copy"
        BY <1>1, <1>2, <1>3, <2>1 DEF RingInv, CallbackInv, Taken, Backlog
  <2>2. CASE cb # "copy"
        BY <1>1, <1>2, <2>2 DEF RingInv, Taken, Backlog
  <2>3. QED
        BY <2>1, <2>2
<1>5. QED
      BY <1>1, <1>2, <1>4 DEF PlayedInv

(***************************************************************************)
(* The threads.                                                            *)
(***************************************************************************)
Stack(t) == StackWords * t .. kstack_end(t) - 1
Depths(t) == kstack_end(t) - MaxDepth .. kstack_end(t)
GPRs == 1 .. NR_REGS - 1
\* What a thread will see that is entered through the context at c.
Resumed(m, c, p, t) == LET s == PopContext(m, c, p) IN View(s.regs, s.pc, s.mstatus, m, t)

CteTypes ==
    /\ port \in Ports /\ thread \in Threads /\ steps \in Int
    /\ regs \in [GPRs -> Int] /\ pc \in Int /\ mstatus \in Int /\ stack \in [Memory -> Int]
    /\ pcb \in [Threads -> Int] /\ own = [t \in Threads |-> own[t]]
    /\ regs[SP] \in Depths(thread)
    /\ \A t \in Threads \ {thread} : pcb[t] + port.context_size \in Depths(t)
Suspended == \A t \in Threads \ {thread} : own[t] = Resumed(stack, pcb[t], port, t)
CteInv == CteTypes /\ ThreadsUndisturbed /\ Suspended

\* The constants, and the frame: what trap.S reserves and what it fills of it.
LEMMA Frames ==
    /\ NThreads \in Nat \ {0} /\ MaxDepth \in Nat \ {0} /\ StackWords \in Nat /\ StackWords >= 10 + MaxDepth
    /\ SP = 2 /\ A5 = 5 /\ A0 = 3 /\ T1 = 4 /\ NR_REGS = 6 /\ Saved = {1, 3, 4, 5} /\ GPRs = 1 .. 5
    /\ OFFSET_CAUSE = 6 /\ OFFSET_STATUS = 7 /\ OFFSET_EPC = 8 /\ ContextWords = 10
    /\ \A p \in Ports : p.context_size \in {9, 10}
BY CteAssumption DEF ContextWords, NR_REGS, SP, A5, A0, T1, RA, Saved, GPRs, OFFSET_CAUSE, OFFSET_STATUS, OFFSET_EPC,
       Ports, nemu_trap, npc_trap, ysyxsoc_trap

\* Stacks lie in memory, side by side.
LEMMA Stacks ==
    /\ \A t \in Threads : /\ kstack_end(t) \in Nat /\ StackWords * t = kstack_end(t) - StackWords /\ StackWords * t \in Nat
                          /\ Stack(t) \subseteq Memory
    /\ \A t, u \in Threads : t # u => Stack(t) \cap Stack(u) = {}
<1>1. /\ NThreads \in Nat \ {0} /\ StackWords \in Nat
      BY Frames
<1>2. ASSUME NEW x \in Nat, NEW y \in Nat, x <= y PROVE StackWords * x <= StackWords * y
  <2>1. PICK d \in Nat : y = x + d
    <3>1. y - x \in Nat /\ y = x + (y - x)
          BY <1>2
    <3>2. QED
          BY <3>1
  <2>2. StackWords * y = StackWords * x + StackWords * d
        BY <1>1, <2>1
  <2>3. StackWords * d \in Nat /\ StackWords * x \in Nat
        BY <1>1, <2>1
  <2>4. QED
        BY <2>2, <2>3
<1>3. ASSUME NEW t \in Threads
      PROVE  /\ t \in Nat /\ t + 1 \in Nat /\ t + 1 <= NThreads
             /\ kstack_end(t) \in Nat /\ StackWords * t = kstack_end(t) - StackWords /\ StackWords * t \in Nat
  <2>1. t \in Nat /\ t + 1 \in Nat /\ t + 1 <= NThreads
        BY <1>1 DEF Threads
  <2>2. StackWords * (t + 1) = StackWords * t + StackWords /\ StackWords * t \in Nat
        BY <1>1, <2>1
  <2>3. QED
        BY <1>1, <2>1, <2>2 DEF kstack_end
<1>4. ASSUME NEW t \in Threads PROVE Stack(t) \subseteq Memory
  <2>1. kstack_end(t) <= StackWords * NThreads
        BY <1>1, <1>2, <1>3 DEF kstack_end
  <2>2. kstack_end(NThreads - 1) = StackWords * NThreads
    <3>1. (NThreads - 1) + 1 = NThreads
          BY <1>1
    <3>2. QED
          BY <3>1 DEF kstack_end
  <2>3. StackWords * NThreads \in Nat
        BY <1>1
  <2>4. Memory = 0 .. StackWords * NThreads - 1
        BY <2>2 DEF Memory
  <2> DEFINE lo == StackWords * t
             hi == kstack_end(t)
             top == StackWords * NThreads
  <2>5. lo \in Nat /\ hi \in Nat /\ top \in Nat /\ hi <= top
        BY <1>3, <2>1, <2>3
  <2> HIDE DEF lo, hi, top
  <2>6. lo .. hi - 1 \subseteq 0 .. top - 1
        BY <2>5
  <2>7. QED
        BY <2>4, <2>6 DEF Stack, lo, hi, top
<1>5. ASSUME NEW t \in Threads, NEW u \in Threads, t < u PROVE Stack(t) \cap Stack(u) = {}
  <2>1. kstack_end(t) <= StackWords * u
    <3>1. t + 1 <= u
          BY <1>3, <1>5
    <3>2. QED
          BY <1>2, <1>3, <3>1 DEF kstack_end
  <2> DEFINE a == StackWords * t
             b == kstack_end(t)
             c == StackWords * u
             d == kstack_end(u)
  <2>2. a \in Nat /\ b \in Nat /\ c \in Nat /\ d \in Nat /\ b <= c
        BY <1>3, <2>1
  <2> HIDE DEF a, b, c, d
  <2>3. (a .. b - 1) \cap (c .. d - 1) = {}
        BY <2>2
  <2>4. QED
        BY <2>3 DEF Stack, a, b, c, d
<1>6. ASSUME NEW t \in Threads, NEW u \in Threads, t # u PROVE Stack(t) \cap Stack(u) = {}
  <2>1. t < u \/ u < t
        BY <1>3, <1>6
  <2>2. QED
        BY <1>5, <2>1
<1>7. QED
      BY <1>3, <1>4, <1>6

\* A frame whose end is within the depth of a stack lies in that stack.
LEMMA FrameInStack ==
    ASSUME NEW p \in Ports, NEW t \in Threads, NEW c \in Int, c + p.context_size \in Depths(t)
    PROVE  /\ \A k \in 0 .. 8 : c + k \in Stack(t)
           /\ \A a \in c + p.context_size .. kstack_end(t) - 1 : a \in Stack(t)
           /\ c + p.context_size - 1 \in Stack(t)
<1> DEFINE e == kstack_end(t)
           w == p.context_size
<1>1. /\ MaxDepth \in Nat /\ StackWords \in Nat /\ StackWords >= 10 + MaxDepth /\ w \in {9, 10}
      BY Frames
<1>2. e \in Nat /\ Stack(t) = e - StackWords .. e - 1
      BY Stacks DEF Stack
<1>3. c + w \in e - MaxDepth .. e
      BY DEF Depths
<1> HIDE DEF e, w
<1>4. /\ \A k \in 0 .. 8 : c + k \in e - StackWords .. e - 1
      /\ \A a \in c + w .. e - 1 : a \in e - StackWords .. e - 1
      /\ c + w - 1 \in e - StackWords .. e - 1
      BY <1>1, <1>2, <1>3
<1>5. QED
      BY <1>2, <1>4 DEF e, w

\* What a suspended thread will see depends on its own stack only.
LEMMA ResumesFromStack ==
    ASSUME NEW p \in Ports, NEW t \in Threads, NEW c \in Int, c + p.context_size \in Depths(t),
           NEW m, NEW o, \A a \in Stack(t) : m[a] = o[a]
    PROVE  Resumed(m, c, p, t) = Resumed(o, c, p, t)
<1>1. /\ \A k \in 0 .. 8 : m[c + k] = o[c + k]
      /\ \A a \in c + p.context_size .. kstack_end(t) - 1 : m[a] = o[a]
      BY FrameInStack
<1>2. PopContext(m, c, p) = PopContext(o, c, p)
      BY <1>1, Frames DEF PopContext
<1>3. PopContext(o, c, p).regs[SP] = c + p.context_size
      BY Frames DEF PopContext
<1> DEFINE s == PopContext(o, c, p)
<1> HIDE DEF s
<1>4. View(s.regs, s.pc, s.mstatus, m, t) = View(s.regs, s.pc, s.mstatus, o, t)
      BY <1>1, <1>3 DEF View, s
<1>5. QED
      BY <1>2, <1>4 DEF Resumed, s

\* The trap code fills the frame below sp and leaves everything else alone; the
\* handler changes the saved pc if the thread yields.
LEMMA TrapFrame ==
    ASSUME CteTypes, NEW x \in Int
    PROVE  LET r == [regs EXCEPT ![A5] = x]
               c == regs[SP] - port.context_size
               h == __am_irq_handle(PushContext(stack, r, mstatus, pc, port), c)
               s == PopContext(h.m, c, port)
           IN  /\ r \in [GPRs -> Int] /\ c \in Int /\ c + port.context_size = regs[SP]
               /\ h.m \in [Memory -> Int]
               /\ \A a \in Memory \ Stack(thread) : h.m[a] = stack[a]
               /\ s.regs = r /\ s.mstatus = mstatus /\ s.pc = IF x = MinusOne THEN pc + 4 ELSE pc
<1> DEFINE r == [regs EXCEPT ![A5] = x]
           c == regs[SP] - port.context_size
           m == PushContext(stack, r, mstatus, pc, port)
           h == __am_irq_handle(m, c)
           s == PopContext(h.m, c, port)
<1>1. /\ regs \in [1 .. 5 -> Int] /\ regs[SP] \in Int /\ pc \in Int /\ mstatus \in Int /\ stack \in [Memory -> Int]
      /\ port \in Ports /\ thread \in Threads /\ port.context_size \in {9, 10}
      BY Frames, Stacks DEF CteTypes
<1>2. r \in [1 .. 5 -> Int] /\ r[SP] = regs[SP] /\ r[5] = x
      BY <1>1, Frames
<1>3. c \in Int /\ c + port.context_size = regs[SP] /\ c + port.context_size \in Depths(thread)
      BY <1>1 DEF CteTypes
<1> HIDE DEF r, c
<1>4. m = [a \in Memory |-> CASE a - c \in {1, 3, 4, 5} -> r[a - c]
                              [] a - c = 6 -> ECALL_M
                              [] a - c = 7 -> mstatus
                              [] a - c = 8 -> pc
                              [] OTHER -> stack[a]]
  <2>1. r[SP] - port.context_size = c
        BY <1>2 DEF c
  <2>2. DOMAIN stack = Memory
        BY <1>1
  <2>3. QED
        BY <2>1, <2>2, Frames DEF PushContext
<1> HIDE DEF m
<1>5. \A k \in 0 .. 8 : c + k \in Stack(thread) /\ c + k \in Memory
      BY <1>1, <1>3, FrameInStack, Stacks
<1>6. /\ \A k \in {1, 3, 4, 5} : m[c + k] = r[k]
      /\ m[c + 6] = ECALL_M /\ m[c + 7] = mstatus /\ m[c + 8] = pc
  <2>1. \A k \in 0 .. 8 : (c + k) - c = k
        BY <1>3
  <2>2. ASSUME NEW k \in {1, 3, 4, 5} PROVE m[c + k] = r[k]
    <3>1. c + k \in Memory /\ (c + k) - c = k
          BY <1>5, <2>1
    <3>2. QED
          BY <1>4, <3>1
  <2>3. ASSUME NEW k \in {6, 7, 8} PROVE m[c + k] = CASE k = 6 -> ECALL_M [] k = 7 -> mstatus [] k = 8 -> pc
    <3>1. c + k \in Memory /\ (c + k) - c = k
          BY <1>5, <2>1
    <3>2. QED
          BY <1>4, <3>1
  <2>4. QED
        BY <2>2, <2>3
<1>7. m \in [Memory -> Int]
  <2>1. ASSUME NEW a \in Memory PROVE m[a] \in Int
    <3>1. stack[a] \in Int /\ ECALL_M \in Int
          BY <1>1 DEF ECALL_M
    <3>2. a - c \in {1, 3, 4, 5} => r[a - c] \in Int
          BY <1>2
    <3>3. QED
          BY <1>1, <1>4, <3>1, <3>2
  <2>2. QED
        BY <1>4, <2>1
<1>8. ASSUME NEW a \in Memory \ Stack(thread) PROVE m[a] = stack[a]
  <2>1. a \in Int
        BY <1>8, Stacks, Frames DEF Memory
  <2>2. \A k \in 0 .. 8 : a # c + k
        BY <1>5, <1>8
  <2>3. ASSUME NEW k \in 0 .. 8 PROVE a - c # k
    <3>1. a # c + k
          BY <2>2
    <3>2. QED
          BY <1>3, <2>1, <3>1
  <2>4. a - c \notin {1, 3, 4, 5} /\ a - c # 6 /\ a - c # 7 /\ a - c # 8
        BY <2>3
  <2>5. QED
        BY <1>4, <2>4
<1>9. IsYield(m, c) <=> x = MinusOne
      BY <1>2, <1>6, Frames DEF IsYield
<1>10. h.m = IF x = MinusOne THEN [m EXCEPT ![c + 8] = pc + 4] ELSE m
  <2>1. c + OFFSET_EPC = c + 8
        BY Frames
  <2>2. QED
        BY <1>6, <1>9, <2>1 DEF __am_irq_handle
<1> HIDE DEF h
<1>11. h.m \in [Memory -> Int]
  <2>1. pc + 4 \in Int
        BY <1>1
  <2>2. [m EXCEPT ![c + 8] = pc + 4] \in [Memory -> Int]
        BY <1>7, <2>1
  <2>3. QED
        BY <1>7, <1>10, <2>2
<1>12. ASSUME NEW a \in Memory \ Stack(thread) PROVE h.m[a] = stack[a]
  <2>1. a # c + 8 /\ m[a] = stack[a]
        BY <1>5, <1>8, <1>12
  <2>2. QED
        BY <1>7, <1>10, <2>1
<1>13. /\ \A k \in {1, 3, 4, 5} : h.m[c + k] = r[k]
       /\ h.m[c + 7] = mstatus /\ h.m[c + 8] = IF x = MinusOne THEN pc + 4 ELSE pc
  <2>1. \A k \in 1 .. 7 : c + k # c + 8
        BY <1>3
  <2>2. \A k \in 1 .. 8 : c + k \in Memory
        BY <1>5
  <2>3. ASSUME NEW k \in 1 .. 7 PROVE h.m[c + k] = m[c + k]
    <3>1. c + k # c + 8 /\ c + k \in Memory
          BY <2>1, <2>2
    <3>2. QED
          BY <1>7, <1>10, <3>1
  <2>4. h.m[c + 8] = IF x = MinusOne THEN pc + 4 ELSE pc
        BY <1>6, <1>7, <1>10, <2>2
  <2>5. QED
        BY <1>6, <2>3, <2>4
<1>14. s.regs = r
  <2>1. s.regs = [k \in 1 .. 5 |-> IF k = 2 THEN c + port.context_size ELSE h.m[c + k]]
        BY Frames DEF PopContext
  <2>2. ASSUME NEW k \in 1 .. 5 PROVE s.regs[k] = r[k]
    <3>1. k = 2 \/ k \in {1, 3, 4, 5}
          OBVIOUS
    <3>2. r[2] = c + port.context_size
          BY <1>2, <1>3, Frames
    <3>3. QED
          BY <1>13, <2>1, <3>1, <3>2
  <2>3. QED
        BY <1>2, <2>1, <2>2
<1>15. s.mstatus = mstatus /\ s.pc = IF x = MinusOne THEN pc + 4 ELSE pc
  <2>1. s.mstatus = h.m[c + 7] /\ s.pc = h.m[c + 8]
        BY Frames DEF PopContext
  <2>2. QED
        BY <1>13, <2>1
<1>16. r \in [GPRs -> Int]
      BY <1>2, Frames
<1> HIDE DEF s
<1>17. QED
      BY <1>3, <1>11, <1>12, <1>14, <1>15, <1>16 DEF r, c, m, h, s

\* What a context gives has the types of the hart.
LEMMA PopTypes ==
    ASSUME NEW p \in Ports, NEW t \in Threads, NEW c \in Int, c + p.context_size \in Depths(t), NEW m \in [Memory -> Int]
    PROVE  LET s == PopContext(m, c, p)
           IN  s.regs \in [GPRs -> Int] /\ s.pc \in Int /\ s.mstatus \in Int /\ s.regs[SP] = c + p.context_size
<1>1. \A k \in 0 .. 8 : m[c + k] \in Int
      BY FrameInStack, Stacks
<1>2. c + p.context_size \in Int
      BY Frames
<1> DEFINE s == PopContext(m, c, p)
<1>3. /\ s.regs = [k \in 1 .. 5 |-> IF k = 2 THEN c + p.context_size ELSE m[c + k]]
      /\ s.mstatus = m[c + 7] /\ s.pc = m[c + 8]
      BY Frames DEF PopContext
<1> HIDE DEF s
<1>4. s.regs \in [1 .. 5 -> Int] /\ s.regs[2] = c + p.context_size
      BY <1>1, <1>2, <1>3
<1>5. QED
      BY <1>1, <1>3, <1>4, Frames DEF s

\* The running thread changes its registers and its own stack.
LEMMA RunStep ==
    ASSUME CteInv, (\E r \in {A0, T1} : Compute(r)) \/ PushWord
    PROVE  CteInv'
<1>1. /\ port \in Ports /\ thread \in Threads /\ regs \in [GPRs -> Int] /\ pc \in Int /\ stack \in [Memory -> Int]
      /\ own = [t \in Threads |-> own[t]] /\ regs[SP] \in Depths(thread) /\ regs[SP] \in Int
      /\ MaxDepth \in Nat \ {0} /\ SP \in GPRs /\ kstack_end(thread) \in Nat /\ Mark \in Int /\ steps \in Int
  <2>1. /\ port \in Ports /\ thread \in Threads /\ regs \in [GPRs -> Int] /\ pc \in Int /\ stack \in [Memory -> Int]
        /\ own = [t \in Threads |-> own[t]] /\ regs[SP] \in Depths(thread) /\ steps \in Int
        BY DEF CteInv, CteTypes
  <2>2. MaxDepth \in Nat \ {0} /\ kstack_end(thread) \in Nat
        BY <2>1, Frames, Stacks
  <2>3. regs[SP] \in Int
        BY <2>1, <2>2 DEF Depths
  <2>4. SP \in GPRs
        BY Frames
  <2>5. Mark \in Int
    <3>1. NThreads \in Nat
          BY Frames
    <3>2. thread \in Int
          BY <2>1, <3>1 DEF Threads
    <3>3. QED
          BY <3>2 DEF Mark
  <2>6. QED
        BY <2>1, <2>2, <2>3, <2>4, <2>5
<1>2. /\ port' = port /\ thread' = thread /\ mstatus' = mstatus /\ pcb' = pcb /\ pc' = pc + 4 /\ steps' = steps + 1
      /\ own' = [own EXCEPT ![thread] = View(regs', pc', mstatus, stack', thread)]
      BY DEF Compute, PushWord
<1>3. regs' \in [GPRs -> Int] /\ regs'[SP] \in Depths(thread)
  <2>1. ASSUME NEW r \in {A0, T1}, Compute(r) PROVE regs' \in [GPRs -> Int] /\ regs'[SP] \in Depths(thread)
    <3>1. regs' = [regs EXCEPT ![r] = Mark] /\ r # SP
          BY <2>1, Frames DEF Compute
    <3>2. QED
          BY <1>1, <3>1
  <2>2. CASE PushWord
    <3>1. regs' = [regs EXCEPT ![SP] = regs[SP] - 1] /\ regs[SP] > kstack_end(thread) - MaxDepth
          BY <2>2 DEF PushWord
    <3>2. regs[SP] - 1 \in Depths(thread) /\ regs[SP] - 1 \in Int
          BY <1>1, <3>1 DEF Depths
    <3>3. QED
          BY <1>1, <3>1, <3>2
  <2>3. QED
        BY <2>1, <2>2
<1>4. stack' \in [Memory -> Int] /\ \A a \in Memory \ Stack(thread) : stack'[a] = stack[a]
  <2>1. CASE stack' = stack
        BY <1>1, <2>1
  <2>2. CASE PushWord
    <3>1. stack' = [stack EXCEPT ![regs[SP] - 1] = Mark]
          BY <2>2 DEF PushWord
    <3>2. regs[SP] - port.context_size \in Int /\ (regs[SP] - port.context_size) + port.context_size = regs[SP]
          BY <1>1, Frames
    <3>3. regs[SP] - 1 \in Stack(thread)
      <4> DEFINE c == regs[SP] - port.context_size
      <4>1. c \in Int /\ c + port.context_size \in Depths(thread) /\ c + port.context_size = regs[SP]
            BY <1>1, <3>2
      <4> HIDE DEF c
      <4>2. c + port.context_size - 1 \in Stack(thread)
            BY <1>1, <4>1, FrameInStack
      <4>w. port.context_size \in Int
            BY <1>1, Frames
      <4>3. c + port.context_size - 1 = regs[SP] - 1
            BY <1>1, <4>1, <4>w
      <4>4. QED
            BY <4>2, <4>3
    <3>4. QED
          BY <1>1, <3>1, <3>3
  <2>3. QED
        BY <2>1, <2>2 DEF Compute
<1>5. own'[thread] = View(regs', pc', mstatus, stack', thread) /\ \A t \in Threads \ {thread} : own'[t] = own[t]
      BY <1>1, <1>2
<1>6. own' = [t \in Threads |-> own'[t]]
      BY <1>1, <1>2
<1>7. CteTypes'
      BY <1>1, <1>2, <1>3, <1>4, <1>6 DEF CteInv, CteTypes
<1>8. ThreadsUndisturbed'
      BY <1>2, <1>5 DEF ThreadsUndisturbed
<1>9. ASSUME NEW t \in Threads \ {thread} PROVE own'[t] = Resumed(stack', pcb[t], port, t)
  <2>1. \A a \in Stack(t) : stack[a] = stack'[a]
        BY <1>1, <1>4, Stacks
  <2>2. pcb[t] \in Int /\ pcb[t] + port.context_size \in Depths(t)
        BY DEF CteInv, CteTypes
  <2>3. Resumed(stack, pcb[t], port, t) = Resumed(stack', pcb[t], port, t)
        BY <1>1, <2>1, <2>2, ResumesFromStack
  <2>4. QED
        BY <1>5, <2>3 DEF CteInv, Suspended
<1>10. Suspended'
      BY <1>2, <1>9 DEF Suspended
<1>11. QED
      BY <1>7, <1>8, <1>10 DEF CteInv

\* A trap leaves a context from which the thread resumes where it was, and the
\* thread that is entered finds what it left.
LEMMA TrapStep ==
    ASSUME CteInv, NEW x \in {MinusOne, 1}, NEW to \in Threads, Trap(x, to)
    PROVE  CteInv'
<1> DEFINE r == [regs EXCEPT ![A5] = x]
           c == regs[SP] - port.context_size
           h == __am_irq_handle(PushContext(stack, r, mstatus, pc, port), c)
           back == PopContext(h.m, c, port)
           saved == IF to = thread THEN c ELSE pcb[to]
           s == PopContext(h.m, saved, port)
<1>1. /\ stack' = h.m /\ pcb' = [pcb EXCEPT ![thread] = c] /\ steps' = 0 /\ port' = port
      /\ own' = [own EXCEPT ![thread] = View(r, IF x = MinusOne THEN pc + 4 ELSE pc, mstatus, h.m, thread)]
      /\ thread' = to /\ regs' = s.regs /\ pc' = s.pc /\ mstatus' = s.mstatus
      BY DEF Trap
<1>2. /\ c \in Int /\ c + port.context_size = regs[SP] /\ h.m \in [Memory -> Int]
      /\ \A a \in Memory \ Stack(thread) : h.m[a] = stack[a]
      /\ back.regs = r /\ back.mstatus = mstatus /\ back.pc = IF x = MinusOne THEN pc + 4 ELSE pc
  <2>1. x \in Int
        BY DEF MinusOne
  <2>2. QED
        BY <2>1, TrapFrame DEF CteInv
<1>r. own' = [own EXCEPT ![thread] = Resumed(h.m, c, port, thread)]
      BY <1>1, <1>2 DEF Resumed
<1> HIDE DEF r, c, h, back
<1>3. /\ port \in Ports /\ thread \in Threads /\ pcb \in [Threads -> Int] /\ own = [t \in Threads |-> own[t]]
      /\ c + port.context_size \in Depths(thread)
      BY <1>2 DEF CteInv, CteTypes
<1>4. ASSUME NEW t \in Threads
      PROVE  pcb'[t] \in Int /\ pcb'[t] + port.context_size \in Depths(t) /\ own'[t] = Resumed(h.m, pcb'[t], port, t)
  <2>1. CASE t = thread
    <3>1. pcb'[t] = c /\ own'[t] = Resumed(h.m, c, port, t)
          BY <1>1, <1>r, <1>3, <2>1
    <3>2. QED
          BY <1>2, <1>3, <2>1, <3>1
  <2>2. CASE t # thread
    <3>1. pcb'[t] = pcb[t] /\ own'[t] = own[t] /\ pcb[t] \in Int
          BY <1>1, <1>r, <1>3, <2>2
    <3>2. pcb[t] + port.context_size \in Depths(t) /\ own[t] = Resumed(stack, pcb[t], port, t)
          BY <2>2 DEF CteInv, CteTypes, Suspended
    <3>3. \A a \in Stack(t) : stack[a] = h.m[a]
          BY <1>2, <1>3, <2>2, Stacks
    <3>4. Resumed(stack, pcb[t], port, t) = Resumed(h.m, pcb[t], port, t)
          BY <1>3, <3>1, <3>2, <3>3, ResumesFromStack
    <3>5. QED
          BY <3>1, <3>2, <3>4
  <2>3. QED
        BY <2>1, <2>2
<1>5. pcb'[to] = saved
      BY <1>1, <1>3 DEF saved
<1> HIDE DEF saved
<1>6. /\ regs' \in [GPRs -> Int] /\ pc' \in Int /\ mstatus' \in Int /\ regs'[SP] \in Depths(to)
  <2>1. saved \in Int /\ saved + port.context_size \in Depths(to)
        BY <1>4, <1>5
  <2>2. QED
        BY <1>1, <1>2, <1>3, <2>1, PopTypes
<1>7. own' = [t \in Threads |-> own'[t]] /\ pcb' \in [Threads -> Int]
      BY <1>1, <1>2, <1>3
<1>8. CteTypes'
  <2>1. port' \in Ports /\ thread' \in Threads /\ steps' \in Int /\ stack' \in [Memory -> Int]
        BY <1>1, <1>2, <1>3
  <2>2. regs'[SP] \in Depths(thread') /\ \A t \in Threads \ {thread'} : pcb'[t] + port'.context_size \in Depths(t)
        BY <1>1, <1>4, <1>6
  <2>3. Depths(thread)' = Depths(thread')
        BY DEF Depths, kstack_end
  <2>4. QED
        BY <1>6, <1>7, <2>1, <2>2, <2>3 DEF CteTypes
<1>9. ThreadsUndisturbed'
      BY <1>1, <1>4, <1>5 DEF ThreadsUndisturbed, Resumed
<1>10. Suspended'
      BY <1>1, <1>4 DEF Suspended
<1>11. QED
      BY <1>8, <1>9, <1>10 DEF CteInv

\* Every step leaves every thread as it was.
LEMMA CteStep == CteInv /\ [CteNext]_cte_vars => CteInv'
<1> SUFFICES ASSUME CteInv, [CteNext]_cte_vars PROVE CteInv'
    OBVIOUS
<1>1. CASE UNCHANGED cte_vars
  <2>1. CteTypes'
        BY <1>1 DEF CteInv, CteTypes, cte_vars
  <2>2. QED
        BY <1>1, <2>1 DEF CteInv, ThreadsUndisturbed, Suspended, cte_vars
<1>2. CASE CteNext
      BY <1>2, RunStep, TrapStep DEF CteNext
<1>3. QED
      BY <1>1, <1>2

\* The kernel has made a context for every thread.
LEMMA CteStarts ==
    ASSUME NEW p \in Ports, NEW t0 \in Threads, CteInit(p, t0)
    PROVE  CteInv
<1> DEFINE base(t) == kstack_end(t) - ContextWords
           s(t) == PopContext(Created, base(t), p)
<1>1. /\ port = p /\ thread = t0 /\ regs = s(t0).regs /\ pc = s(t0).pc /\ mstatus = s(t0).mstatus
      /\ stack = Created /\ pcb = [t \in Threads |-> base(t)] /\ steps = 0
      /\ own = [t \in Threads |-> View(s(t).regs, s(t).pc, s(t).mstatus, Created, t)]
      BY DEF CteInit
<1>2. Created \in [Memory -> Int]
  <2> DEFINE blank == [a \in Memory |-> 0]
             made(t) == kcontext(blank, t, Entry(t), t).m
  <2>1. ASSUME NEW a \in Memory PROVE made(a \div StackWords)[a] \in Int
    <3> DEFINE t == a \div StackWords
    <3>1. a \in Int /\ StackWords \in Nat \ {0}
          BY Stacks, Frames DEF Memory
    <3>2. t \in Int /\ Entry(t) \in Int
          BY <3>1 DEF Entry
    <3> HIDE DEF t
    <3> DEFINE c == kstack_end(t) - ContextWords
    <3>3. made(t) = [blank EXCEPT ![c + OFFSET_EPC] = Entry(t), ![c + OFFSET_STATUS] = 6144, ![c + A0] = t]
          BY DEF kcontext
    <3> HIDE DEF c
    <3>4. made(t) \in [Memory -> Int]
          BY <3>2, <3>3
    <3>5. QED
          BY <3>4 DEF t
  <2> HIDE DEF made
  <2>2. Created = [a \in Memory |-> made(a \div StackWords)[a]]
        BY DEF Created, made
  <2>3. QED
        BY <2>1, <2>2
<1>3. ASSUME NEW t \in Threads
      PROVE  base(t) \in Int /\ base(t) + p.context_size \in Depths(t)
      BY Frames, Stacks DEF Depths
<1>4. ASSUME NEW t \in Threads
      PROVE  /\ s(t).regs \in [GPRs -> Int] /\ s(t).pc \in Int /\ s(t).mstatus \in Int
             /\ s(t).regs[SP] = base(t) + p.context_size
      BY <1>2, <1>3, PopTypes
<1>5. ASSUME NEW t \in Threads PROVE own[t] = Resumed(stack, pcb[t], port, t) /\ pcb[t] = base(t)
      BY <1>1 DEF Resumed
<1> HIDE DEF base, s
<1>6. CteTypes
      BY <1>1, <1>2, <1>3, <1>4 DEF CteTypes
<1>7. ThreadsUndisturbed
      BY <1>1 DEF ThreadsUndisturbed
<1>8. QED
      BY <1>5, <1>6, <1>7 DEF CteInv, Suspended

(***************************************************************************)
(* The three guests together.                                              *)
(***************************************************************************)
\* audio.c, timer.c, cte.c and trap.S: for rings, words, stacks and numbers of
\* threads of every size, whatever the order of callbacks, ticks and traps, what
\* is played is what was written, a time is wrong only as the port's register
\* allows, and a thread finds its state as it left it.
THEOREM GuestsStayUndisturbed == MCSpec => []GuestsUndisturbed
<1>1. MCInit => UptimeInv /\ AudioInv /\ CteInv
      BY UptimeStarts, AudioStarts, CteStarts DEF MCInit
<1>2. [MCNext]_all_vars => [TimeNext]_time_vars /\ [AudioNext]_audio_vars /\ [CteNext]_cte_vars
      BY DEF MCNext, all_vars
<1>3. UptimeInv /\ AudioInv /\ CteInv /\ [MCNext]_all_vars => (UptimeInv /\ AudioInv /\ CteInv)'
      BY <1>2, UptimeStep, AudioStep, CteStep
<1>4. UptimeInv /\ AudioInv /\ CteInv => GuestsUndisturbed
      BY AudioInvRight DEF GuestsUndisturbed, UptimeInv, CteInv
<1>5. QED
      BY <1>1, <1>3, <1>4, PTL DEF MCSpec

=============================================================================
