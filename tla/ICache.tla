------------------------------- MODULE ICache -------------------------------
(***************************************************************************)
(* The direct-mapped instruction cache of core/ICache.scala, between the   *)
(* IFU's request port and an AXI read channel.  One step is one clock      *)
(* edge.  An address is a record of tag, index and word offset; words are  *)
(* abstract values.  The IFU (requests, kill, room for the response), the  *)
(* memory (a burst that may pause before any beat) and the stores that     *)
(* other instructions make to code are the environment.                    *)
(***************************************************************************)
EXTENDS Integers, FiniteSets

CONSTANTS Tags, Index,     \* 26-bit tags and 4 sets in the code
          WordsPerBlock,   \* 4 in the code
          Values,          \* words of memory
          ReqAddrs,        \* addresses the program fetches from
          FaultBlocks,     \* blocks <<tag, index>> that answer with an error
          StoreAddrs,      \* addresses of code that stores change
          FlushDuringFill  \* may a flush meet a fill in progress?

Offsets == 0 .. WordsPerBlock - 1
Addr == [tag : Tags, idx : Index, off : Offsets]
Block(a) == <<a.tag, a.idx>>
Faulty(a) == Block(a) \in FaultBlocks

ASSUME WordsAssumption == WordsPerBlock \in Nat \ {0}
ASSUME ReqAddrsAssumption == ReqAddrs \subseteq Addr /\ ReqAddrs # {}
ASSUME FaultBlocksAssumption == FaultBlocks \subseteq Tags \X Index
ASSUME StoreAddrsAssumption == StoreAddrs \subseteq Addr
ASSUME FlushAssumption == FlushDuringFill \in BOOLEAN

VARIABLES
    state, fill_addr, fill_cnt, req_killed, err,       \* registers of the FSM
    valid_storage, tag_storage, data_storage,          \* the lines
    burst,        \* the memory's side of a read burst: next beat, or none
    mem, code,    \* memory, and the words an address has held since the last flush
    out           \* the answer that fired at the last edge

fsm_vars == <<state, fill_addr, fill_cnt, req_killed, err>>
line_vars == <<valid_storage, tag_storage, data_storage>>
vars == <<state, fill_addr, fill_cnt, req_killed, err, valid_storage, tag_storage,
          data_storage, burst, mem, code, out>>

NoAnswer == [valid |-> FALSE]
NoBurst == [active |-> FALSE]
Beat(blk, n) == [active |-> TRUE, block |-> blk, beat |-> n]
WordAt(blk, n) == [tag |-> blk[1], idx |-> blk[2], off |-> n]

Answer(a, error) == [valid |-> TRUE, addr |-> a, data |-> data_storage[a.idx][a.off], error |-> error]

\* req_killed follows ifu.kill and is cleared in s_idle.
KilledNext(kill) == req_killed' = (kill \/ (req_killed /\ state # "s_idle"))

\* flush clears every valid bit, v is what they become otherwise.
\* Mutant: the flush is lost.
FlushLost(flush, v) == v
Flushed(flush, v) == IF flush THEN [i \in Index |-> FALSE] ELSE v

(***************************************************************************)
(* s_idle: a request hits or starts a fill.  A hit is answered at once if   *)
(* the IFU has room and the previous request was not killed just before.   *)
(***************************************************************************)
\* Mutant: the tag is not compared.
HitAnyTag(a, flush) == ~flush /\ valid_storage[a.idx]
Hit(a, flush) == ~flush /\ valid_storage[a.idx] /\ tag_storage[a.idx] = a.tag

IdleEdge(kill, flush, ready) ==
    /\ state = "s_idle"
    /\ \/ /\ kill
          /\ UNCHANGED <<state, fill_addr>>
          /\ out' = NoAnswer
       \/ /\ ~kill
          /\ \E a \in ReqAddrs :
                /\ fill_addr' = a
                /\ state' = IF ~Hit(a, flush) THEN "s_fill_addr"
                            ELSE IF ready /\ ~req_killed THEN "s_idle" ELSE "s_resp"
                /\ out' = IF Hit(a, flush) /\ ready /\ ~req_killed THEN Answer(a, FALSE) ELSE NoAnswer
    /\ fill_cnt' = 0
    /\ err' = FALSE
    /\ UNCHANGED <<tag_storage, data_storage, burst>>
    /\ valid_storage' = Flushed(flush, valid_storage)

(***************************************************************************)
(* s_fill_addr: the address of the block is offered to memory.             *)
(***************************************************************************)
FillAddrEdge(kill, flush, arready) ==
    /\ state = "s_fill_addr"
    /\ state' = IF arready THEN "s_wait_mem" ELSE "s_fill_addr"
    /\ burst' = IF arready THEN Beat(Block(fill_addr), 0) ELSE burst
    /\ valid_storage' = Flushed(flush, valid_storage)
    /\ out' = NoAnswer
    /\ UNCHANGED <<fill_addr, fill_cnt, err, tag_storage, data_storage>>

(***************************************************************************)
(* s_wait_mem: the beats of the burst are written into the line.           *)
(***************************************************************************)
LastBeat == burst.beat = WordsPerBlock - 1

\* Mutant: a kill abandons the burst.
WaitMemAbandon(fill_done, kill) ==
    IF kill \/ req_killed THEN "s_idle" ELSE IF fill_done THEN "s_resp" ELSE "s_wait_mem"
WaitMemNext(fill_done, kill) ==
    IF ~fill_done THEN "s_wait_mem" ELSE IF kill \/ req_killed THEN "s_idle" ELSE "s_resp"

FillCntNext == (fill_cnt + 1) % WordsPerBlock

\* Mutant: a fill with an error makes the line valid.
FillValidDespiteError(fill_done, fill_error) == fill_done
FillValid(fill_done, fill_error) == fill_done /\ ~fill_error

WaitMemEdge(kill, flush, rvalid) ==
    LET word       == WordAt(burst.block, burst.beat)
        fill_done  == rvalid /\ LastBeat
        fill_error == err \/ (rvalid /\ Faulty(word))
        i          == fill_addr.idx
    IN  /\ state = "s_wait_mem"
        /\ burst.active
        /\ state' = WaitMemNext(fill_done, kill)
        /\ fill_cnt' = IF rvalid THEN FillCntNext ELSE fill_cnt
        /\ err' = IF rvalid THEN fill_error ELSE err
        /\ data_storage' = IF rvalid THEN [data_storage EXCEPT ![i][fill_cnt] = mem[word]]
                           ELSE data_storage
        /\ tag_storage' = IF fill_done THEN [tag_storage EXCEPT ![i] = fill_addr.tag] ELSE tag_storage
        /\ valid_storage' = Flushed(flush, IF FillValid(fill_done, fill_error)
                                           THEN [valid_storage EXCEPT ![i] = TRUE]
                                           ELSE valid_storage)
        /\ burst' = IF ~rvalid THEN burst
                    ELSE IF LastBeat THEN NoBurst ELSE Beat(burst.block, burst.beat + 1)
        /\ out' = NoAnswer
        /\ UNCHANGED fill_addr

(***************************************************************************)
(* s_resp: the word is read from the line that was filled or hit.          *)
(***************************************************************************)
\* Mutant: a killed answer waits to be accepted.
RespNextUnlessKilled(kill, ready) == IF ready /\ ~kill /\ ~req_killed THEN "s_idle" ELSE "s_resp"
RespNext(kill, ready) == IF ready \/ kill \/ req_killed THEN "s_idle" ELSE "s_resp"

RespEdge(kill, flush, ready) ==
    /\ state = "s_resp"
    /\ state' = RespNext(kill, ready)
    /\ out' = IF ready /\ ~kill /\ ~req_killed THEN Answer(fill_addr, err) ELSE NoAnswer
    /\ valid_storage' = Flushed(flush, valid_storage)
    /\ UNCHANGED <<fill_addr, fill_cnt, err, tag_storage, data_storage, burst>>

(***************************************************************************)
(* The environment.  A flush comes from fence.i in WBU, which also kills   *)
(* the request and meets no store; the LSU may store to code at any other  *)
(* edge.                                                                   *)
(***************************************************************************)
FlushAllowed == FlushDuringFill \/ state # "s_wait_mem"

MemoryEdge(flush) ==
    \/ /\ flush
       /\ mem' = mem
       /\ code' = [a \in Addr |-> {mem[a]}]
    \/ /\ ~flush
       /\ UNCHANGED <<mem, code>>
    \/ /\ ~flush
       /\ \E a \in StoreAddrs, v \in Values :
             /\ mem' = [mem EXCEPT ![a] = v]
             /\ code' = [code EXCEPT ![a] = @ \cup {v}]

Init ==
    /\ state = "s_idle" /\ fill_cnt = 0 /\ req_killed = FALSE /\ err = FALSE
    /\ fill_addr \in ReqAddrs
    /\ valid_storage = [i \in Index |-> FALSE]
    /\ tag_storage \in [Index -> Tags]
    /\ data_storage \in [Index -> [Offsets -> Values]]
    /\ burst = NoBurst
    /\ mem \in [Addr -> Values]
    /\ code = [a \in Addr |-> {mem[a]}]
    /\ out = NoAnswer

\* ready: the response queue has room; answered: the handshake with memory.
Edge(kill, flush, ready, answered) ==
    /\ flush => kill /\ FlushAllowed
    /\ KilledNext(kill)
    /\ MemoryEdge(flush)
    /\ \/ IdleEdge(kill, flush, ready)
       \/ FillAddrEdge(kill, flush, answered)
       \/ WaitMemEdge(kill, flush, answered)
       \/ RespEdge(kill, flush, ready)

Next == \E kill, flush, ready, answered \in BOOLEAN : Edge(kill, flush, ready, answered)

Spec == Init /\ [][Next]_vars

\* Memory keeps answering and the response queue keeps emptying.
Fairness == /\ WF_vars(\E kill, flush, ready \in BOOLEAN : Edge(kill, flush, ready, TRUE))
            /\ WF_vars(\E kill, flush, answered \in BOOLEAN : Edge(kill, flush, TRUE, answered))

LiveSpec == Spec /\ Fairness

-----------------------------------------------------------------------------
\* Every register of the cache holds a value of its type.
TypeOK ==
    /\ state \in {"s_idle", "s_fill_addr", "s_wait_mem", "s_resp"}
    /\ fill_addr \in ReqAddrs /\ fill_cnt \in Offsets
    /\ req_killed \in BOOLEAN /\ err \in BOOLEAN
    /\ valid_storage \in [Index -> BOOLEAN] /\ tag_storage \in [Index -> Tags]
    /\ data_storage \in [Index -> [Offsets -> Values]]
    /\ burst \in {NoBurst} \cup [active : {TRUE}, block : Tags \X Index, beat : Offsets]
    /\ mem \in [Addr -> Values] /\ code \in [Addr -> SUBSET Values]

\* The cache and the memory agree on every burst: one is open exactly while the
\* cache waits for it, it is the block of the fill, and the beat the memory
\* sends next is the word fill_cnt will write.  No kill or flush leaves a burst
\* behind for a later fill to swallow.
BurstAligned ==
    /\ burst.active <=> state = "s_wait_mem"
    /\ burst.active => burst.block = Block(fill_addr) /\ burst.beat = fill_cnt
    /\ state # "s_wait_mem" => fill_cnt = 0

\* The beat counter, the word offset and the killed flag stay in step with the
\* burst the memory is sending, also when the fetch was killed or the lines
\* were flushed meanwhile.
WellFormed == TypeOK /\ BurstAligned

\* A line that is valid, and not being overwritten, holds words its block has
\* held since the last flush.
LineFresh ==
    \A i \in Index :
       valid_storage[i] /\ ~(state = "s_wait_mem" /\ fill_addr.idx = i)
         => \A o \in Offsets : data_storage[i][o] \in code[WordAt(<<tag_storage[i], i>>, o)]

\* The contract of the port.
Port == INSTANCE FetchPort WITH
          fetch <- IF state = "s_idle" THEN [st |-> "idle"]
                   ELSE IF req_killed THEN [st |-> "killed"]
                   ELSE [st |-> "busy", addr |-> fill_addr]

\* The cache implements the port the core relies on.
ImplementsPort == Port!PortSpec

\* A request is answered or killed, and a killed fill ends: the cache always
\* gets back to s_idle.
BackToIdle == (state # "s_idle") ~> (state = "s_idle")

-----------------------------------------------------------------------------
\* The test of the cache asserts "Cache data mismatch with Ref Mem": an answer
\* without error carries a word memory has held since the last flush, and a
\* block that cannot be read is never answered without error.
AnswerMatchesMem ==
    [][out'.valid /\ ~out'.error => ~Faulty(out'.addr) /\ out'.data \in code[out'.addr]]_vars
=============================================================================
