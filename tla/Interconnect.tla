---------------------------- MODULE Interconnect ----------------------------
(***************************************************************************)
(* The AXI bus of TopWithoutSoC: the LSU and the instruction cache as its  *)
(* masters, AXI4Arbiter, AXI4CrossBar, and the three slaves behind it:     *)
(* the simulated memory DPICMem, the CLINT, and the error slave for        *)
(* addresses nobody answers.  One step is one clock edge.  Arbiter and     *)
(* crossbar are combinational between the edges, so a handshake happens at *)
(* the master and at the slave in the same cycle.                          *)
(*                                                                         *)
(* A word has WordBytes bytes, memory holds words.  A beat of read data is *)
(* the word it was read from and its value.  The masters' requests are     *)
(* open; byte strobes, ids and the running value of mtime are left out.    *)
(***************************************************************************)
EXTENDS Integers, Sequences, FiniteSets

CONSTANTS WordBytes,       \* 4 in the code
          WordsPerBlock,   \* beats of an ICache fill, 4 in the code
          SocRanges,       \* (lo, hi) pairs of the crossbar's slave 0
          ClintRanges,     \* and of slave 1
          LsuAddrs,        \* addresses the LSU accesses
          IfuBlocks,       \* block addresses the ICache fills from
          Values

\* The length of a burst has eight bits.
ASSUME WordBytesAssumption == WordBytes \in Nat \ {0} /\ WordsPerBlock \in 1 .. 256
ASSUME RangesAssumption == SocRanges \cup ClintRanges \subseteq Nat \X Nat
ASSUME AddrsAssumption == LsuAddrs \cup IfuBlocks \subseteq Nat
ASSUME ValuesAssumption == Values # {}

VARIABLES
    lsu_state, lsu_op, lsu_addr, lsu_data, lsu_err,     \* the LSU's transaction
    ifu_state, ifu_addr, ifu_cnt, ifu_line,             \* the ICache's fill
    arb_r_state, arb_r_owner, arb_w_state, arb_w_owner, \* AXI4Arbiter
    xbar_r_state, xbar_r_owner, xbar_w_state, xbar_w_owner,      \* AXI4CrossBar
    mem_r_state, mem_r_addr, mem_r_cnt, mem_r_ctx, mem_r_out,    \* DPICMem
    mem_w_state, mem_w_addr, mem,
    err_r_state, err_r_cnt, err_w_state,                \* AXI4ErrorSlave
    clint_addr                                          \* CLINT

lsu_vars == <<lsu_state, lsu_op, lsu_addr, lsu_data, lsu_err>>
ifu_vars == <<ifu_state, ifu_addr, ifu_cnt, ifu_line>>
vars == <<lsu_state, lsu_op, lsu_addr, lsu_data, lsu_err, ifu_state, ifu_addr, ifu_cnt,
          ifu_line, arb_r_state, arb_r_owner, arb_w_state, arb_w_owner, xbar_r_state,
          xbar_r_owner, xbar_w_state, xbar_w_owner, mem_r_state, mem_r_addr, mem_r_cnt,
          mem_r_ctx, mem_r_out, mem_w_state, mem_w_addr, mem, err_r_state, err_r_cnt,
          err_w_state, clint_addr>>

WordOf(a) == a \div WordBytes
Words == {WordOf(a) : a \in UNION {r[1] .. r[2] : r \in SocRanges}}

(***************************************************************************)
(* addr_mux_map: the slave an address selects.                             *)
(***************************************************************************)
InRange(a, r) == r[1] <= a /\ a < r[2]
Select(a) == IF \E r \in SocRanges : InRange(a, r) THEN "soc"
             ELSE IF \E r \in ClintRanges : InRange(a, r) THEN "clint" ELSE "err"

\* The CLINT ends a burst after one beat; fills only go to the others.
ASSUME FillsAssumption == \A b \in IfuBlocks : Select(b) # "clint"
\* Blocks are aligned: one that starts in memory lies in memory.
ASSUME BlocksAssumption ==
    \A b \in IfuBlocks : Select(b) = "soc" => WordOf(b) .. WordOf(b) + WordsPerBlock - 1 \subseteq Words

(***************************************************************************)
(* The read channels.                                                      *)
(***************************************************************************)
ArValid(m) == IF m = "lsu" THEN lsu_state = "s_r_addr" ELSE ifu_state = "s_fill_addr"
RReady(m) == IF m = "lsu" THEN lsu_state = "s_r_wait_mem" ELSE ifu_state = "s_wait_mem"
ArAddr(m) == IF m = "lsu" THEN lsu_addr ELSE ifu_addr
ArLen(m) == IF m = "lsu" THEN 0 ELSE WordsPerBlock - 1
ArStep(m) == IF m = "lsu" THEN 0 ELSE WordBytes          \* FIXED or INCR bursts

any_read == ArValid("lsu") \/ ArValid("ifu")
r_candidate == IF ArValid("lsu") THEN "lsu" ELSE "ifu"

ArReady(s) == CASE s = "soc" -> mem_r_state = "r_idle"
                [] s = "clint" -> TRUE
                [] s = "err" -> err_r_state = "r_idle"
RValid(s) == CASE s = "soc" -> mem_r_state = "r_data_valid"
               [] s = "clint" -> TRUE
               [] s = "err" -> err_r_state = "r_busy"
RLast(s) == CASE s = "soc" -> mem_r_cnt = mem_r_ctx.len
              [] s = "clint" -> TRUE
              [] s = "err" -> err_r_cnt = 0

slave_ar_valid == arb_r_state = "r_busy" /\ ArValid(arb_r_owner)   \* arbiter -> crossbar
ar_fire == xbar_r_state = "r_busy" /\ slave_ar_valid /\ ArReady(xbar_r_owner)
r_fire == /\ xbar_r_state = "r_busy" /\ RValid(xbar_r_owner)
          /\ arb_r_state = "r_busy" /\ RReady(arb_r_owner)
r_done == r_fire /\ RLast(xbar_r_owner)

MasterArFire(m) == ar_fire /\ arb_r_owner = m
MasterRFire(m) == r_fire /\ arb_r_owner = m
SlaveArFire(s) == ar_fire /\ xbar_r_owner = s
SlaveRFire(s) == r_fire /\ xbar_r_owner = s

RData == IF xbar_r_owner = "soc" THEN mem_r_out
         ELSE [word |-> WordOf(IF xbar_r_owner = "clint" THEN clint_addr ELSE 0), val |-> xbar_r_owner]
RError == xbar_r_owner = "err"

(***************************************************************************)
(* The write channels.  The ICache never writes.                           *)
(***************************************************************************)
AwValid(m) == m = "lsu" /\ lsu_state = "s_w_addr"
WValid(m) == m = "lsu" /\ lsu_state \in {"s_w_addr", "s_w_data"}
BReady(m) == m = "lsu" /\ lsu_state = "s_w_wait_mem"

any_write == AwValid("lsu") \/ AwValid("ifu")
w_candidate == IF AwValid("lsu") THEN "lsu" ELSE "ifu"

AwReady(s) == CASE s = "soc" -> mem_w_state = "w_idle"
                [] s = "clint" -> TRUE
                [] s = "err" -> err_w_state = "w_idle"
WReady(s) == CASE s = "soc" -> mem_w_state = "w_data"
               [] s = "clint" -> TRUE
               [] s = "err" -> err_w_state = "w_wait_data"
BValid(s) == CASE s = "soc" -> mem_w_state = "w_resp"
               [] s = "clint" -> TRUE
               [] s = "err" -> err_w_state = "w_resp"

slave_aw_valid == arb_w_state = "w_busy" /\ AwValid(arb_w_owner)
aw_fire == xbar_w_state = "w_busy" /\ slave_aw_valid /\ AwReady(xbar_w_owner)
w_fire == /\ xbar_w_state = "w_busy" /\ WReady(xbar_w_owner)
          /\ arb_w_state = "w_busy" /\ WValid(arb_w_owner)
b_fire == /\ xbar_w_state = "w_busy" /\ BValid(xbar_w_owner)
          /\ arb_w_state = "w_busy" /\ BReady(arb_w_owner)

\* SLVERR of the CLINT, DECERR of the error slave.  Mutant: without the CLINT.
BErrorDecodeOnly == xbar_w_owner = "err"
BError == xbar_w_owner # "soc"

(***************************************************************************)
(* The masters.                                                            *)
(***************************************************************************)
\* Mutant: the next load is issued in the cycle after the response.
LsuNextBackToBack == IF MasterRFire("lsu") THEN "s_r_addr" ELSE lsu_state
LsuNextRead == IF MasterRFire("lsu") THEN "s_wait_ready" ELSE lsu_state

LsuNextWrite == IF ~aw_fire THEN lsu_state ELSE IF w_fire THEN "s_w_wait_mem" ELSE "s_w_data"

LsuEdge ==
    \/ /\ lsu_state = "s_idle"
       /\ \/ UNCHANGED lsu_vars
          \/ \E a \in LsuAddrs, v \in Values, op \in {"LW", "SW"} :
                /\ lsu_op' = op /\ lsu_addr' = a
                /\ lsu_data' = IF op = "SW" THEN v ELSE lsu_data
                /\ lsu_state' = IF op = "LW" THEN "s_r_addr" ELSE "s_w_addr"
                /\ lsu_err' = FALSE
    \/ /\ lsu_state = "s_r_addr"
       /\ lsu_state' = IF MasterArFire("lsu") THEN "s_r_wait_mem" ELSE lsu_state
       /\ UNCHANGED <<lsu_op, lsu_addr, lsu_data, lsu_err>>
    \/ /\ lsu_state = "s_r_wait_mem"
       /\ lsu_state' = LsuNextRead
       /\ lsu_data' = IF MasterRFire("lsu") THEN RData.val ELSE lsu_data
       /\ lsu_err' = (MasterRFire("lsu") /\ RError)
       /\ UNCHANGED <<lsu_op, lsu_addr>>
    \/ /\ lsu_state = "s_w_addr"
       /\ lsu_state' = LsuNextWrite
       /\ UNCHANGED <<lsu_op, lsu_addr, lsu_data, lsu_err>>
    \/ /\ lsu_state = "s_w_data"
       /\ lsu_state' = IF w_fire THEN "s_w_wait_mem" ELSE lsu_state
       /\ UNCHANGED <<lsu_op, lsu_addr, lsu_data, lsu_err>>
    \/ /\ lsu_state = "s_w_wait_mem"
       /\ lsu_state' = IF b_fire THEN "s_wait_ready" ELSE lsu_state
       /\ lsu_err' = (b_fire /\ BError)
       /\ UNCHANGED <<lsu_op, lsu_addr, lsu_data>>
    \/ /\ lsu_state = "s_wait_ready"
       /\ lsu_state' = "s_idle"
       /\ UNCHANGED <<lsu_op, lsu_addr, lsu_data, lsu_err>>

IfuEdge ==
    \/ /\ ifu_state = "s_idle"
       /\ \/ UNCHANGED ifu_vars
          \/ \E b \in IfuBlocks :
                /\ ifu_addr' = b /\ ifu_state' = "s_fill_addr"
                /\ ifu_cnt' = 0 /\ ifu_line' = << >>
    \/ /\ ifu_state = "s_fill_addr"
       /\ ifu_state' = IF MasterArFire("ifu") THEN "s_wait_mem" ELSE ifu_state
       /\ UNCHANGED <<ifu_addr, ifu_cnt, ifu_line>>
    \/ /\ ifu_state = "s_wait_mem"
       /\ ifu_state' = IF MasterRFire("ifu") /\ RLast(xbar_r_owner) THEN "s_idle" ELSE ifu_state
       /\ ifu_cnt' = IF MasterRFire("ifu") THEN ifu_cnt + 1 ELSE ifu_cnt
       /\ ifu_line' = IF MasterRFire("ifu") THEN Append(ifu_line, RData.word) ELSE ifu_line
       /\ UNCHANGED ifu_addr

(***************************************************************************)
(* Arbiter and crossbar.                                                   *)
(***************************************************************************)
ArbROwner == IF arb_r_state = "r_idle" THEN r_candidate ELSE arb_r_owner

ArbiterEdge ==
    /\ arb_r_owner' = ArbROwner
    /\ arb_r_state' = IF arb_r_state = "r_idle" THEN (IF any_read THEN "r_busy" ELSE "r_idle")
                      ELSE IF r_done THEN "r_idle" ELSE "r_busy"
    /\ arb_w_owner' = IF arb_w_state = "w_idle" THEN w_candidate ELSE arb_w_owner
    /\ arb_w_state' = IF arb_w_state = "w_idle" THEN (IF any_write THEN "w_busy" ELSE "w_idle")
                      ELSE IF b_fire THEN "w_idle" ELSE "w_busy"

XbarROwner == IF xbar_r_state = "r_idle" /\ slave_ar_valid THEN Select(ArAddr(arb_r_owner))
              ELSE xbar_r_owner

\* Mutant: the crossbar is free again after the first beat.
XbarRDoneEarly == r_fire
XbarRDone == r_done

XbarWDone == b_fire

CrossBarEdge ==
    /\ xbar_r_owner' = XbarROwner
    /\ xbar_r_state' = IF xbar_r_state = "r_idle" THEN (IF slave_ar_valid THEN "r_busy" ELSE "r_idle")
                       ELSE IF XbarRDone THEN "r_idle" ELSE "r_busy"
    /\ xbar_w_owner' = IF xbar_w_state = "w_idle" /\ slave_aw_valid THEN Select(lsu_addr)
                       ELSE xbar_w_owner
    /\ xbar_w_state' = IF xbar_w_state = "w_idle" THEN (IF slave_aw_valid THEN "w_busy" ELSE "w_idle")
                       ELSE IF XbarWDone THEN "w_idle" ELSE "w_busy"

(***************************************************************************)
(* The slaves.  pmem_read and pmem_write are called by two always blocks   *)
(* at the same clock edge: a read sees memory before or after the write.   *)
(***************************************************************************)
r_next_addr == IF SlaveArFire("soc") THEN ArAddr(arb_r_owner)
               ELSE IF SlaveRFire("soc") THEN mem_r_addr + mem_r_ctx.step ELSE mem_r_addr
r_en == \/ SlaveArFire("soc") /\ mem_r_state = "r_idle"
        \/ mem_r_state = "r_data_valid" /\ ~(SlaveRFire("soc") /\ RLast("soc"))

ReadAddr == r_next_addr

DPICMemEdge ==
    /\ mem_r_addr' = r_next_addr
    /\ mem_r_cnt' = IF SlaveArFire("soc") THEN 0
                    ELSE IF SlaveRFire("soc") THEN (mem_r_cnt + 1) % 256 ELSE mem_r_cnt
    /\ mem_r_ctx' = IF SlaveArFire("soc") THEN [len |-> ArLen(arb_r_owner), step |-> ArStep(arb_r_owner)]
                    ELSE mem_r_ctx
    /\ mem_r_state' = IF mem_r_state = "r_idle"
                      THEN (IF SlaveArFire("soc") THEN "r_data_valid" ELSE "r_idle")
                      ELSE IF SlaveRFire("soc") /\ RLast("soc") THEN "r_idle" ELSE "r_data_valid"
    /\ mem_w_addr' = IF aw_fire /\ xbar_w_owner = "soc" THEN lsu_addr ELSE mem_w_addr
    /\ mem_w_state' =
         CASE mem_w_state = "w_idle" -> IF aw_fire /\ xbar_w_owner = "soc" THEN "w_data" ELSE "w_idle"
           [] mem_w_state = "w_data" -> IF w_fire /\ xbar_w_owner = "soc" THEN "w_resp" ELSE "w_data"
           [] mem_w_state = "w_resp" -> IF b_fire /\ xbar_w_owner = "soc" THEN "w_idle" ELSE "w_resp"
    /\ mem' = IF mem_w_state = "w_data" /\ w_fire /\ xbar_w_owner = "soc"
              THEN [mem EXCEPT ![WordOf(mem_w_addr)] = lsu_data] ELSE mem
    /\ IF r_en
       THEN mem_r_out' \in [word : {WordOf(ReadAddr)}, val : {mem[WordOf(ReadAddr)], mem'[WordOf(ReadAddr)]}]
       ELSE mem_r_out' = [word |-> 0, val |-> "zero"]

\* Mutant: the counter does not wrap around.
ErrCntNoWrap == IF SlaveArFire("err") THEN ArLen(arb_r_owner)
                ELSE IF SlaveRFire("err") THEN err_r_cnt - 1 ELSE 0
ErrCnt == IF SlaveArFire("err") THEN ArLen(arb_r_owner)
          ELSE IF SlaveRFire("err") THEN (err_r_cnt - 1) % 256 ELSE 0

ErrorSlaveEdge ==
    /\ err_r_cnt' = ErrCnt
    /\ err_r_state' = IF err_r_state = "r_idle"
                      THEN (IF SlaveArFire("err") THEN "r_busy" ELSE "r_idle")
                      ELSE IF SlaveRFire("err") /\ RLast("err") THEN "r_idle" ELSE "r_busy"
    /\ err_w_state' =
         CASE err_w_state = "w_idle" -> IF aw_fire /\ xbar_w_owner = "err" THEN "w_wait_data" ELSE "w_idle"
           [] err_w_state = "w_wait_data" -> IF w_fire /\ xbar_w_owner = "err" THEN "w_resp" ELSE "w_wait_data"
           [] err_w_state = "w_resp" -> IF b_fire /\ xbar_w_owner = "err" THEN "w_idle" ELSE "w_resp"

ClintAddr == IF SlaveArFire("clint") THEN ArAddr(arb_r_owner) ELSE clint_addr

ClintEdge == clint_addr' = ClintAddr

-----------------------------------------------------------------------------
Init ==
    /\ lsu_state = "s_idle" /\ lsu_op = "LW" /\ lsu_addr = 0 /\ lsu_err = FALSE
    /\ lsu_data \in Values
    /\ ifu_state = "s_idle" /\ ifu_addr = 0 /\ ifu_cnt = 0 /\ ifu_line = << >>
    /\ arb_r_state = "r_idle" /\ arb_r_owner = "lsu" /\ arb_w_state = "w_idle" /\ arb_w_owner = "lsu"
    /\ xbar_r_state = "r_idle" /\ xbar_r_owner = "soc" /\ xbar_w_state = "w_idle" /\ xbar_w_owner = "soc"
    /\ mem_r_state = "r_idle" /\ mem_r_addr = 0 /\ mem_r_cnt = 0
    /\ mem_r_ctx = [len |-> 0, step |-> 0] /\ mem_r_out = [word |-> 0, val |-> "zero"]
    /\ mem_w_state = "w_idle" /\ mem_w_addr = 0
    /\ mem \in [Words -> Values]
    /\ err_r_state = "r_idle" /\ err_r_cnt = 0 /\ err_w_state = "w_idle"
    /\ clint_addr = 0

Next == LsuEdge /\ IfuEdge /\ ArbiterEdge /\ CrossBarEdge /\ DPICMemEdge /\ ErrorSlaveEdge /\ ClintEdge

Spec == Init /\ [][Next]_vars

\* The clock keeps ticking.
LiveSpec == Spec /\ WF_vars(Next)

-----------------------------------------------------------------------------
Data == Values \cup {"clint", "err"}
Masters == {"lsu", "ifu"}
Slaves == {"soc", "clint", "err"}

\* Every register of the bus holds a value of its width.
TypeOK ==
    /\ lsu_state \in {"s_idle", "s_r_addr", "s_r_wait_mem", "s_w_addr", "s_w_data", "s_w_wait_mem", "s_wait_ready"}
    /\ lsu_op \in {"LW", "SW"} /\ lsu_addr \in Nat /\ lsu_data \in Data /\ lsu_err \in BOOLEAN
    /\ ifu_state \in {"s_idle", "s_fill_addr", "s_wait_mem"} /\ ifu_addr \in Nat
    /\ ifu_cnt \in 0 .. WordsPerBlock /\ ifu_line \in Seq(Nat)
    /\ arb_r_state \in {"r_idle", "r_busy"} /\ arb_r_owner \in Masters
    /\ arb_w_state \in {"w_idle", "w_busy"} /\ arb_w_owner \in Masters
    /\ xbar_r_state \in {"r_idle", "r_busy"} /\ xbar_r_owner \in Slaves
    /\ xbar_w_state \in {"w_idle", "w_busy"} /\ xbar_w_owner \in Slaves
    /\ mem_r_state \in {"r_idle", "r_data_valid"} /\ mem_r_addr \in Nat /\ mem_r_cnt \in 0 .. 255
    /\ mem_r_ctx \in [len : {0, WordsPerBlock - 1}, step : {0, WordBytes}]
    /\ mem_r_out \in [word : Nat, val : Values \cup {"zero"}]
    /\ mem_w_state \in {"w_idle", "w_data", "w_resp"} /\ mem_w_addr \in Nat
    /\ mem \in [Words -> Values]
    /\ err_r_state \in {"r_idle", "r_busy"} /\ err_r_cnt \in 0 .. 255
    /\ err_w_state \in {"w_idle", "w_wait_data", "w_resp"} /\ clint_addr \in Nat

\* At most one read is under way, and arbiter, crossbar, slave and master agree
\* on whose it is: no slave ever has data for a master that is not waiting, and
\* a waiting master is connected to the slave its address selects.
ReadsAgree ==
    /\ xbar_r_state = "r_busy" => arb_r_state = "r_busy"
    /\ \A m \in {"lsu", "ifu"} : RReady(m) =>
          /\ arb_r_state = "r_busy" /\ arb_r_owner = m
          /\ xbar_r_state = "r_busy" /\ xbar_r_owner = Select(ArAddr(m))
    /\ mem_r_state = "r_data_valid" => RReady(arb_r_owner) /\ xbar_r_owner = "soc"
    /\ err_r_state = "r_busy" => RReady(arb_r_owner) /\ xbar_r_owner = "err"

\* The same for the write channels.
WritesAgree ==
    /\ xbar_w_state = "w_busy" => arb_w_state = "w_busy" /\ arb_w_owner = "lsu"
    /\ lsu_state \in {"s_w_data", "s_w_wait_mem"} =>
          arb_w_state = "w_busy" /\ xbar_w_state = "w_busy" /\ xbar_w_owner = Select(lsu_addr)
    /\ mem_w_state # "w_idle" => /\ xbar_w_owner = "soc" /\ mem_w_addr = lsu_addr
                                 /\ lsu_state = IF mem_w_state = "w_data" THEN "s_w_data" ELSE "s_w_wait_mem"

\* The answer the LSU takes to WBU: a load has the value of its own word, a
\* store has reached its word, and an error is reported exactly for addresses
\* without memory (and for stores to the CLINT).
LsuAnswered ==
    lsu_state = "s_wait_ready" =>
      CASE Select(lsu_addr) = "soc" -> ~lsu_err /\ lsu_data = mem[WordOf(lsu_addr)]
        [] Select(lsu_addr) = "clint" -> lsu_err = (lsu_op = "SW") /\ (lsu_op = "LW" => lsu_data = "clint")
        [] OTHER -> lsu_err

\* A load from the CLINT reads the half of mtime it asked for.
ClintReads == RReady("lsu") /\ Select(lsu_addr) = "clint" => clint_addr = lsu_addr

\* A fill receives one beat for each word of its block, in order, from memory
\* or from the error slave, however the LSU's accesses fall in between.
FillInOrder ==
    /\ ifu_state = "s_wait_mem" => ifu_cnt < WordsPerBlock
    /\ ifu_state = "s_idle" => ifu_cnt \in {0, WordsPerBlock}
    /\ Select(ifu_addr) = "soc" =>
          \A i \in 1 .. Len(ifu_line) : ifu_line[i] = WordOf(ifu_addr) + i - 1

\* Masters, arbiter, crossbar and slaves agree on every channel about what is
\* open: no answer without a question, none for the other master.
ChannelsAgree == ReadsAgree /\ WritesAgree
\* What comes back is the answer to what was asked: the LSU's data and error,
\* the CLINT's register, the beats of a fill in the order of their addresses.
AnswersRight == LsuAnswered /\ ClintReads /\ FillInOrder

\* The fixed priority of the LSU does not starve the ICache: between two
\* accesses the LSU leaves the bus to a waiting fill.
FillServed == (ifu_state = "s_fill_addr") ~> (ifu_state = "s_idle")

\* A load or store is answered, and the LSU accepts the next one.
AccessServed == (lsu_state # "s_idle") ~> (lsu_state = "s_idle")
=============================================================================
