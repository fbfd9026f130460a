------------------------- MODULE InterconnectProofs -------------------------
(***************************************************************************)
(* The bus of Interconnect keeps its channels apart, for every map of      *)
(* addresses, block size and order of requests: the inductive invariant    *)
(* and the proofs.                                                         *)
(***************************************************************************)
EXTENDS Interconnect, TLAPS

(***************************************************************************)
(* The inductive invariant.  A read is asked for, granted, routed and      *)
(* answered; each part says what the registers hold in each phase.         *)
(***************************************************************************)
\* The arbiter is busy for its owner's request, the crossbar for the address
\* of it, and a slave for the master that waits.
ReadPhase ==
    /\ arb_r_state = "r_busy" => ArValid(arb_r_owner) \/ RReady(arb_r_owner)
    /\ xbar_r_state = "r_busy" => arb_r_state = "r_busy" /\ xbar_r_owner = Select(ArAddr(arb_r_owner))
    /\ \A m \in Masters : RReady(m) => arb_r_state = "r_busy" /\ arb_r_owner = m /\ xbar_r_state = "r_busy"
    /\ mem_r_state = "r_data_valid" <=> xbar_r_state = "r_busy" /\ RReady(arb_r_owner) /\ xbar_r_owner = "soc"
    /\ err_r_state = "r_busy" <=> xbar_r_state = "r_busy" /\ RReady(arb_r_owner) /\ xbar_r_owner = "err"

\* The slave that answers a fill is as far as the fill.
FillPhase ==
    /\ ifu_state # "s_idle" => ifu_addr \in IfuBlocks
    /\ ifu_state = "s_fill_addr" => ifu_cnt = 0
    /\ ifu_state = "s_wait_mem" =>
          /\ Select(ifu_addr) = "soc" =>
                /\ mem_r_cnt = ifu_cnt /\ mem_r_ctx = [len |-> WordsPerBlock - 1, step |-> WordBytes]
                /\ WordOf(mem_r_addr) = WordOf(ifu_addr) + ifu_cnt
                /\ mem_r_out.word = WordOf(mem_r_addr)
          /\ Select(ifu_addr) = "err" => err_r_cnt + ifu_cnt = WordsPerBlock - 1
    /\ Len(ifu_line) = ifu_cnt

\* The slave that answers a load answers that load.
LoadPhase ==
    /\ lsu_state \in {"s_r_addr", "s_r_wait_mem"} => lsu_op = "LW"
    /\ lsu_state = "s_r_wait_mem" =>
          /\ Select(lsu_addr) = "soc" =>
                /\ mem_r_cnt = 0 /\ mem_r_ctx = [len |-> 0, step |-> 0]
                /\ mem_r_addr = lsu_addr /\ mem_r_out.val = mem[WordOf(lsu_addr)]
          /\ Select(lsu_addr) = "clint" => clint_addr = lsu_addr
          /\ Select(lsu_addr) = "err" => err_r_cnt = 0
    /\ mem_r_state = "r_data_valid" => mem_r_out.val \in Values

\* The same for stores: only the LSU writes.
Storing == {"s_w_addr", "s_w_data", "s_w_wait_mem"}
WritePhase ==
    /\ lsu_state \in Storing => lsu_op = "SW" /\ lsu_data \in Values
    /\ arb_w_state = "w_busy" => lsu_state \in Storing /\ arb_w_owner = "lsu"
    /\ xbar_w_state = "w_busy" => arb_w_state = "w_busy" /\ xbar_w_owner = Select(lsu_addr)
    /\ lsu_state \in {"s_w_data", "s_w_wait_mem"} => xbar_w_state = "w_busy"
    /\ lsu_state = "s_w_data" => Select(lsu_addr) # "clint"
    /\ mem_w_state = "w_data" <=> lsu_state = "s_w_data" /\ Select(lsu_addr) = "soc"
    /\ mem_w_state = "w_resp" <=> lsu_state = "s_w_wait_mem" /\ Select(lsu_addr) = "soc"
    /\ mem_w_state # "w_idle" => mem_w_addr = lsu_addr
    /\ err_w_state = "w_wait_data" <=> lsu_state = "s_w_data" /\ Select(lsu_addr) = "err"
    /\ err_w_state = "w_resp" <=> lsu_state = "s_w_wait_mem" /\ Select(lsu_addr) = "err"
    /\ mem_w_state = "w_resp" => mem[WordOf(lsu_addr)] = lsu_data

IInv == TypeOK /\ ReadPhase /\ FillPhase /\ LoadPhase /\ WritePhase /\ LsuAnswered /\ FillInOrder

-----------------------------------------------------------------------------
(***************************************************************************)
(* Addresses and words.                                                    *)
(***************************************************************************)
\* Every address selects one of the three slaves of AXI4CrossBar.
LEMMA SelectSlave == \A a : Select(a) \in Slaves
BY DEF Select, Slaves

\* The word of an address is a number, and the next word follows it.
LEMMA WordOfNext == \A a \in Nat : WordOf(a) \in Nat /\ WordOf(a + WordBytes) = WordOf(a) + 1
BY WordBytesAssumption DEF WordOf

\* An address of memory has its word in memory.
LEMMA SocWord == \A a \in Nat : Select(a) = "soc" => WordOf(a) \in Words
<1> SUFFICES ASSUME NEW a \in Nat, Select(a) = "soc"
             PROVE  WordOf(a) \in Words
    OBVIOUS
<1>1. PICK r \in SocRanges : InRange(a, r)
    BY DEF Select
<1>2. r[1] \in Nat /\ r[2] \in Nat
    BY RangesAssumption
<1>3. a \in r[1] .. r[2]
    BY <1>1, <1>2 DEF InRange
<1> QED BY <1>3 DEF Words

(***************************************************************************)
(* When a handshake happens.  Under the invariant the slave of the request *)
(* is always ready for it, so what fires depends on the master's state.    *)
(***************************************************************************)
LEMMA ReadFires ==
    ASSUME TypeOK, ReadPhase
    PROVE  /\ ar_fire <=> xbar_r_state = "r_busy" /\ ArValid(arb_r_owner)
           /\ r_fire <=> RReady(arb_r_owner)
           /\ RReady("lsu") => ~RReady("ifu")
           /\ \A m \in Masters : RReady(m) => r_fire /\ arb_r_owner = m
           /\ \A m \in Masters : ~(RReady(m) /\ ArValid(m))
<1>1. \A m \in Masters : ~(RReady(m) /\ ArValid(m))
    BY DEF RReady, ArValid
<1>2. ar_fire <=> xbar_r_state = "r_busy" /\ ArValid(arb_r_owner)
    BY <1>1, SelectSlave DEF ar_fire, slave_ar_valid, ArReady, ReadPhase, TypeOK, Slaves
<1>3. r_fire <=> RReady(arb_r_owner)
    BY SelectSlave DEF r_fire, RValid, ReadPhase, TypeOK, Slaves
<1>4. RReady("lsu") => ~RReady("ifu")
    BY DEF ReadPhase, Masters
<1> QED BY <1>1, <1>2, <1>3, <1>4 DEF ReadPhase, Masters

\* Which write handshakes fire is decided by the two state machines alone.
LEMMA WriteFires ==
    ASSUME TypeOK, WritePhase
    PROVE  /\ aw_fire <=> xbar_w_state = "w_busy" /\ lsu_state = "s_w_addr"
           /\ w_fire <=> (aw_fire /\ Select(lsu_addr) = "clint") \/ lsu_state = "s_w_data"
           /\ b_fire <=> lsu_state = "s_w_wait_mem"
           /\ xbar_w_state = "w_busy" => xbar_w_owner = Select(lsu_addr)
<1>1. aw_fire <=> xbar_w_state = "w_busy" /\ lsu_state = "s_w_addr"
    BY SelectSlave DEF aw_fire, slave_aw_valid, AwReady, AwValid, WritePhase, TypeOK, Slaves
<1>2. w_fire <=> (aw_fire /\ Select(lsu_addr) = "clint") \/ lsu_state = "s_w_data"
    BY <1>1, SelectSlave DEF w_fire, WReady, WValid, WritePhase, TypeOK, Slaves, Storing
<1>3. b_fire <=> lsu_state = "s_w_wait_mem"
    BY SelectSlave DEF b_fire, BValid, BReady, WritePhase, TypeOK, Slaves, Storing
<1> QED BY <1>1, <1>2, <1>3 DEF WritePhase

(***************************************************************************)
(* What is open after a clock edge.                                        *)
(***************************************************************************)
\* The masters after an edge, in terms of their state before it.
LEMMA MastersMove ==
    ASSUME TypeOK, ReadPhase, WritePhase, Next
    PROVE  /\ ArValid("lsu")' => lsu_state \in {"s_idle", "s_r_addr"}
           /\ lsu_state = "s_r_addr" =>
                 /\ lsu_state' = IF ar_fire /\ arb_r_owner = "lsu" THEN "s_r_wait_mem" ELSE "s_r_addr"
                 /\ lsu_addr' = lsu_addr /\ lsu_op' = lsu_op
           /\ lsu_state = "s_r_wait_mem" => lsu_state' = "s_wait_ready" /\ lsu_addr' = lsu_addr /\ lsu_op' = lsu_op
           /\ RReady("lsu")' => lsu_state = "s_r_addr"
           /\ ifu_state = "s_fill_addr" =>
                 /\ ifu_state' = IF ar_fire /\ arb_r_owner = "ifu" THEN "s_wait_mem" ELSE "s_fill_addr"
                 /\ ifu_addr' = ifu_addr /\ ifu_cnt' = ifu_cnt /\ ifu_line' = ifu_line
           /\ ifu_state = "s_wait_mem" =>
                 /\ ifu_state' = IF RLast(xbar_r_owner) THEN "s_idle" ELSE "s_wait_mem"
                 /\ ifu_addr' = ifu_addr /\ ifu_cnt' = ifu_cnt + 1 /\ ifu_line' = Append(ifu_line, RData.word)
           /\ RReady("ifu")' => ifu_state \in {"s_fill_addr", "s_wait_mem"}
<1> USE DEF Next
<1>1. /\ MasterRFire("lsu") <=> lsu_state = "s_r_wait_mem"
      /\ MasterRFire("ifu") <=> ifu_state = "s_wait_mem"
    BY ReadFires DEF MasterRFire, RReady, Masters
<1>2. ArValid("lsu")' => lsu_state \in {"s_idle", "s_r_addr"}
    BY DEF LsuEdge, ArValid, LsuNextRead, LsuNextWrite, lsu_vars
<1>3. lsu_state = "s_r_addr" =>
         /\ lsu_state' = IF ar_fire /\ arb_r_owner = "lsu" THEN "s_r_wait_mem" ELSE "s_r_addr"
         /\ lsu_addr' = lsu_addr /\ lsu_op' = lsu_op
    BY DEF LsuEdge, MasterArFire
<1>4. lsu_state = "s_r_wait_mem" => lsu_state' = "s_wait_ready" /\ lsu_addr' = lsu_addr /\ lsu_op' = lsu_op
    BY <1>1 DEF LsuEdge, LsuNextRead
<1>5. RReady("lsu")' => lsu_state = "s_r_addr"
    BY <1>1 DEF LsuEdge, RReady, LsuNextRead, LsuNextWrite, lsu_vars
<1>6. ifu_state = "s_fill_addr" =>
         /\ ifu_state' = IF ar_fire /\ arb_r_owner = "ifu" THEN "s_wait_mem" ELSE "s_fill_addr"
         /\ ifu_addr' = ifu_addr /\ ifu_cnt' = ifu_cnt /\ ifu_line' = ifu_line
    BY DEF IfuEdge, MasterArFire
<1>7. ifu_state = "s_wait_mem" =>
         /\ ifu_state' = IF RLast(xbar_r_owner) THEN "s_idle" ELSE "s_wait_mem"
         /\ ifu_addr' = ifu_addr /\ ifu_cnt' = ifu_cnt + 1 /\ ifu_line' = Append(ifu_line, RData.word)
    BY <1>1 DEF IfuEdge
<1>8. RReady("ifu")' => ifu_state \in {"s_fill_addr", "s_wait_mem"}
    BY DEF IfuEdge, RReady, ifu_vars
<1> QED BY <1>2, <1>3, <1>4, <1>5, <1>6, <1>7, <1>8

\* The beat that ends a read: the only one of a load, the last one of a fill.
LEMMA LastBeat ==
    ASSUME TypeOK, ReadPhase, FillPhase, LoadPhase
    PROVE  /\ RReady("lsu") => RLast(xbar_r_owner)
           /\ RReady("ifu") => (RLast(xbar_r_owner) <=> ifu_cnt = WordsPerBlock - 1)
<1>1. ASSUME RReady("lsu") PROVE RLast(xbar_r_owner)
    <2>1. xbar_r_owner = Select(lsu_addr) /\ xbar_r_owner \in Slaves
        BY <1>1, SelectSlave DEF ReadPhase, Masters, ArAddr
    <2>2. CASE xbar_r_owner = "soc"
        BY <1>1, <2>1, <2>2 DEF RReady, RLast, LoadPhase
    <2>3. CASE xbar_r_owner # "soc"
        BY <1>1, <2>1, <2>3 DEF RReady, RLast, LoadPhase, Slaves
    <2> QED BY <2>2, <2>3
<1>2. ASSUME RReady("ifu") PROVE RLast(xbar_r_owner) <=> ifu_cnt = WordsPerBlock - 1
    <2>1. ifu_addr \in IfuBlocks /\ xbar_r_owner = Select(ifu_addr) /\ Select(ifu_addr) \in {"soc", "err"}
        BY <1>2, SelectSlave, FillsAssumption DEF RReady, ReadPhase, FillPhase, Masters, Slaves, ArAddr
    <2>2. CASE Select(ifu_addr) = "soc"
        BY <1>2, <2>1, <2>2 DEF RReady, RLast, FillPhase
    <2>3. CASE Select(ifu_addr) = "err"
        <3>1. err_r_cnt \in Int /\ ifu_cnt \in Int /\ WordsPerBlock \in Int /\ err_r_cnt + ifu_cnt = WordsPerBlock - 1
            BY <1>2, <2>3, WordBytesAssumption DEF RReady, FillPhase, TypeOK
        <3>2. RLast(xbar_r_owner) <=> err_r_cnt = 0
            BY <2>1, <2>3 DEF RLast
        <3> QED BY <3>1, <3>2
    <2> QED BY <2>1, <2>2, <2>3
<1> QED BY <1>1, <1>2

\* The registers of arbiter and crossbar after an edge, by the phase of the read.
LEMMA ReadMoves ==
    ASSUME TypeOK, ReadPhase, FillPhase, LoadPhase, WritePhase, Next
    PROVE  /\ arb_r_state = "r_idle" =>
                 /\ arb_r_owner' = r_candidate /\ arb_r_state' = (IF any_read THEN "r_busy" ELSE "r_idle")
                 /\ xbar_r_state = "r_idle" /\ xbar_r_state' = "r_idle"
                 /\ mem_r_state' = "r_idle" /\ err_r_state' = "r_idle" /\ ~ar_fire /\ ~r_fire
           /\ arb_r_state = "r_busy" /\ xbar_r_state = "r_idle" =>
                 /\ arb_r_owner' = arb_r_owner /\ arb_r_state' = "r_busy" /\ ArValid(arb_r_owner)
                 /\ xbar_r_state' = "r_busy" /\ xbar_r_owner' = Select(ArAddr(arb_r_owner))
                 /\ mem_r_state' = "r_idle" /\ err_r_state' = "r_idle" /\ ~ar_fire /\ ~r_fire
           /\ xbar_r_state = "r_busy" /\ ArValid(arb_r_owner) =>
                 /\ ar_fire /\ ~r_fire /\ arb_r_owner' = arb_r_owner /\ arb_r_state' = "r_busy"
                 /\ xbar_r_state' = "r_busy" /\ xbar_r_owner' = xbar_r_owner
                 /\ mem_r_state' = (IF xbar_r_owner = "soc" THEN "r_data_valid" ELSE "r_idle")
                 /\ err_r_state' = (IF xbar_r_owner = "err" THEN "r_busy" ELSE "r_idle")
           /\ RReady(arb_r_owner) /\ RLast(xbar_r_owner) =>
                 /\ ~ar_fire /\ r_fire /\ arb_r_owner' = arb_r_owner /\ arb_r_state' = "r_idle"
                 /\ xbar_r_state' = "r_idle" /\ mem_r_state' = "r_idle" /\ err_r_state' = "r_idle"
           /\ RReady(arb_r_owner) /\ ~RLast(xbar_r_owner) =>
                 /\ ~ar_fire /\ r_fire /\ arb_r_owner' = arb_r_owner /\ arb_r_state' = "r_busy"
                 /\ xbar_r_state' = "r_busy" /\ xbar_r_owner' = xbar_r_owner
                 /\ mem_r_state' = mem_r_state /\ err_r_state' = err_r_state
<1> USE ReadFires DEF Next, ArbiterEdge, ArbROwner, CrossBarEdge, XbarROwner, XbarRDone, r_done
<1>1. ASSUME arb_r_state = "r_idle"
      PROVE  /\ arb_r_owner' = r_candidate /\ arb_r_state' = (IF any_read THEN "r_busy" ELSE "r_idle")
             /\ xbar_r_state = "r_idle" /\ xbar_r_state' = "r_idle"
             /\ mem_r_state' = "r_idle" /\ err_r_state' = "r_idle" /\ ~ar_fire /\ ~r_fire
    BY <1>1 DEF ReadPhase, TypeOK, slave_ar_valid, DPICMemEdge, ErrorSlaveEdge, SlaveArFire, SlaveRFire, Masters
<1>2. ASSUME arb_r_state = "r_busy", xbar_r_state = "r_idle"
      PROVE  /\ arb_r_owner' = arb_r_owner /\ arb_r_state' = "r_busy" /\ ArValid(arb_r_owner)
             /\ xbar_r_state' = "r_busy" /\ xbar_r_owner' = Select(ArAddr(arb_r_owner))
             /\ mem_r_state' = "r_idle" /\ err_r_state' = "r_idle" /\ ~ar_fire /\ ~r_fire
    BY <1>2 DEF ReadPhase, TypeOK, slave_ar_valid, DPICMemEdge, ErrorSlaveEdge, SlaveArFire, SlaveRFire, Masters
<1>3. ASSUME xbar_r_state = "r_busy", ArValid(arb_r_owner)
      PROVE  /\ ar_fire /\ ~r_fire /\ arb_r_owner' = arb_r_owner /\ arb_r_state' = "r_busy"
             /\ xbar_r_state' = "r_busy" /\ xbar_r_owner' = xbar_r_owner
             /\ mem_r_state' = (IF xbar_r_owner = "soc" THEN "r_data_valid" ELSE "r_idle")
             /\ err_r_state' = (IF xbar_r_owner = "err" THEN "r_busy" ELSE "r_idle")
    BY <1>3 DEF ReadPhase, TypeOK, slave_ar_valid, DPICMemEdge, ErrorSlaveEdge, SlaveArFire, SlaveRFire, Masters
<1>4. ASSUME RReady(arb_r_owner), RLast(xbar_r_owner)
      PROVE  /\ ~ar_fire /\ r_fire /\ arb_r_owner' = arb_r_owner /\ arb_r_state' = "r_idle"
             /\ xbar_r_state' = "r_idle" /\ mem_r_state' = "r_idle" /\ err_r_state' = "r_idle"
    BY <1>4 DEF ReadPhase, TypeOK, slave_ar_valid, DPICMemEdge, ErrorSlaveEdge, SlaveArFire, SlaveRFire, Masters
<1>5. ASSUME RReady(arb_r_owner), ~RLast(xbar_r_owner)
      PROVE  /\ ~ar_fire /\ r_fire /\ arb_r_owner' = arb_r_owner /\ arb_r_state' = "r_busy"
             /\ xbar_r_state' = "r_busy" /\ xbar_r_owner' = xbar_r_owner
             /\ mem_r_state' = mem_r_state /\ err_r_state' = err_r_state
    BY <1>5 DEF ReadPhase, TypeOK, slave_ar_valid, DPICMemEdge, ErrorSlaveEdge, SlaveArFire, SlaveRFire, Masters
<1> QED BY <1>1, <1>2, <1>3, <1>4, <1>5

-----------------------------------------------------------------------------
(***************************************************************************)
(* Each part of the invariant survives an edge.                            *)
(***************************************************************************)
LEMMA ReadPhaseStep ==
    ASSUME TypeOK, ReadPhase, FillPhase, LoadPhase, WritePhase, Next
    PROVE  ReadPhase'
<1>1. CASE arb_r_state = "r_idle"
    <2>1. ~RReady("lsu") /\ ~RReady("ifu")
        BY <1>1 DEF ReadPhase, Masters
    <2>2. ~RReady("lsu")' /\ ~RReady("ifu")'
        BY <1>1, <2>1, MastersMove, ReadMoves DEF RReady
    <2>3. arb_r_state' = "r_busy" => ArValid(arb_r_owner)'
        BY <1>1, MastersMove, ReadMoves DEF any_read, r_candidate, ArValid
    <2> QED BY <1>1, <2>2, <2>3, ReadMoves DEF ReadPhase, Masters, RReady
<1>2. CASE arb_r_state = "r_busy" /\ xbar_r_state = "r_idle"
    <2>1. ~RReady("lsu") /\ ~RReady("ifu")
        BY <1>2 DEF ReadPhase, Masters
    <2>2. ~RReady("lsu")' /\ ~RReady("ifu")'
        BY <1>2, <2>1, MastersMove, ReadMoves DEF RReady
    <2>3. arb_r_owner \in Masters
        BY DEF TypeOK
    <2>4. ArValid(arb_r_owner)' /\ ArAddr(arb_r_owner)' = ArAddr(arb_r_owner)
        BY <1>2, <2>3, MastersMove, ReadMoves DEF ArValid, ArAddr, Masters
    <2> QED BY <1>2, <2>2, <2>3, <2>4, ReadMoves DEF ReadPhase, Masters, RReady, ArValid, ArAddr
<1>3. CASE xbar_r_state = "r_busy" /\ ArValid(arb_r_owner)
    <2>1. ~RReady("lsu") /\ ~RReady("ifu") /\ arb_r_owner \in Masters
        BY <1>3, ReadFires DEF ReadPhase, Masters, TypeOK
    <2>2. /\ \A m \in Masters : RReady(m)' <=> m = arb_r_owner
          /\ ArAddr(arb_r_owner)' = ArAddr(arb_r_owner)
        BY <1>3, <2>1, MastersMove, ReadMoves DEF RReady, ArValid, ArAddr, Masters
    <2> QED BY <1>3, <2>1, <2>2, ReadMoves, SelectSlave DEF ReadPhase, Masters, RReady, ArValid, ArAddr, Slaves
<1>4. CASE RReady(arb_r_owner) /\ RLast(xbar_r_owner)
    <2>1. \A m \in Masters : ~RReady(m)'
        BY <1>4, MastersMove, ReadMoves, LastBeat, ReadFires DEF RReady, Masters, ReadPhase
    <2> QED BY <1>4, <2>1, ReadMoves DEF ReadPhase
<1>5. CASE RReady(arb_r_owner) /\ ~RLast(xbar_r_owner)
    <2>1. arb_r_owner = "ifu" /\ RReady("ifu")
        BY <1>5, LastBeat DEF TypeOK, Masters
    <2>2. /\ \A m \in Masters : RReady(m)' <=> m = "ifu"
          /\ ArAddr("ifu")' = ArAddr("ifu")
        BY <1>5, <2>1, MastersMove, ReadMoves, ReadFires DEF RReady, Masters, ArAddr, ArValid
    <2> QED BY <1>5, <2>1, <2>2, ReadMoves DEF ReadPhase, Masters, RReady, ArValid, ArAddr
<1> QED BY <1>1, <1>2, <1>3, <1>4, <1>5 DEF ReadPhase, TypeOK, ArValid

\* The two state machines of a write go through its phases together.
LEMMA WritePhaseStep ==
    ASSUME TypeOK, ReadPhase, WritePhase, Next
    PROVE  WritePhase'
<1> USE DEF Next
<1>1. /\ xbar_w_state = "w_idle" => lsu_state \notin {"s_w_data", "s_w_wait_mem"}
      /\ arb_w_state = "w_idle" => xbar_w_state = "w_idle"
    BY DEF WritePhase, TypeOK
<1>2. CASE lsu_state \notin Storing
    <2>1. ~aw_fire /\ ~w_fire /\ ~b_fire /\ ~slave_aw_valid /\ ~any_write
        BY <1>2, WriteFires DEF Storing, slave_aw_valid, any_write, AwValid
    <2>2. /\ arb_w_state' = "w_idle" /\ xbar_w_state' = "w_idle" /\ mem_w_state' = "w_idle" /\ err_w_state' = "w_idle"
        BY <1>2, <2>1 DEF WritePhase, TypeOK, ArbiterEdge, CrossBarEdge, DPICMemEdge, ErrorSlaveEdge, Storing
    <2>3. /\ lsu_state' \in Storing => lsu_state' = "s_w_addr" /\ lsu_op' = "SW" /\ lsu_data' \in Values
        BY <1>2, <2>1 DEF LsuEdge, Storing, lsu_vars, LsuNextRead
    <2> QED BY <2>2, <2>3 DEF WritePhase, Storing
<1>3. CASE lsu_state = "s_w_addr"
    <2>1. lsu_addr' = lsu_addr /\ lsu_op' = lsu_op /\ lsu_data' = lsu_data /\ lsu_op = "SW" /\ lsu_data \in Values
        BY <1>3 DEF LsuEdge, WritePhase, Storing
    <2>2. CASE xbar_w_state = "w_idle"
        <3>1. ~aw_fire /\ ~w_fire /\ ~b_fire
            BY <1>3, <2>2, WriteFires
        <3>2. lsu_state' = "s_w_addr" /\ mem_w_state' = "w_idle" /\ err_w_state' = "w_idle"
            BY <1>3, <3>1 DEF LsuEdge, LsuNextWrite, WritePhase, TypeOK, DPICMemEdge, ErrorSlaveEdge
        <3>3. arb_w_state' = "w_busy" /\ arb_w_owner' = "lsu"
            BY <1>3, <3>1 DEF ArbiterEdge, WritePhase, TypeOK, any_write, w_candidate, AwValid
        <3>4. xbar_w_state' = "w_busy" => xbar_w_owner' = Select(lsu_addr')
            BY <2>1, <2>2 DEF CrossBarEdge
        <3> QED BY <2>1, <3>2, <3>3, <3>4 DEF WritePhase, Storing
    <2>3. CASE xbar_w_state = "w_busy"
        <3>1. aw_fire /\ (w_fire <=> Select(lsu_addr) = "clint") /\ ~b_fire /\ xbar_w_owner = Select(lsu_addr)
            BY <1>3, <2>3, WriteFires
        <3>2. lsu_state' = IF Select(lsu_addr) = "clint" THEN "s_w_wait_mem" ELSE "s_w_data"
            BY <1>3, <3>1 DEF LsuEdge, LsuNextWrite
        <3>3. /\ mem_w_state' = (IF Select(lsu_addr) = "soc" THEN "w_data" ELSE "w_idle")
              /\ err_w_state' = (IF Select(lsu_addr) = "err" THEN "w_wait_data" ELSE "w_idle")
              /\ Select(lsu_addr) = "soc" => mem_w_addr' = lsu_addr
            BY <1>3, <3>1 DEF WritePhase, TypeOK, DPICMemEdge, ErrorSlaveEdge
        <3>4. arb_w_state' = "w_busy" /\ arb_w_owner' = "lsu" /\ xbar_w_state' = "w_busy" /\ xbar_w_owner' = Select(lsu_addr')
            BY <2>1, <2>3, <3>1 DEF ArbiterEdge, CrossBarEdge, WritePhase, XbarWDone
        <3> QED BY <2>1, <3>2, <3>3, <3>4, SelectSlave DEF WritePhase, Storing, Slaves
    <2> QED BY <2>2, <2>3 DEF TypeOK
<1>4. CASE lsu_state = "s_w_data"
    <2>1. /\ lsu_addr' = lsu_addr /\ lsu_op' = lsu_op /\ lsu_data' = lsu_data /\ lsu_op = "SW" /\ lsu_data \in Values
          /\ ~aw_fire /\ w_fire /\ ~b_fire /\ xbar_w_owner = Select(lsu_addr) /\ lsu_state' = "s_w_wait_mem"
        BY <1>4, WriteFires DEF LsuEdge, WritePhase, Storing
    <2>2. arb_w_state' = "w_busy" /\ arb_w_owner' = "lsu" /\ xbar_w_state' = "w_busy" /\ xbar_w_owner' = Select(lsu_addr')
        BY <1>4, <2>1 DEF ArbiterEdge, CrossBarEdge, WritePhase, XbarWDone
    <2>3. /\ mem_w_state' = (IF Select(lsu_addr) = "soc" THEN "w_resp" ELSE "w_idle")
          /\ err_w_state' = (IF Select(lsu_addr) = "err" THEN "w_resp" ELSE "w_idle")
          /\ Select(lsu_addr) = "soc" => mem_w_addr' = lsu_addr
        BY <1>4, <2>1 DEF WritePhase, TypeOK, DPICMemEdge, ErrorSlaveEdge
    <2>4. Select(lsu_addr) = "soc" => mem'[WordOf(lsu_addr)] = lsu_data
        <3>1. ASSUME Select(lsu_addr) = "soc"
              PROVE  mem'[WordOf(lsu_addr)] = lsu_data
            <4>1. mem' = [mem EXCEPT ![WordOf(lsu_addr)] = lsu_data]
                BY <1>4, <2>1, <3>1 DEF WritePhase, DPICMemEdge
            <4>2. mem \in [Words -> Values] /\ WordOf(lsu_addr) \in Words
                BY <3>1, SocWord DEF TypeOK
            <4> QED BY <4>1, <4>2
        <3> QED BY <3>1
    <2> QED BY <2>1, <2>2, <2>3, <2>4 DEF WritePhase, Storing
<1>5. CASE lsu_state = "s_w_wait_mem"
    <2>1. ~aw_fire /\ ~w_fire /\ b_fire /\ xbar_w_owner = Select(lsu_addr) /\ lsu_state' = "s_wait_ready"
        BY <1>5, WriteFires DEF LsuEdge, WritePhase
    <2>2. arb_w_state' = "w_idle" /\ xbar_w_state' = "w_idle"
        BY <1>5, <2>1 DEF ArbiterEdge, CrossBarEdge, WritePhase, XbarWDone
    <2>3. mem_w_state' = "w_idle" /\ err_w_state' = "w_idle"
        BY <1>5, <2>1 DEF WritePhase, TypeOK, DPICMemEdge, ErrorSlaveEdge
    <2> QED BY <2>1, <2>2, <2>3 DEF WritePhase, Storing
<1> QED BY <1>2, <1>3, <1>4, <1>5 DEF Storing

\* The registers of the slave that reads, in each phase of the read.
LEMMA BeatMoves ==
    ASSUME TypeOK, ReadPhase, FillPhase, LoadPhase, WritePhase, Next
    PROVE  /\ ar_fire /\ xbar_r_owner = "soc" =>
                 /\ mem_r_cnt' = 0 /\ mem_r_addr' = ArAddr(arb_r_owner) /\ r_en
                 /\ mem_r_ctx' = [len |-> ArLen(arb_r_owner), step |-> ArStep(arb_r_owner)]
           /\ ar_fire /\ xbar_r_owner = "err" => err_r_cnt' = ArLen(arb_r_owner)
           /\ ar_fire /\ xbar_r_owner = "clint" => clint_addr' = ArAddr(arb_r_owner)
           /\ r_fire /\ xbar_r_owner = "soc" /\ ~RLast("soc") =>
                 /\ mem_r_cnt' = (mem_r_cnt + 1) % 256 /\ mem_r_addr' = mem_r_addr + mem_r_ctx.step /\ r_en
                 /\ mem_r_ctx' = mem_r_ctx
           /\ r_fire /\ xbar_r_owner = "err" => err_r_cnt' = (err_r_cnt - 1) % 256
           /\ r_en => mem_r_out' \in [word : {WordOf(mem_r_addr')},
                                      val : {mem[WordOf(mem_r_addr')], mem'[WordOf(mem_r_addr')]}]
<1> USE DEF Next, DPICMemEdge, SlaveArFire, SlaveRFire, r_next_addr
<1>1. ~(ar_fire /\ r_fire)
    BY ReadFires DEF TypeOK
<1>2. /\ ar_fire /\ xbar_r_owner = "soc" => mem_r_state = "r_idle"
      /\ r_fire /\ xbar_r_owner = "soc" => mem_r_state = "r_data_valid"
    BY ReadFires DEF ReadPhase, TypeOK
<1>3. ASSUME ar_fire, xbar_r_owner = "soc"
      PROVE  /\ mem_r_cnt' = 0 /\ mem_r_addr' = ArAddr(arb_r_owner) /\ r_en
             /\ mem_r_ctx' = [len |-> ArLen(arb_r_owner), step |-> ArStep(arb_r_owner)]
    BY <1>2, <1>3 DEF r_en
<1>4. ASSUME r_fire, xbar_r_owner = "soc", ~RLast("soc")
      PROVE  /\ mem_r_cnt' = (mem_r_cnt + 1) % 256 /\ mem_r_addr' = mem_r_addr + mem_r_ctx.step /\ r_en
             /\ mem_r_ctx' = mem_r_ctx
    BY <1>1, <1>2, <1>4 DEF r_en
<1>5. /\ ar_fire /\ xbar_r_owner = "err" => err_r_cnt' = ArLen(arb_r_owner)
      /\ r_fire /\ xbar_r_owner = "err" => err_r_cnt' = (err_r_cnt - 1) % 256
    BY <1>1 DEF ErrorSlaveEdge, ErrCnt
<1>6. ar_fire /\ xbar_r_owner = "clint" => clint_addr' = ArAddr(arb_r_owner)
    BY DEF ClintEdge, ClintAddr
<1>7. r_en => mem_r_out' \in [word : {WordOf(mem_r_addr')},
                              val : {mem[WordOf(mem_r_addr')], mem'[WordOf(mem_r_addr')]}]
    BY DEF ReadAddr
<1> QED BY <1>3, <1>4, <1>5, <1>6, <1>7

\* Memory stays memory.
LEMMA MemType ==
    ASSUME TypeOK, WritePhase, Next
    PROVE  /\ mem' \in [Words -> Values]
           /\ \A a : (lsu_state # "s_w_data" => mem'[a] = mem[a])
<1> USE DEF Next
<1>1. CASE mem_w_state = "w_data" /\ w_fire /\ xbar_w_owner = "soc"
    <2>1. lsu_data \in Values /\ lsu_state = "s_w_data"
        BY <1>1 DEF WritePhase, Storing
    <2>2. mem' = [mem EXCEPT ![WordOf(mem_w_addr)] = lsu_data]
        BY <1>1 DEF DPICMemEdge
    <2> QED BY <2>1, <2>2 DEF TypeOK
<1>2. CASE ~(mem_w_state = "w_data" /\ w_fire /\ xbar_w_owner = "soc")
    BY <1>2 DEF DPICMemEdge, TypeOK
<1> QED BY <1>1, <1>2

\* What a fill holds after an edge.
LEMMA FillPhaseStep ==
    ASSUME TypeOK, ReadPhase, FillPhase, LoadPhase, WritePhase, FillInOrder, Next
    PROVE  FillPhase'
<1>0. WordsPerBlock \in 1 .. 256 /\ ifu_cnt \in Nat /\ ifu_addr \in Nat /\ mem_r_addr \in Nat /\ ifu_line \in Seq(Nat)
    BY WordBytesAssumption DEF TypeOK
<1>1. CASE ifu_state = "s_idle"
    BY <1>1 DEF Next, IfuEdge, ifu_vars, FillPhase
<1>2. CASE ifu_state = "s_fill_addr" /\ ~(ar_fire /\ arb_r_owner = "ifu")
    BY <1>2, MastersMove DEF FillPhase
<1>3. CASE ifu_state = "s_fill_addr" /\ ar_fire /\ arb_r_owner = "ifu"
    <2>1. /\ ifu_state' = "s_wait_mem" /\ ifu_addr' = ifu_addr /\ ifu_cnt' = 0 /\ ifu_line' = ifu_line
          /\ Len(ifu_line) = 0 /\ ifu_addr \in IfuBlocks
        BY <1>3, MastersMove DEF FillPhase
    <2>2. xbar_r_owner = Select(ifu_addr)
        BY <1>3, ReadFires DEF ReadPhase, ArAddr
    <2>3. ASSUME Select(ifu_addr) = "soc"
          PROVE  /\ mem_r_cnt' = 0 /\ mem_r_ctx' = [len |-> WordsPerBlock - 1, step |-> WordBytes]
                 /\ mem_r_addr' = ifu_addr /\ mem_r_out'.word = WordOf(ifu_addr)
        BY <1>3, <2>2, <2>3, BeatMoves DEF ArLen, ArStep, ArAddr
    <2>4. Select(ifu_addr) = "err" => err_r_cnt' = WordsPerBlock - 1
        BY <1>3, <2>2, BeatMoves DEF ArLen
    <2>5. WordOf(ifu_addr) \in Nat
        BY <1>0, WordOfNext
    <2> QED BY <1>0, <2>1, <2>3, <2>4, <2>5 DEF FillPhase
<1>4. CASE ifu_state = "s_wait_mem"
    <2>1. /\ r_fire /\ ifu_addr' = ifu_addr /\ ifu_cnt' = ifu_cnt + 1 /\ ifu_line' = Append(ifu_line, RData.word)
          /\ ifu_state' = (IF RLast(xbar_r_owner) THEN "s_idle" ELSE "s_wait_mem")
          /\ Len(ifu_line) = ifu_cnt /\ ifu_addr \in IfuBlocks /\ xbar_r_owner = Select(ifu_addr)
          /\ RLast(xbar_r_owner) <=> ifu_cnt = WordsPerBlock - 1
        BY <1>4, MastersMove, ReadFires, LastBeat DEF FillPhase, RReady, ReadPhase, Masters, ArAddr
    <2>2. Len(ifu_line') = ifu_cnt'
        BY <1>0, <2>1
    <2>3. ASSUME Select(ifu_addr) = "soc", ~RLast("soc")
          PROVE  /\ mem_r_cnt' = ifu_cnt + 1 /\ mem_r_ctx' = [len |-> WordsPerBlock - 1, step |-> WordBytes]
                 /\ mem_r_addr' = mem_r_addr + WordBytes /\ mem_r_out'.word = WordOf(mem_r_addr')
        <3>1. mem_r_cnt = ifu_cnt /\ mem_r_ctx = [len |-> WordsPerBlock - 1, step |-> WordBytes]
            BY <1>4, <2>3 DEF FillPhase
        <3>2. ifu_cnt \in 0 .. 254
            BY <1>0, <1>4, <2>1, <2>3 DEF FillInOrder
        <3>3. (ifu_cnt + 1) % 256 = ifu_cnt + 1
            BY <3>2
        <3> QED BY <2>1, <2>3, <3>1, <3>3, BeatMoves
    <2>4. Select(ifu_addr) = "soc" /\ ~RLast("soc") => WordOf(mem_r_addr') = WordOf(ifu_addr) + ifu_cnt'
        <3>1. WordOf(mem_r_addr + WordBytes) = WordOf(mem_r_addr) + 1 /\ WordOf(ifu_addr) \in Nat
            BY <1>0, WordOfNext
        <3> QED BY <1>0, <1>4, <2>1, <2>3, <3>1 DEF FillPhase
    <2>5. ASSUME Select(ifu_addr) = "err", ~RLast("err")
          PROVE  err_r_cnt' + ifu_cnt' = WordsPerBlock - 1
        <3>1. err_r_cnt + ifu_cnt = WordsPerBlock - 1 /\ err_r_cnt \in 0 .. 255 /\ err_r_cnt # 0
            BY <1>4, <2>5 DEF FillPhase, TypeOK, RLast
        <3>2. (err_r_cnt - 1) % 256 = err_r_cnt - 1
            BY <3>1
        <3> QED BY <1>0, <2>1, <2>5, <3>1, <3>2, BeatMoves
    <2> QED BY <2>1, <2>2, <2>3, <2>4, <2>5 DEF FillPhase
<1> QED BY <1>1, <1>2, <1>3, <1>4 DEF TypeOK

\* What a load holds after an edge.
LEMMA LoadPhaseStep ==
    ASSUME TypeOK, ReadPhase, FillPhase, LoadPhase, WritePhase, FillInOrder, Next
    PROVE  LoadPhase'
<1>1. lsu_state' \in {"s_r_addr", "s_r_wait_mem"} => lsu_op' = "LW"
    BY MastersMove DEF Next, LsuEdge, LsuNextRead, LsuNextWrite, lsu_vars, LoadPhase
<1>2. ASSUME lsu_state' = "s_r_wait_mem"
      PROVE  /\ Select(lsu_addr') = "soc" =>
                   /\ mem_r_cnt' = 0 /\ mem_r_ctx' = [len |-> 0, step |-> 0]
                   /\ mem_r_addr' = lsu_addr' /\ mem_r_out'.val = mem'[WordOf(lsu_addr')]
             /\ Select(lsu_addr') = "clint" => clint_addr' = lsu_addr'
             /\ Select(lsu_addr') = "err" => err_r_cnt' = 0
    <2>1. ar_fire /\ arb_r_owner = "lsu" /\ lsu_addr' = lsu_addr /\ lsu_state = "s_r_addr"
        BY <1>2, MastersMove DEF RReady
    <2>2. xbar_r_owner = Select(lsu_addr)
        BY <2>1, ReadFires DEF ReadPhase, ArAddr
    <2>3. \A a : mem'[a] = mem[a]
        BY <2>1, MemType
    <2>4. ASSUME Select(lsu_addr) = "soc"
          PROVE  /\ mem_r_cnt' = 0 /\ mem_r_ctx' = [len |-> 0, step |-> 0]
                 /\ mem_r_addr' = lsu_addr /\ mem_r_out'.val = mem'[WordOf(lsu_addr)]
        BY <2>1, <2>2, <2>3, <2>4, BeatMoves DEF ArLen, ArStep, ArAddr
    <2>5. Select(lsu_addr) = "clint" => clint_addr' = lsu_addr
        BY <2>1, <2>2, BeatMoves DEF ArAddr
    <2>6. Select(lsu_addr) = "err" => err_r_cnt' = 0
        BY <2>1, <2>2, BeatMoves DEF ArLen
    <2> QED BY <2>1, <2>4, <2>5, <2>6
<1>3. ASSUME mem_r_state' = "r_data_valid"
      PROVE  mem_r_out'.val \in Values
    <2> DEFINE m == arb_r_owner
    <2>1. /\ m \in Masters /\ xbar_r_owner = "soc" /\ Select(ArAddr(m)) = "soc"
          /\ ar_fire \/ (r_fire /\ RReady("ifu") /\ ~RLast("soc"))
        <3>1. CASE arb_r_state = "r_idle" \/ xbar_r_state = "r_idle"
            BY <1>3, <3>1, ReadMoves DEF TypeOK
        <3>2. CASE xbar_r_state = "r_busy" /\ ArValid(arb_r_owner)
            <4>1. ar_fire /\ mem_r_state' = (IF xbar_r_owner = "soc" THEN "r_data_valid" ELSE "r_idle")
                BY <3>2, ReadMoves
            <4>2. m \in Masters /\ xbar_r_owner = Select(ArAddr(m))
                BY <3>2 DEF TypeOK, ReadPhase
            <4> QED BY <1>3, <4>1, <4>2
        <3>3. CASE RReady(arb_r_owner) /\ RLast(xbar_r_owner)
            BY <1>3, <3>3, ReadMoves
        <3>4. CASE RReady(arb_r_owner) /\ ~RLast(xbar_r_owner)
            BY <1>3, <3>4, ReadMoves, LastBeat DEF ReadPhase, TypeOK, Masters
        <3> QED BY <3>1, <3>2, <3>3, <3>4 DEF TypeOK, ReadPhase, ArValid
    <2>2. r_en /\ mem_r_addr' \in Nat /\ WordOf(mem_r_addr') \in Words
        <3>1. CASE ar_fire
            <4>1. mem_r_addr' = ArAddr(m) /\ r_en /\ ArAddr(m) \in Nat
                BY <2>1, <3>1, BeatMoves DEF ArAddr, TypeOK
            <4> QED BY <2>1, <4>1, SocWord
        <3>2. CASE r_fire /\ RReady("ifu") /\ ~RLast("soc")
            <4>1. m = "ifu" /\ ifu_state = "s_wait_mem" /\ Select(ifu_addr) = "soc" /\ ifu_addr \in IfuBlocks
                BY <2>1, <3>2 DEF RReady, ReadPhase, FillPhase, ArAddr, Masters
            <4>2. r_en /\ mem_r_addr' = mem_r_addr + WordBytes /\ WordOf(mem_r_addr) = WordOf(ifu_addr) + ifu_cnt
                BY <2>1, <3>2, <4>1, BeatMoves DEF FillPhase
            <4>3. ifu_cnt \in Nat /\ mem_r_addr \in Nat /\ ifu_addr \in Nat /\ WordsPerBlock \in Nat /\ WordBytes \in Nat
                BY WordBytesAssumption DEF TypeOK
            <4>4. ifu_cnt # WordsPerBlock - 1 /\ ifu_cnt < WordsPerBlock
                BY <2>1, <3>2, <4>1, LastBeat DEF FillInOrder
            <4>5. WordOf(mem_r_addr') = WordOf(ifu_addr) + ifu_cnt + 1 /\ WordOf(ifu_addr) \in Nat
                BY <4>2, <4>3, WordOfNext
            <4>6. WordOf(ifu_addr) .. WordOf(ifu_addr) + WordsPerBlock - 1 \subseteq Words
                BY <4>1, BlocksAssumption
            <4> QED BY <4>2, <4>3, <4>4, <4>5, <4>6
        <3> QED BY <2>1, <3>1, <3>2
    <2>3. mem[WordOf(mem_r_addr')] \in Values /\ mem'[WordOf(mem_r_addr')] \in Values
        BY <2>2, MemType DEF TypeOK
    <2> QED BY <2>2, <2>3, BeatMoves
<1> QED BY <1>1, <1>2, <1>3 DEF LoadPhase

\* The answer the LSU holds after an edge.
LEMMA LsuAnsweredStep ==
    ASSUME TypeOK, ReadPhase, FillPhase, LoadPhase, WritePhase, LsuAnswered, Next
    PROVE  LsuAnswered'
<1> SUFFICES ASSUME lsu_state' = "s_wait_ready"
             PROVE  CASE Select(lsu_addr') = "soc" -> ~lsu_err' /\ lsu_data' = mem'[WordOf(lsu_addr')]
                      [] Select(lsu_addr') = "clint" -> lsu_err' = (lsu_op' = "SW") /\ (lsu_op' = "LW" => lsu_data' = "clint")
                      [] OTHER -> lsu_err'
    BY DEF LsuAnswered
<1>1. CASE lsu_state = "s_r_wait_mem"
    <2>1. /\ lsu_addr' = lsu_addr /\ lsu_op' = "LW" /\ xbar_r_owner = Select(lsu_addr)
          /\ lsu_data' = RData.val /\ lsu_err' = RError
        BY <1>1, ReadFires DEF Next, LsuEdge, ReadPhase, LoadPhase, Masters, RReady, MasterRFire, ArAddr, RError
    <2>2. \A a : mem'[a] = mem[a]
        BY <1>1, MemType
    <2>3. CASE xbar_r_owner = "soc"
        BY <1>1, <2>1, <2>2, <2>3 DEF LoadPhase, RData, RError
    <2>4. CASE xbar_r_owner = "clint"
        BY <2>1, <2>4 DEF RData, RError
    <2>5. CASE xbar_r_owner = "err"
        BY <2>1, <2>5 DEF RError
    <2> QED BY <2>3, <2>4, <2>5 DEF TypeOK, Slaves
<1>2. CASE lsu_state = "s_w_wait_mem"
    <2>1. /\ lsu_addr' = lsu_addr /\ lsu_op' = "SW" /\ xbar_w_owner = Select(lsu_addr)
          /\ lsu_data' = lsu_data /\ lsu_err' = BError
        BY <1>2, WriteFires DEF Next, LsuEdge, WritePhase, Storing, BError
    <2>2. \A a : mem'[a] = mem[a]
        BY <1>2, MemType
    <2>3. CASE xbar_w_owner = "soc"
        BY <1>2, <2>1, <2>2, <2>3 DEF WritePhase, BError
    <2>4. CASE xbar_w_owner = "clint"
        BY <2>1, <2>4 DEF BError
    <2>5. CASE xbar_w_owner = "err"
        BY <2>1, <2>5 DEF BError
    <2> QED BY <2>3, <2>4, <2>5 DEF TypeOK, Slaves
<1> QED BY <1>1, <1>2 DEF Next, LsuEdge, LsuNextRead, LsuNextWrite, lsu_vars

\* The words a fill has received after an edge.
LEMMA FillInOrderStep ==
    ASSUME TypeOK, ReadPhase, FillPhase, LoadPhase, WritePhase, FillInOrder, Next
    PROVE  FillInOrder'
<1>0. WordsPerBlock \in 1 .. 256 /\ ifu_cnt \in Nat /\ ifu_addr \in Nat /\ ifu_line \in Seq(Nat)
    BY WordBytesAssumption DEF TypeOK
<1>1. CASE ifu_state = "s_idle"
    BY <1>0, <1>1 DEF Next, IfuEdge, ifu_vars, FillInOrder
<1>2. CASE ifu_state = "s_fill_addr"
    BY <1>0, <1>2, MastersMove DEF FillInOrder, FillPhase
<1>3. CASE ifu_state = "s_wait_mem"
    <2>1. /\ ifu_addr' = ifu_addr /\ ifu_cnt' = ifu_cnt + 1 /\ ifu_line' = Append(ifu_line, RData.word)
          /\ ifu_state' = (IF RLast(xbar_r_owner) THEN "s_idle" ELSE "s_wait_mem")
          /\ Len(ifu_line) = ifu_cnt /\ xbar_r_owner = Select(ifu_addr)
          /\ RLast(xbar_r_owner) <=> ifu_cnt = WordsPerBlock - 1
        BY <1>3, MastersMove, ReadFires, LastBeat DEF FillPhase, RReady, ReadPhase, Masters, ArAddr
    <2>2. ifu_cnt < WordsPerBlock
        BY <1>3 DEF FillInOrder
    <2>3. Select(ifu_addr) = "soc" => RData.word = WordOf(ifu_addr) + ifu_cnt
        BY <1>3, <2>1 DEF FillPhase, RData
    <2>4. Select(ifu_addr) = "soc" => \A i \in 1 .. Len(ifu_line') : ifu_line'[i] = WordOf(ifu_addr') + i - 1
        <3>1. WordOf(ifu_addr) \in Nat
            BY <1>0, WordOfNext
        <3> QED BY <1>0, <2>1, <2>3, <3>1 DEF FillInOrder
    <2> QED BY <1>0, <2>1, <2>2, <2>4 DEF FillInOrder
<1> QED BY <1>1, <1>2, <1>3 DEF TypeOK

\* Every register keeps its type.
LEMMA TypeStep ==
    ASSUME IInv, Next
    PROVE  TypeOK'
<1> USE DEF IInv
<1>0. WordsPerBlock \in 1 .. 256 /\ WordBytes \in Nat /\ lsu_addr \in Nat /\ ifu_addr \in Nat
    BY WordBytesAssumption DEF TypeOK
<1>1. /\ lsu_state' \in {"s_idle", "s_r_addr", "s_r_wait_mem", "s_w_addr", "s_w_data", "s_w_wait_mem", "s_wait_ready"}
      /\ lsu_op' \in {"LW", "SW"} /\ lsu_addr' \in Nat
    BY AddrsAssumption DEF Next, LsuEdge, LsuNextRead, LsuNextWrite, lsu_vars, TypeOK
<1>2. lsu_data' \in Data
    <2>1. CASE lsu_state = "s_r_wait_mem"
        <3>1. lsu_data' = RData.val /\ xbar_r_owner = Select(lsu_addr)
            BY <2>1, ReadFires DEF Next, LsuEdge, ReadPhase, Masters, RReady, MasterRFire, ArAddr
        <3>2. CASE xbar_r_owner = "soc"
            <4>1. mem_r_state = "r_data_valid"
                BY <2>1, <3>1, <3>2 DEF ReadPhase, RReady, Masters
            <4> QED BY <3>1, <3>2, <4>1 DEF LoadPhase, RData, Data
        <3>3. CASE xbar_r_owner # "soc"
            BY <3>1, <3>3 DEF RData, Data, TypeOK, Slaves
        <3> QED BY <3>2, <3>3
    <2>2. CASE lsu_state # "s_r_wait_mem"
        BY <2>2 DEF Next, LsuEdge, lsu_vars, TypeOK, Data
    <2> QED BY <2>1, <2>2
<1>3. lsu_err' \in BOOLEAN
    BY DEF Next, LsuEdge, lsu_vars, TypeOK
<1>4. ifu_state' \in {"s_idle", "s_fill_addr", "s_wait_mem"} /\ ifu_addr' \in Nat
    BY AddrsAssumption DEF Next, IfuEdge, ifu_vars, TypeOK
<1>5. ifu_cnt' \in 0 .. WordsPerBlock
    BY <1>0 DEF Next, IfuEdge, ifu_vars, TypeOK, FillInOrder
<1>6. RData.word \in Nat
    <2>1. WordOf(0) \in Nat /\ WordOf(clint_addr) \in Nat
        BY WordOfNext DEF TypeOK
    <2> QED BY <2>1 DEF RData, TypeOK
<1>7. ifu_line' \in Seq(Nat)
    <2>1. ifu_line' \in {ifu_line, << >>, Append(ifu_line, RData.word)}
        BY DEF Next, IfuEdge, ifu_vars
    <2>2. ifu_line \in Seq(Nat) /\ << >> \in Seq(Nat) /\ Append(ifu_line, RData.word) \in Seq(Nat)
        BY <1>6 DEF TypeOK
    <2> QED BY <2>1, <2>2
<1>8. /\ arb_r_state' \in {"r_idle", "r_busy"} /\ arb_r_owner' \in Masters
      /\ arb_w_state' \in {"w_idle", "w_busy"} /\ arb_w_owner' \in Masters
    BY DEF Next, ArbiterEdge, ArbROwner, r_candidate, w_candidate, TypeOK, Masters
<1>9. /\ xbar_r_state' \in {"r_idle", "r_busy"} /\ xbar_r_owner' \in Slaves
      /\ xbar_w_state' \in {"w_idle", "w_busy"} /\ xbar_w_owner' \in Slaves
    BY SelectSlave DEF Next, CrossBarEdge, XbarROwner, TypeOK
<1>10. ArAddr(arb_r_owner) \in Nat /\ ArLen(arb_r_owner) \in 0 .. 255
    BY <1>0 DEF ArAddr, ArLen
<1>11. /\ mem_r_state' \in {"r_idle", "r_data_valid"} /\ mem_r_addr' \in Nat
    BY <1>0, <1>10 DEF Next, DPICMemEdge, r_next_addr, TypeOK
<1>12. mem_r_cnt' \in 0 .. 255
    <2>1. (mem_r_cnt + 1) % 256 \in 0 .. 255
        BY DEF TypeOK
    <2>2. mem_r_cnt' \in {0, (mem_r_cnt + 1) % 256, mem_r_cnt}
        BY DEF Next, DPICMemEdge
    <2> QED BY <2>1, <2>2 DEF TypeOK
<1>13. mem_r_ctx' \in [len : {0, WordsPerBlock - 1}, step : {0, WordBytes}]
    BY DEF Next, DPICMemEdge, ArLen, ArStep, TypeOK
<1>14. mem_w_state' \in {"w_idle", "w_data", "w_resp"}
    BY DEF Next, DPICMemEdge, TypeOK
<1>15. mem_w_addr' \in Nat
    BY <1>0 DEF Next, DPICMemEdge, TypeOK
<1>16. mem' \in [Words -> Values]
    BY MemType
<1>17. err_r_cnt' \in 0 .. 255
    <2>1. err_r_cnt - 1 \in Int /\ (err_r_cnt - 1) % 256 \in 0 .. 255
        BY DEF TypeOK
    <2>2. err_r_cnt' \in {ArLen(arb_r_owner), (err_r_cnt - 1) % 256, 0}
        BY DEF Next, ErrorSlaveEdge, ErrCnt
    <2> QED BY <1>10, <2>1, <2>2
<1>18. err_r_state' \in {"r_idle", "r_busy"} /\ clint_addr' \in Nat
    BY <1>10 DEF Next, ErrorSlaveEdge, ClintEdge, ClintAddr, TypeOK
<1>19. err_w_state' \in {"w_idle", "w_wait_data", "w_resp"}
    BY DEF Next, ErrorSlaveEdge, TypeOK
<1>20. mem_r_out' \in [word : Nat, val : Values \cup {"zero"}]
    <2>1. CASE r_en
        <3>1. mem_r_out' \in [word : {WordOf(mem_r_addr')},
                              val : {mem[WordOf(mem_r_addr')], mem'[WordOf(mem_r_addr')]}]
            BY <2>1, BeatMoves
        <3>2. WordOf(mem_r_addr') \in Nat
            BY <1>11, WordOfNext
        <3>3. mem_r_state' = "r_data_valid"
            BY <2>1 DEF Next, DPICMemEdge, r_en, TypeOK
        <3>4. mem_r_out'.val \in Values
            BY <3>3, LoadPhaseStep DEF LoadPhase
        <3> QED BY <3>1, <3>2, <3>4
    <2>2. CASE ~r_en
        BY <2>2 DEF Next, DPICMemEdge
    <2> QED BY <2>1, <2>2
<1> QED BY <1>1, <1>2, <1>3, <1>4, <1>5, <1>7, <1>8, <1>9, <1>11, <1>12, <1>13, <1>14, <1>15, <1>16,
           <1>17, <1>18, <1>19, <1>20 DEF TypeOK

-----------------------------------------------------------------------------
(***************************************************************************)
(* The invariant, and what follows from it.                                *)
(***************************************************************************)
LEMMA IInvInit == Init => IInv
<1> SUFFICES ASSUME Init PROVE IInv
    OBVIOUS
<1>0. /\ 0 \in 0 .. WordsPerBlock /\ << >> \in Seq(Nat)
      /\ [len |-> 0, step |-> 0] \in [len : {0, WordsPerBlock - 1}, step : {0, WordBytes}]
      /\ [word |-> 0, val |-> "zero"] \in [word : Nat, val : Values \cup {"zero"}]
    BY WordBytesAssumption
<1>1. TypeOK
    <2>1. /\ lsu_state = "s_idle" /\ lsu_op \in {"LW", "SW"} /\ lsu_addr \in Nat /\ lsu_data \in Data
          /\ ifu_state = "s_idle" /\ ifu_addr \in Nat /\ arb_r_owner \in Masters /\ arb_w_owner \in Masters
          /\ xbar_r_owner \in Slaves /\ xbar_w_owner \in Slaves
          /\ mem_r_addr \in Nat /\ mem_r_cnt \in 0 .. 255 /\ mem_w_addr \in Nat /\ mem \in [Words -> Values]
          /\ err_r_cnt \in 0 .. 255 /\ clint_addr \in Nat
        BY DEF Init, Data, Masters, Slaves
    <2>2. /\ lsu_err \in BOOLEAN /\ ifu_cnt \in 0 .. WordsPerBlock /\ ifu_line \in Seq(Nat)
          /\ mem_r_ctx \in [len : {0, WordsPerBlock - 1}, step : {0, WordBytes}]
          /\ mem_r_out \in [word : Nat, val : Values \cup {"zero"}]
        BY <1>0, Zenon DEF Init
    <2> QED BY <2>1, <2>2 DEF Init, TypeOK
<1>2. ReadPhase
    BY DEF Init, ReadPhase, RReady, ArValid, Masters
<1>3. FillPhase /\ LoadPhase
    BY DEF Init, FillPhase, LoadPhase
<1>4. WritePhase
    BY DEF Init, WritePhase, Storing
<1>5. LsuAnswered /\ FillInOrder
    BY DEF Init, LsuAnswered, FillInOrder
<1> QED BY <1>1, <1>2, <1>3, <1>4, <1>5 DEF IInv

\* Every edge keeps the invariant.
LEMMA IInvNext == IInv /\ [Next]_vars => IInv'
<1> SUFFICES ASSUME IInv, [Next]_vars PROVE IInv'
    OBVIOUS
<1>1. CASE Next
    BY <1>1, TypeStep, ReadPhaseStep, FillPhaseStep, LoadPhaseStep, WritePhaseStep, LsuAnsweredStep,
       FillInOrderStep DEF IInv
<1>2. CASE UNCHANGED vars
    <2>1. TypeOK'
        BY <1>2 DEF IInv, TypeOK, vars
    <2>2. ReadPhase'
        BY <1>2 DEF IInv, ReadPhase, RReady, ArValid, ArAddr, vars
    <2>3. FillPhase' /\ LoadPhase'
        BY <1>2 DEF IInv, FillPhase, LoadPhase, vars
    <2>4. WritePhase'
        BY <1>2 DEF IInv, WritePhase, vars
    <2>5. LsuAnswered' /\ FillInOrder'
        BY <1>2 DEF IInv, LsuAnswered, FillInOrder, vars
    <2> QED BY <2>1, <2>2, <2>3, <2>4, <2>5 DEF IInv
<1> QED BY <1>1, <1>2

\* The invariant implies the three properties of the bus.
LEMMA IInvImplies == IInv => TypeOK /\ ChannelsAgree /\ AnswersRight
<1> SUFFICES ASSUME IInv PROVE ChannelsAgree /\ AnswersRight
    BY DEF IInv
<1>1. ReadsAgree
    BY DEF IInv, ReadPhase, ReadsAgree, Masters, RReady
<1>2. WritesAgree
    BY SelectSlave DEF IInv, WritePhase, WritesAgree, TypeOK, Slaves, Storing
<1>3. ClintReads
    BY DEF IInv, LoadPhase, ClintReads, RReady
<1> QED BY <1>1, <1>2, <1>3 DEF ChannelsAgree, AnswersRight, IInv

\* The registers of the bus keep their widths, whatever the masters ask for:
\* the beat counters of the slaves and of a fill never leave their range.
THEOREM TypeCorrect == Spec => []TypeOK
<1>1. Init => IInv
    BY IInvInit
<1>2. IInv /\ [Next]_vars => IInv'
    BY IInvNext
<1>3. IInv => TypeOK
    BY IInvImplies
<1> QED BY <1>1, <1>2, <1>3, PTL DEF Spec

\* Masters, AXI4Arbiter, AXI4CrossBar and slaves agree on every channel about
\* the transaction under way, for every map of addresses and block size.
THEOREM ChannelsStayApart == Spec => []ChannelsAgree
<1>1. Init => IInv
    BY IInvInit
<1>2. IInv /\ [Next]_vars => IInv'
    BY IInvNext
<1>3. IInv => ChannelsAgree
    BY IInvImplies
<1> QED BY <1>1, <1>2, <1>3, PTL DEF Spec

\* A load gets the value of its word, a store reaches its word, an error means
\* that nobody answers, and the beats of a fill arrive in the order of the
\* block, whatever DPICMem does for the other master in between.
THEOREM AnswersCorrect == Spec => []AnswersRight
<1>1. Init => IInv
    BY IInvInit
<1>2. IInv /\ [Next]_vars => IInv'
    BY IInvNext
<1>3. IInv => AnswersRight
    BY IInvImplies
<1> QED BY <1>1, <1>2, <1>3, PTL DEF Spec
=============================================================================
