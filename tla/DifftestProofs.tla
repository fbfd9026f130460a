--------------------------- MODULE DifftestProofs ---------------------------
(***************************************************************************)
(* Differential testing raises no false alarm: for every program, memory   *)
(* map and answer of the devices, as long as the core makes no mistake and *)
(* the program stays clear of the gaps.  The reference's memory need not   *)
(* be the core's: they agree where there is memory.                        *)
(***************************************************************************)
EXTENDS Difftest, IsaProofs

IsMachine(m) ==
    /\ m = [pc |-> m.pc, regs |-> m.regs, csrs |-> m.csrs, mem |-> m.mem]
    /\ m.mem = [s \in Slots |-> m.mem[s]]
    /\ m.regs = [i \in Regs |-> m.regs[i]]

Agree(r, m) ==
    /\ r.pc = m.pc /\ r.regs = m.regs /\ r.csrs = m.csrs
    /\ \A s \in MemSlots : r.mem[s] = m.mem[s]

Inv ==
    /\ IsMachine(dut) /\ IsMachine(ref)
    /\ wrong = "none" /\ ~waived =>
         sdb_state = "Running" /\ Agree(ref, dut) /\ expected_pc = dut.pc

\* What a load returns matters to loads only.
LEMMA ValueWithoutLoad ==
    ASSUME NEW in, in.op # "LW", NEW src1, NEW src2, NEW pc, NEW l1, NEW l2, NEW csr
    PROVE  NemuValue(in, src1, src2, pc, l1, csr) = NemuValue(in, src1, src2, pc, l2, csr)
BY DEF NemuValue

\* Two machines that agree where there is memory meet the same exception and
\* still agree after the same instruction, if it does not access a device.
LEMMA ExecAgrees ==
    ASSUME NEW r, NEW m, IsMachine(r), IsMachine(m), Agree(r, m),
           Slot(m.pc) \in MemSlots, ~ToDevice(m)
    PROVE  Agree(ExecOnce(r), ExecOnce(m))
<1> DEFINE word == m.mem[Slot(m.pc)]
           in == InstOf[word]
           addr == Plus(m.regs[in.rs1], in.imm)
           excp == SequentialExcp(m, word)
<1>1. r.mem[Slot(r.pc)] = word
      BY DEF Agree
<1>2. SequentialExcp(r, word) = excp
      BY DEF Agree, SequentialExcp
<1>3. CASE excp.valid
  <2>1. ExecOnce(m) = RaiseIntr(m, excp) /\ ExecOnce(r) = RaiseIntr(r, excp)
        BY <1>1, <1>2, <1>3 DEF ExecOnce
  <2>2. QED
        BY <2>1 DEF RaiseIntr, IsMachine, Agree
<1>4. CASE ~excp.valid
  <2>1. ASSUME in.op \in {"LW", "SW"}
        PROVE  Slot(addr) \in MemSlots
        BY <2>1 DEF ToDevice, IsAccess, Fetched, Address, in_device
  <2> DEFINE value(x) == NemuValue(in, m.regs[in.rs1], m.regs[in.rs2], m.pc, x.mem[Slot(addr)], m.csrs[in.csr])
  <2>2. value(r) = value(m)
    <3>1. CASE in.op = "LW"
      <4>1. r.mem[Slot(addr)] = m.mem[Slot(addr)]
            BY <2>1, <3>1 DEF Agree
      <4>2. QED
            BY <4>1
    <3>2. CASE in.op # "LW"
          BY <3>2, ValueWithoutLoad
    <3>3. QED
          BY <3>1, <3>2
  <2>3. ExecOnce(r).pc = ExecOnce(m).pc
    <3>1. ExecOnce(m).pc = NemuDnpc(in, m.regs[in.rs1], m.regs[in.rs2], m.pc, m.csrs["mepc"])
          BY <1>4 DEF ExecOnce, IsMachine
    <3>2. ExecOnce(r).pc = NemuDnpc(in, r.regs[in.rs1], r.regs[in.rs2], r.pc, r.csrs["mepc"])
          BY <1>1, <1>2, <1>4 DEF ExecOnce, IsMachine
    <3>3. QED
          BY <3>1, <3>2 DEF Agree
  <2>4. ExecOnce(r).regs = ExecOnce(m).regs
    <3>1. ExecOnce(m).regs = IF WritesRd(in) THEN [m.regs EXCEPT ![in.rd] = value(m)] ELSE m.regs
          BY <1>4 DEF ExecOnce, IsMachine
    <3>2. ExecOnce(r).regs = IF WritesRd(in) THEN [m.regs EXCEPT ![in.rd] = value(r)] ELSE m.regs
          BY <1>1, <1>2, <1>4 DEF ExecOnce, IsMachine, Agree
    <3>3. HIDE DEF value, in
    <3>4. QED
          BY <2>2, <3>1, <3>2
  <2>5. ExecOnce(r).csrs = ExecOnce(m).csrs
    <3>1. ExecOnce(m).csrs = NemuCsrs(in, m.regs[in.rs1], m.csrs)
          BY <1>4 DEF ExecOnce, IsMachine
    <3>2. ExecOnce(r).csrs = NemuCsrs(in, r.regs[in.rs1], r.csrs)
          BY <1>1, <1>2, <1>4 DEF ExecOnce, IsMachine
    <3>3. QED
          BY <3>1, <3>2 DEF Agree
  <2>6. \A s \in MemSlots : ExecOnce(r).mem[s] = ExecOnce(m).mem[s]
    <3>1. ExecOnce(m).mem = IF in.op = "SW" THEN [m.mem EXCEPT ![Slot(addr)] = m.regs[in.rs2]] ELSE m.mem
          BY <1>4 DEF ExecOnce, IsMachine
    <3>2. ExecOnce(r).mem = IF in.op = "SW" THEN [r.mem EXCEPT ![Slot(addr)] = m.regs[in.rs2]] ELSE r.mem
          BY <1>1, <1>2, <1>4 DEF ExecOnce, IsMachine, Agree
    <3>3. QED
          BY <3>1, <3>2, MemSlotsAssumption DEF IsMachine, Agree
  <2>7. QED
        BY <2>3, <2>4, <2>5, <2>6 DEF Agree
<1>5. QED
      BY <1>3, <1>4

\* An instruction turns a machine into a machine.
LEMMA ExecMachine == ASSUME NEW m, IsMachine(m) PROVE IsMachine(ExecOnce(m))
<1> DEFINE in == InstOf[m.mem[Slot(m.pc)]]
           excp == SequentialExcp(m, m.mem[Slot(m.pc)])
<1>1. CASE excp.valid
      BY <1>1 DEF ExecOnce, RaiseIntr, IsMachine
<1>2. CASE ~excp.valid
  <2>1. ExecOnce(m).mem \in {m.mem, [m.mem EXCEPT ![Slot(Plus(m.regs[in.rs1], in.imm))] = m.regs[in.rs2]]}
        BY <1>2 DEF ExecOnce, IsMachine
  <2>2. ExecOnce(m).mem = [s \in Slots |-> ExecOnce(m).mem[s]]
        BY <2>1 DEF IsMachine
  <2>3. ExecOnce(m).regs = [i \in Regs |-> ExecOnce(m).regs[i]]
    <3>1. PICK v : ExecOnce(m).regs \in {m.regs, [m.regs EXCEPT ![in.rd] = v]}
          BY <1>2 DEF ExecOnce, IsMachine
    <3>2. QED
          BY <3>1 DEF IsMachine
  <2>4. ExecOnce(m) = [pc |-> ExecOnce(m).pc, regs |-> ExecOnce(m).regs,
                       csrs |-> ExecOnce(m).csrs, mem |-> ExecOnce(m).mem]
        BY <1>2 DEF ExecOnce, IsMachine
  <2>5. QED
        BY <2>2, <2>3, <2>4 DEF IsMachine
<1>3. QED
      BY <1>1, <1>2

\* What a load from or a store to memory does not do: trap, jump, and, for a
\* store, write a register, for a load, write memory.
LEMMA MemoryAccess ==
    ASSUME NEW m, IsMachine(m), Supported(m), IsAccess(Fetched(m)), ~ToDevice(m)
    PROVE  /\ ExecOnce(m).pc = Plus(m.pc, Four)
           /\ ExecOnce(m).csrs = m.csrs
           /\ Fetched(m).op = "SW" => ExecOnce(m).regs = m.regs
           /\ Fetched(m).op = "LW" => ExecOnce(m).mem = m.mem
<1> DEFINE word == m.mem[Slot(m.pc)]
           in == InstOf[word]
<1>1. in.op \in {"LW", "SW"} /\ in = Fetched(m)
      BY DEF IsAccess, Fetched
<1>2. Slot(Plus(m.regs[in.rs1], in.imm)) \notin FaultSlots /\ Slot(m.pc) \notin FaultSlots
      BY MemSlotsAssumption DEF ToDevice, in_device, Address, Fetched, Supported
<1>3. SequentialExcp(m, word) = NoExcp
      BY <1>1, <1>2 DEF SequentialExcp, Supported
<1>4. ~SequentialExcp(m, word).valid
      BY <1>3 DEF NoExcp
<1>5. in.op \notin DOMAIN OpImm \cup DOMAIN OpReg \cup DOMAIN OpCsr \cup DOMAIN OpBranch
      BY <1>1 DEF OpImm, OpReg, OpCsr, OpBranch
<1>6. ExecOnce(m).pc = NemuDnpc(in, m.regs[in.rs1], m.regs[in.rs2], m.pc, m.csrs["mepc"])
      BY <1>4 DEF ExecOnce, IsMachine
<1>7. NemuDnpc(in, m.regs[in.rs1], m.regs[in.rs2], m.pc, m.csrs["mepc"]) = Plus(m.pc, Four)
      BY <1>1, <1>5 DEF NemuDnpc
<1>8. ExecOnce(m).csrs = NemuCsrs(in, m.regs[in.rs1], m.csrs)
      BY <1>4 DEF ExecOnce, IsMachine
<1>9. NemuCsrs(in, m.regs[in.rs1], m.csrs) = m.csrs
      BY <1>5 DEF NemuCsrs
<1>10. ASSUME in.op = "SW" PROVE ExecOnce(m).regs = m.regs
  <2>1. ~WritesRd(in)
        BY <1>5, <1>10 DEF WritesRd
  <2>2. QED
        BY <1>4, <2>1 DEF ExecOnce, IsMachine
<1>11. ASSUME in.op = "LW" PROVE ExecOnce(m).mem = m.mem
      BY <1>4, <1>11 DEF ExecOnce, IsMachine
<1>12. QED
      BY <1>1, <1>6, <1>7, <1>8, <1>9, <1>10, <1>11

\* The image, the registers and the pc are the same at the start.
LEMMA InvInit == Init => Inv
<1> SUFFICES ASSUME Init PROVE Inv
    OBVIOUS
<1>1. PICK image \in Images : dut = Reset(image)
      BY DEF Init
<1>2. IsMachine(dut)
      BY <1>1, ImagesAssumption DEF IsMachine, Reset
<1>3. QED
      BY <1>1, <1>2 DEF Init, Inv, Agree, Reset

\* The machines stay machines, whatever goes wrong.
LEMMA MachinesNext ==
    ASSUME IsMachine(dut), IsMachine(ref), NEW d \in DeviceValues, NEW e \in Errors(dut), Retire(d, e)
    PROVE  IsMachine(dut)' /\ IsMachine(ref)'
<1> DEFINE m == Correct(dut, d)
<1>1. IsMachine(m)
  <2>1. CASE ToDevice(dut) /\ ~Trapped(dut)
    <3>1. m = [dut EXCEPT !.pc = Plus(dut.pc, Four), !.regs = Answered(dut, d)]
          BY <2>1 DEF Correct
    <3>2. Answered(dut, d) = [i \in Regs |-> Answered(dut, d)[i]]
          BY DEF Answered, IsMachine
    <3>3. m.regs = Answered(dut, d) /\ m.mem = dut.mem
          BY <3>1 DEF IsMachine
    <3>4. m = [pc |-> m.pc, regs |-> m.regs, csrs |-> m.csrs, mem |-> m.mem]
          BY <3>1 DEF IsMachine
    <3>5. QED
          BY <3>2, <3>3, <3>4 DEF IsMachine
  <2>2. CASE ~(ToDevice(dut) /\ ~Trapped(dut))
        BY <2>2, ExecMachine DEF Correct
  <2>3. QED
        BY <2>1, <2>2
<1> HIDE DEF m
<1>2. ASSUME NEW err, NEW i PROVE IsMachine(Broken(m, err, i))
  <2>1. CASE err = "reg"
        BY <1>1, <2>1 DEF Broken, IsMachine
  <2>2. CASE err = "pc"
        BY <1>1, <2>2 DEF Broken, IsMachine
  <2>3. CASE err = "store"
        BY <1>1, <2>3 DEF Broken, IsMachine
  <2>4. CASE err \notin {"reg", "pc", "store"}
        BY <1>1, <2>4 DEF Broken
  <2>5. QED
        BY <2>1, <2>2, <2>3, <2>4
<1>3. dut' = Broken(m, e[1], e[2])
      BY DEF Retire, m
<1>4. IsMachine(dut')
      BY <1>2, <1>3
<1>5. ref' \in {ref, ExecOnce(ref)} \cup {sync_regs_to_ref(dut', dnpc(dut.pc))}
      BY DEF Retire, difftest_step
<1>6. ASSUME NEW n, IsMachine(n), NEW pc PROVE IsMachine(sync_regs_to_ref(n, pc))
  <2> DEFINE x == sync_regs_to_ref(n, pc)
  <2>1. ref = [pc |-> ref.pc, regs |-> ref.regs, csrs |-> ref.csrs, mem |-> ref.mem]
        BY DEF IsMachine
  <2>2. x = [ref EXCEPT !.pc = pc, !.regs = n.regs, !.csrs = n.csrs]
        BY DEF sync_regs_to_ref
  <2>3. x = [pc |-> x.pc, regs |-> x.regs, csrs |-> x.csrs, mem |-> x.mem] /\ x.mem = ref.mem /\ x.regs = n.regs
    <3> HIDE DEF x
    <3> QED BY <2>1, <2>2
  <2>4. QED
        BY <1>6, <2>3 DEF IsMachine
<1>7. IsMachine(ref')
      BY <1>4, <1>5, <1>6, ExecMachine
<1>8. QED
      BY <1>4, <1>7 DEF IsMachine

\* Without an error the reference follows, whether the instruction is compared
\* or skipped.
LEMMA AgreeNext ==
    ASSUME IsMachine(dut), IsMachine(ref), NEW d \in DeviceValues, NEW e \in Errors(dut), Retire(d, e),
           Agree(ref, dut), expected_pc = dut.pc, e[1] = "none",
           ~Gap(Correct(dut, d), Fetched(dut))
    PROVE  sdb_state' = "Running" /\ Agree(ref', dut') /\ expected_pc' = dut'.pc
<1> DEFINE in == Fetched(dut)
           m == Correct(dut, d)
<1>1. dut' = m /\ difftest_step(m, dut.pc, in) /\ sdb_state = "Running" /\ Supported(dut)
      BY DEF Retire, Broken
<1>2. CASE is_accessing_device(m, in)
  <2>1. /\ sdb_state' = "Running" /\ expected_pc' = Plus(dut.pc, Four)
        /\ ref' = [ref EXCEPT !.pc = Plus(dut.pc, Four), !.regs = m.regs, !.csrs = m.csrs]
        BY <1>1, <1>2 DEF difftest_step, dnpc, sync_regs_to_ref
  <2>2. /\ m.pc = Plus(dut.pc, Four)
        /\ m.mem = dut.mem
    <3>1. CASE ToDevice(dut)
      <4>1. ~Trapped(dut)
            BY <3>1 DEF Gap
      <4>2. QED
            BY <3>1, <4>1 DEF Correct, IsMachine
    <3>2. CASE ~ToDevice(dut)
      <4>1. m = ExecOnce(dut)
            BY <3>2 DEF Correct
      <4>2. IsAccess(in)
            BY <1>2 DEF is_accessing_device
      <4>3. in.op # "SW"
        <5>1. SUFFICES ASSUME in.op = "SW" PROVE FALSE
              OBVIOUS
        <5>2. m.regs = dut.regs
              BY <1>1, <3>2, <4>1, <4>2, <5>1, MemoryAccess
        <5>3. QED
              BY <1>2, <3>2, <5>2 DEF is_accessing_device, ToDevice, Address
      <4>4. in.op = "LW"
            BY <4>2, <4>3 DEF IsAccess
      <4>5. QED
            BY <1>1, <3>2, <4>1, <4>2, <4>4, MemoryAccess
    <3>3. QED
          BY <3>1, <3>2
  <2>3. QED
        BY <1>1, <2>1, <2>2 DEF Agree, IsMachine
<1>3. CASE ~is_accessing_device(m, in)
  <2>1. ~ToDevice(dut)
        BY <1>3 DEF Gap
  <2>2. Fetched(ref) = Fetched(dut)
        BY <1>1 DEF Fetched, Supported, Agree
  <2>3. ~RefPanics
        BY <1>1, <2>1, <2>2 DEF RefPanics, ToDevice, Address, Supported, Agree
  <2>4. m = ExecOnce(dut)
        BY <2>1 DEF Correct
  <2>5. Agree(ExecOnce(ref), m)
        BY <1>1, <2>1, <2>4, ExecAgrees DEF Supported
  <2>6. check_regs(m, dut.pc, ExecOnce(ref))
        BY <2>5 DEF check_regs, PcMatch, RegsMatch, Agree
  <2>7. ref' = ExecOnce(ref) /\ expected_pc' = ExecOnce(ref).pc /\ sdb_state' = "Running"
        BY <1>1, <1>3, <2>3, <2>6 DEF difftest_step
  <2>8. QED
        BY <1>1, <2>5, <2>7 DEF Agree
<1>4. QED
      BY <1>2, <1>3

\* Every step preserves the invariant.
LEMMA InvNext == Inv /\ [Next]_vars => Inv'
<1> SUFFICES ASSUME Inv, [Next]_vars PROVE Inv'
    OBVIOUS
<1>1. CASE UNCHANGED vars
      BY <1>1 DEF vars, Inv, IsMachine, Agree
<1>2. CASE Next
  <2>1. PICK d \in DeviceValues : \E e \in Errors(dut) : Retire(d, e)
        BY <1>2 DEF Next
  <2>2. PICK e \in Errors(dut) : Retire(d, e)
        BY <2>1
  <2>3. IsMachine(dut)' /\ IsMachine(ref)'
        BY <2>2, MachinesNext DEF Inv
  <2>4. ASSUME wrong' = "none", ~waived'
        PROVE  sdb_state' = "Running" /\ Agree(ref', dut') /\ expected_pc' = dut'.pc
    <3>1. e[1] = "none" /\ wrong = "none"
          BY <2>2, <2>4 DEF Retire
    <3>2. ~waived /\ ~Gap(Correct(dut, d), Fetched(dut))
      <4>1. Broken(Correct(dut, d), e[1], e[2]) = Correct(dut, d)
            BY <3>1 DEF Broken
      <4>2. QED
            BY <2>2, <2>4, <4>1 DEF Retire
    <3>3. QED
          BY <2>2, <3>1, <3>2, AgreeNext DEF Inv
  <2>5. QED
        BY <2>3, <2>4 DEF Inv, Agree
<1>3. QED
      BY <1>1, <1>2

\* difftest_step never aborts a session of a core that makes no mistake.
THEOREM NoFalseAlarms == Spec => []NoFalseAlarm
<1>1. Inv => NoFalseAlarm
      BY DEF Inv, NoFalseAlarm
<1>2. QED
      BY InvInit, InvNext, <1>1, PTL DEF Spec

AgreeInv == IsMachine(dut) /\ IsMachine(ref) /\ RegistersAgree

\* check_regs compares all registers and CSRs, and what is not compared is
\* copied.
LEMMA AgreeInvNext == AgreeInv /\ [Next]_vars => AgreeInv'
<1> SUFFICES ASSUME AgreeInv, [Next]_vars PROVE AgreeInv'
    OBVIOUS
<1>1. CASE UNCHANGED vars
      BY <1>1 DEF vars, AgreeInv, IsMachine, RegistersAgree
<1>2. CASE Next
  <2>1. PICK d \in DeviceValues : \E e \in Errors(dut) : Retire(d, e)
        BY <1>2 DEF Next
  <2>2. PICK e \in Errors(dut) : Retire(d, e)
        BY <2>1
  <2>3. IsMachine(dut)' /\ IsMachine(ref)'
        BY <2>2, MachinesNext DEF AgreeInv
  <2>4. sdb_state = "Running" /\ difftest_step(dut', dut.pc, Fetched(dut))
        BY <2>2 DEF Retire
  <2>5. RegistersAgree'
    <3>1. CASE is_accessing_device(dut', Fetched(dut))
      <4>1. /\ ref' = [ref EXCEPT !.pc = dnpc(dut.pc), !.regs = dut'.regs, !.csrs = dut'.csrs]
            /\ expected_pc' = dnpc(dut.pc)
            BY <2>4, <3>1 DEF difftest_step, sync_regs_to_ref
      <4>2. ref'.regs = dut'.regs /\ ref'.csrs = dut'.csrs /\ ref'.pc = dnpc(dut.pc)
            BY <4>1 DEF AgreeInv, IsMachine
      <4>3. QED
            BY <4>1, <4>2 DEF RegistersAgree
    <3>2. CASE ~is_accessing_device(dut', Fetched(dut)) /\ ~RefPanics
      <4>1. /\ ref' = ExecOnce(ref) /\ expected_pc' = ExecOnce(ref).pc
            /\ sdb_state' = "Running" => check_regs(dut', dut.pc, ref')
            BY <2>4, <3>2 DEF difftest_step
      <4>2. ASSUME sdb_state' = "Running" PROVE dut'.regs = ref'.regs /\ dut'.csrs = ref'.csrs
        <5>1. \A i \in Regs : dut'.regs[i] = ref'.regs[i]
              BY <4>1, <4>2 DEF check_regs, RegsMatch
        <5>2. QED
              BY <2>3, <4>1, <4>2, <5>1 DEF check_regs, IsMachine
      <4>3. QED
            BY <4>1, <4>2 DEF RegistersAgree
    <3>3. CASE ~is_accessing_device(dut', Fetched(dut)) /\ RefPanics
      <4>1. sdb_state' = "crashed"
            BY <2>4, <3>3 DEF difftest_step
      <4>2. QED
            BY <4>1 DEF RegistersAgree
    <3>4. QED
          BY <3>1, <3>2, <3>3
  <2>6. QED
        BY <2>3, <2>5 DEF AgreeInv
<1>3. QED
      BY <1>1, <1>2

\* A session that goes on has the registers of the reference, however the core
\* misbehaves.
THEOREM RegistersAlwaysAgree == Spec => []RegistersAgree
<1>1. Init => AgreeInv
  <2>1. Init => RegistersAgree
        BY DEF Init, RegistersAgree, Reset
  <2>2. QED
        BY <2>1, InvInit DEF Inv, AgreeInv
<1>2. AgreeInv => RegistersAgree
      BY DEF AgreeInv
<1>3. QED
      BY AgreeInvNext, <1>1, <1>2, PTL DEF Spec

-----------------------------------------------------------------------------
(***************************************************************************)
(* Types, which the detection of an error needs: adding four to a word     *)
(* gives another word.                                                     *)
(***************************************************************************)
LEMMA PlusFour == \A a \in Word : Plus(a, Four) \in Word /\ Plus(a, Four) # a
<1>1. Pow2(XLEN) \in Nat /\ Pow2(XLEN) > 15
      BY WordSize
<1>2. \A a \in Word : Plus(a, Four) # a
      BY <1>1 DEF Plus, Four, Word
<1>3. QED
      BY <1>2, PlusWord, FourType

\* The components of a machine have their types.
LEMMA MachineFields ==
    ASSUME NEW m \in Machine
    PROVE  /\ IsState(m) /\ IsMachine(m)
           /\ m.pc \in Word /\ m.regs \in [Regs -> Word] /\ m.csrs \in [CSRs -> Word] /\ m.mem \in [Slots -> Word]
<1>1. m.pc \in Word /\ m.regs \in [Regs -> Word] /\ m.csrs \in [CSRs -> Word] /\ m.mem \in [Slots -> Word]
      BY DEF Machine
<1>2. m = [pc |-> m.pc, regs |-> m.regs, csrs |-> m.csrs, mem |-> m.mem]
      BY DEF Machine
<1>3. QED
      BY <1>1, <1>2 DEF IsState, IsMachine

\* The reference executes machines to machines.
LEMMA ExecType ==
    ASSUME NEW m \in Machine
    PROVE  ExecOnce(m) \in Machine
<1> DEFINE n == ExecOnce(m)
           in == Cur(m)
<1>1. /\ IsState(m) /\ IsMachine(m)
      /\ m.pc \in Word /\ m.regs \in [Regs -> Word] /\ m.csrs \in [CSRs -> Word] /\ m.mem \in [Slots -> Word]
      BY MachineFields
<1>2. /\ CurWord(m) \in Word /\ in.op \in Op /\ in.rd \in Regs /\ in.csr \in CSRs /\ Addr(m) \in Word
      /\ Slot(Addr(m)) \in Slots /\ Src2(m) \in Word /\ m.csrs["mtvec"] \in Word
      BY <1>1, StateFields
<1>3. /\ WritesRd(in) => Value(m) \in Word
      /\ in.op \in CsrOps => CsrValue(m) \in Word
      /\ Dnpc(m) \in Word
      BY <1>1, ValueTypes
<1>4. CASE SeqExcp(m).valid
  <2>1. SeqExcp(m).cause \in Word /\ SeqExcp(m).tval \in Word
    <3>1. \A c \in DOMAIN ExceptionCode : ExceptionCode[c] \in 0 .. 15
          BY DEF ExceptionCode
    <3>2. \A c \in DOMAIN ExceptionCode : \A t \in Word : Excp(c, t).cause \in Word /\ Excp(c, t).tval \in Word
          BY <3>1, SmallWords DEF Excp
    <3>3. {"InstructionAddressMisaligned", "InstructionAccessFault", "IllegalInstruction", "Breakpoint",
           "LoadAccessFault", "EnvironmentCallFromMMode", "StoreAMOPageFault"} \subseteq DOMAIN ExceptionCode
          BY DEF ExceptionCode
    <3>4. NoExcp.cause \in Word /\ NoExcp.tval \in Word
          BY FourType DEF NoExcp
    <3>5. QED
          BY <1>1, <1>2, <3>2, <3>3, <3>4 DEF SeqExcp, SequentialExcp, Addr, Src1, Cur
  <2>2. n = RaiseIntr(m, SeqExcp(m))
        BY <1>4 DEF ExecOnce, SeqExcp, CurWord
  <2> DEFINE c == [m.csrs EXCEPT !["mepc"] = m.pc, !["mcause"] = SeqExcp(m).cause, !["mtval"] = SeqExcp(m).tval]
  <2>3. c \in [CSRs -> Word]
        BY <1>1, <2>1
  <2>4. n = [pc |-> m.csrs["mtvec"], regs |-> m.regs, csrs |-> c, mem |-> m.mem]
        BY <1>1, <2>2 DEF RaiseIntr, IsMachine
  <2> HIDE DEF c, n
  <2>5. n \in Machine
        BY <1>1, <1>2, <2>3, <2>4 DEF Machine
  <2>6. QED
        BY <2>5 DEF n
<1>5. CASE ~SeqExcp(m).valid
  <2> DEFINE r == IF WritesRd(in) THEN [m.regs EXCEPT ![in.rd] = Value(m)] ELSE m.regs
             c == IF in.op \in CsrOps THEN [m.csrs EXCEPT ![in.csr] = CsrValue(m)] ELSE m.csrs
             s == IF in.op = "SW" THEN [m.mem EXCEPT ![Slot(Addr(m))] = Src2(m)] ELSE m.mem
  <2>1. NemuCsrs(in, Src1(m), m.csrs) = c
        BY <1>1, <1>2, OpClasses DEF NemuCsrs, CsrValue
  <2>2. n = [pc |-> Dnpc(m), regs |-> r, csrs |-> NemuCsrs(in, Src1(m), m.csrs), mem |-> s]
        BY <1>1, <1>5 DEF ExecOnce, SeqExcp, CurWord, Cur, Src1, Src2, Addr, Value, Dnpc, IsMachine
  <2>3. r \in [Regs -> Word]
    <3> HIDE DEF in
    <3> QED BY <1>1, <1>2, <1>3
  <2>4. c \in [CSRs -> Word]
    <3> HIDE DEF in
    <3> QED BY <1>1, <1>2, <1>3
  <2>5. s \in [Slots -> Word]
    <3> HIDE DEF in
    <3> QED BY <1>1, <1>2
  <2> HIDE DEF r, c, s, n, in
  <2>6. n \in Machine
        BY <1>3, <2>1, <2>2, <2>3, <2>4, <2>5 DEF Machine
  <2>7. QED
        BY <2>6 DEF n
<1>6. QED
      BY <1>4, <1>5

\* The machine after an instruction, right or wrong, is a machine.
LEMMA RetiredType ==
    ASSUME TypeOK, NEW d \in DeviceValues, NEW e \in Errors(dut), Retire(d, e)
    PROVE  Correct(dut, d) \in Machine /\ dut' \in Machine /\ e[1] \in {"none", "reg", "pc", "store"}
<1> DEFINE c == Correct(dut, d)
           in == Fetched(dut)
<1>1. /\ dut \in Machine /\ IsMachine(dut) /\ IsState(dut) /\ dut.pc \in Word /\ dut.regs \in [Regs -> Word]
      /\ dut.csrs \in [CSRs -> Word] /\ dut.mem \in [Slots -> Word]
      BY MachineFields DEF TypeOK
<1>2. in = Cur(dut) /\ in.rd \in Regs /\ Slot(Address(dut, in)) \in Slots
  <2>1. in = Cur(dut)
        BY DEF Fetched, Cur, CurWord
  <2>2. Address(dut, in) = Addr(dut)
        BY <2>1 DEF Address, Addr, Src1
  <2>3. QED
        BY <1>1, <2>1, <2>2, StateFields
<1>3. d \in Word
      BY DeviceValuesAssumption
<1>4. c \in Machine
  <2>1. CASE ToDevice(dut) /\ ~Trapped(dut)
    <3>1. Answered(dut, d) \in [Regs -> Word]
          BY <1>1, <1>2, <1>3 DEF Answered
    <3>2. c = [dut EXCEPT !.pc = Plus(dut.pc, Four), !.regs = Answered(dut, d)]
          BY <2>1 DEF Correct
    <3>3. Plus(dut.pc, Four) \in Word
          BY <1>1, PlusFour
    <3> HIDE DEF c
    <3>4. QED
          BY <1>1, <3>1, <3>2, <3>3 DEF Machine
  <2>2. CASE ~(ToDevice(dut) /\ ~Trapped(dut))
        BY <1>1, <2>2, ExecType DEF Correct
  <2>3. QED
        BY <2>1, <2>2
<1>5. \/ e = <<"none", 0>>
      \/ e = <<"pc", 0>>
      \/ e[1] = "reg" /\ e[2] \in Regs
      \/ e[1] = "store" /\ e[2] \in Slots
      BY <1>2 DEF Errors
<1>6. e[1] \in {"none", "reg", "pc", "store"}
      BY <1>5
<1>7. dut' = Broken(c, e[1], e[2])
      BY DEF Retire
<1> HIDE DEF c
<1>8. c.pc \in Word /\ c.regs \in [Regs -> Word] /\ c.mem \in [Slots -> Word]
      BY <1>4, MachineFields
<1>9. Broken(c, e[1], e[2]) \in Machine
  <2>1. CASE e[1] = "none"
        BY <1>4, <2>1 DEF Broken
  <2>2. CASE e[1] = "pc"
    <3>1. Broken(c, e[1], e[2]) = [c EXCEPT !.pc = Plus(c.pc, Four)]
          BY <1>4, <2>2 DEF Broken, Machine
    <3>2. Plus(c.pc, Four) \in Word
          BY <1>8, PlusFour
    <3>3. QED
          BY <1>4, <3>1, <3>2 DEF Machine
  <2>3. CASE e[1] = "reg"
    <3> DEFINE r == [c.regs EXCEPT ![e[2]] = Plus(c.regs[e[2]], Four)]
    <3>1. Broken(c, e[1], e[2]) = [c EXCEPT !.regs = r]
          BY <1>4, <2>3 DEF Broken, Machine
    <3>2. r \in [Regs -> Word]
      <4>1. e[2] \in Regs /\ c.regs[e[2]] \in Word
            BY <1>5, <1>8, <2>3
      <4>2. QED
            BY <1>8, <4>1, PlusFour
    <3> HIDE DEF r
    <3>3. QED
          BY <1>4, <3>1, <3>2 DEF Machine
  <2>4. CASE e[1] = "store"
    <3> DEFINE s == [c.mem EXCEPT ![e[2]] = Plus(c.mem[e[2]], Four)]
    <3>1. Broken(c, e[1], e[2]) = [c EXCEPT !.mem = s]
          BY <1>4, <2>4 DEF Broken, Machine
    <3>2. s \in [Slots -> Word]
      <4>1. e[2] \in Slots /\ c.mem[e[2]] \in Word
            BY <1>5, <1>8, <2>4
      <4>2. QED
            BY <1>8, <4>1, PlusFour
    <3> HIDE DEF s
    <3>3. QED
          BY <1>4, <3>1, <3>2 DEF Machine
  <2>5. QED
        BY <1>6, <2>1, <2>2, <2>3, <2>4
<1>10. QED
      BY <1>4, <1>6, <1>7, <1>9 DEF c

\* Every step keeps the types.
LEMMA TypesNext == TypeOK /\ [Next]_vars => TypeOK'
<1> SUFFICES ASSUME TypeOK, [Next]_vars PROVE TypeOK'
    OBVIOUS
<1>1. CASE UNCHANGED vars
      BY <1>1 DEF vars, TypeOK
<1>2. CASE Next
  <2>1. PICK d \in DeviceValues : \E e \in Errors(dut) : Retire(d, e)
        BY <1>2 DEF Next
  <2>2. PICK e \in Errors(dut) : Retire(d, e)
        BY <2>1
  <2>3. dut' \in Machine /\ e[1] \in {"none", "reg", "pc", "store"}
        BY <2>2, RetiredType
  <2>4. /\ dut \in Machine /\ ref \in Machine /\ expected_pc \in Word /\ dut.pc \in Word
        /\ ExecOnce(ref) \in Machine /\ ExecOnce(ref).pc \in Word
        BY MachineFields, ExecType DEF TypeOK
  <2>5. dnpc(dut.pc) \in Word
        BY <2>4, PlusFour DEF dnpc
  <2>6. sync_regs_to_ref(dut', dnpc(dut.pc)) \in Machine
    <3>1. dut'.regs \in [Regs -> Word] /\ dut'.csrs \in [CSRs -> Word]
          BY <2>3, MachineFields
    <3>2. QED
          BY <2>4, <2>5, <3>1 DEF sync_regs_to_ref, Machine
  <2>7. difftest_step(dut', dut.pc, Fetched(dut)) /\ sdb_state = "Running"
        BY <2>2 DEF Retire
  <2>8. /\ ref' \in Machine /\ expected_pc' \in Word
        /\ sdb_state' \in {"Running", "Abort", "crashed"}
        BY <2>4, <2>5, <2>6, <2>7 DEF difftest_step
  <2>9. wrong' \in {"none", "reg", "pc", "store"} /\ witness' \in {"none", "skipped", "compared"}
        BY <2>2, <2>3 DEF Retire, TypeOK
  <2>10. waived' \in BOOLEAN
        BY <2>2 DEF Retire
  <2>11. QED
        BY <2>3, <2>8, <2>9, <2>10 DEF TypeOK
<1>3. QED
      BY <1>1, <1>2

\* The types hold when both machines are loaded.
LEMMA TypesInit == Init => TypeOK
<1> SUFFICES ASSUME Init PROVE TypeOK
    OBVIOUS
<1>1. PICK image \in Images : dut = Reset(image)
      BY DEF Init
<1>2. image \in [Slots -> Word] /\ 0 \in Word
      BY ImagesAssumption, FourType
<1>3. dut \in Machine
      BY <1>1, <1>2, RESET_VECTORAssumption DEF Reset, Machine
<1>4. QED
      BY <1>3, RESET_VECTORAssumption DEF Init, TypeOK

(***************************************************************************)
(* Errors are found.  A wrong register differs from the reference's when   *)
(* the instruction that writes it is compared; a wrong pc differs from the *)
(* expected one until the next instruction retires.                        *)
(***************************************************************************)
FoundInv ==
    /\ TypeOK /\ Inv
    /\ wrong = "none" => witness = "none"
    /\ wrong = "reg" => witness # "none"
    /\ wrong = "pc" /\ witness = "none" /\ ~waived /\ sdb_state = "Running" => dut.pc # expected_pc
    /\ ErrorsAreFound

\* Where the core would stand, had it made no mistake, is where the reference
\* and the next expected pc are.
LEMMA ExpectedNext ==
    ASSUME TypeOK, Inv, wrong = "none", ~waived, NEW d \in DeviceValues, NEW e \in Errors(dut), Retire(d, e), ~waived',
           e[1] \in {"reg", "pc"}
    PROVE  /\ ~is_accessing_device(dut', Fetched(dut)) => ExecOnce(ref).regs = Correct(dut, d).regs
           /\ e[1] = "pc" /\ sdb_state' = "Running" => expected_pc' = Correct(dut, d).pc
<1> DEFINE in == Fetched(dut)
           c == Correct(dut, d)
<1>1. Agree(ref, dut) /\ IsMachine(dut) /\ IsMachine(ref) /\ Supported(dut)
      BY DEF Inv, Retire
<1>2. dut' = Broken(c, e[1], e[2]) /\ difftest_step(dut', dut.pc, in) /\ ~Gap(dut', in)
      BY DEF Retire
<1>3. CASE ToDevice(dut)
  <2>1. is_accessing_device(dut', in) /\ ~Trapped(dut)
        BY <1>2, <1>3 DEF Gap
  <2>2. expected_pc' = Plus(dut.pc, Four)
        BY <1>2, <2>1 DEF difftest_step, dnpc
  <2>3. c.pc = Plus(dut.pc, Four)
        BY <1>1, <1>3, <2>1 DEF Correct, IsMachine
  <2>4. QED
        BY <2>1, <2>2, <2>3
<1>4. CASE ~ToDevice(dut)
  <2>1. c = ExecOnce(dut)
        BY <1>4 DEF Correct
  <2>2. Agree(ExecOnce(ref), c)
        BY <1>1, <1>4, <2>1, ExecAgrees DEF Supported
  <2>3. CASE is_accessing_device(dut', in)
    <3>1. expected_pc' = Plus(dut.pc, Four)
          BY <1>2, <2>3 DEF difftest_step, dnpc
    <3>2. IsAccess(in)
          BY <2>3 DEF is_accessing_device
    <3>3. c.pc = Plus(dut.pc, Four)
          BY <1>1, <1>4, <2>1, <3>2, MemoryAccess
    <3>4. QED
          BY <2>3, <3>1, <3>3
  <2>4. CASE ~is_accessing_device(dut', in)
    <3>1. sdb_state' = "Running" => expected_pc' = ExecOnce(ref).pc
          BY <1>2, <2>4 DEF difftest_step
    <3>2. QED
          BY <2>2, <3>1 DEF Agree
  <2>5. QED
        BY <2>3, <2>4
<1>5. QED
      BY <1>3, <1>4

\* An instruction that retires wrongly leaves a witness the comparison sees, or was
\* not to be compared.
LEMMA FoundNext ==
    ASSUME FoundInv, NEW d \in DeviceValues, NEW e \in Errors(dut), Retire(d, e)
    PROVE  /\ wrong' = "none" => witness' = "none"
           /\ wrong' = "reg" => witness' # "none"
           /\ wrong' = "pc" /\ witness' = "none" /\ ~waived' /\ sdb_state' = "Running" => dut'.pc # expected_pc'
           /\ ErrorsAreFound'
<1> DEFINE in == Fetched(dut)
           c == Correct(dut, d)
           seen == IF is_accessing_device(dut', in) THEN "skipped" ELSE "compared"
<1>1. /\ TypeOK /\ Inv /\ sdb_state = "Running" /\ dut' = Broken(c, e[1], e[2]) /\ difftest_step(dut', dut.pc, in)
      /\ wrong' = IF e[1] = "none" THEN wrong ELSE e[1]
      /\ witness' = IF \/ e[1] = "reg"
                       \/ e[1] = "none" /\ wrong = "pc" /\ witness = "none"
                    THEN seen ELSE witness
      /\ ~waived' => ~waived
      BY DEF FoundInv, Retire
<1>2. c \in Machine /\ e[1] \in {"none", "reg", "pc", "store"}
      BY <1>1, RetiredType
<1>3. c.pc \in Word /\ c.regs \in [Regs -> Word]
      BY <1>2, MachineFields
<1>4. e[1] # "none" => wrong = "none" /\ (e[1] = "reg" => e[2] \in Regs)
      BY DEF Errors
<1>5. wrong \in {"none", "reg", "pc", "store"} /\ waived \in BOOLEAN
      BY <1>1 DEF TypeOK
<1>6. ErrorsAreFound' <=> (wrong' \in {"reg", "pc"} /\ witness' = "compared" /\ ~waived' => sdb_state' # "Running")
      BY DEF ErrorsAreFound
<1>7. seen = "compared" /\ sdb_state' = "Running" => check_regs(dut', dut.pc, ExecOnce(ref))
      BY <1>1 DEF difftest_step
<1>8. CASE e[1] = "none"
  <2>1. wrong' = wrong
        BY <1>1, <1>8
  <2>2. CASE wrong = "pc" /\ witness = "none"
    <3>1. witness' = seen
          BY <1>1, <1>8, <2>2
    <3>2. ~waived' => dut.pc # expected_pc
          BY <1>1, <2>2 DEF FoundInv
    <3>3. seen = "compared" /\ ~waived' => sdb_state' # "Running"
          BY <1>7, <3>2 DEF check_regs, PcMatch
    <3>4. QED
          BY <1>6, <2>1, <2>2, <3>1, <3>3
  <2>3. CASE ~(wrong = "pc" /\ witness = "none")
    <3>1. witness' = witness
          BY <1>1, <1>8, <2>3
    <3>2. wrong \in {"reg", "pc"} /\ witness = "compared" => waived
          BY <1>1 DEF FoundInv, ErrorsAreFound
    <3>3. QED
          BY <1>1, <1>6, <2>1, <2>3, <3>1, <3>2 DEF FoundInv
  <2>4. QED
        BY <2>2, <2>3
<1>9. CASE e[1] = "reg"
  <2>1. wrong' = "reg" /\ witness' = seen /\ wrong = "none" /\ e[2] \in Regs
        BY <1>1, <1>4, <1>9
  <2>2. ASSUME seen = "compared", ~waived', sdb_state' = "Running" PROVE FALSE
    <3>1. ExecOnce(ref).regs = c.regs
          BY <1>1, <1>9, <2>1, <2>2, ExpectedNext
    <3>2. dut'.regs[e[2]] = Plus(c.regs[e[2]], Four)
      <4>1. dut' = [c EXCEPT !.regs = [c.regs EXCEPT ![e[2]] = Plus(c.regs[e[2]], Four)]]
            BY <1>1, <1>9 DEF Broken
      <4> HIDE DEF c
      <4>2. QED
            BY <1>2, <1>3, <2>1, <4>1 DEF Machine
    <3>3. dut'.regs[e[2]] = ExecOnce(ref).regs[e[2]]
          BY <1>7, <2>1, <2>2 DEF check_regs, RegsMatch
    <3>4. c.regs[e[2]] \in Word
          BY <1>3, <2>1
    <3> HIDE DEF c
    <3>5. QED
          BY <3>1, <3>2, <3>3, <3>4, PlusFour
  <2>3. QED
        BY <1>6, <2>1, <2>2
<1>10. CASE e[1] = "pc"
  <2>1. wrong' = "pc" /\ witness' = "none" /\ wrong = "none"
        BY <1>1, <1>4, <1>10 DEF FoundInv
  <2>2. ASSUME ~waived', sdb_state' = "Running" PROVE dut'.pc # expected_pc'
    <3>1. expected_pc' = c.pc
          BY <1>1, <1>10, <2>1, <2>2, ExpectedNext
    <3>2. dut'.pc = Plus(c.pc, Four)
      <4>1. dut' = [c EXCEPT !.pc = Plus(@, Four)]
            BY <1>1, <1>10 DEF Broken
      <4> HIDE DEF c
      <4>2. QED
            BY <1>2, <4>1 DEF Machine
    <3> HIDE DEF c
    <3>3. QED
          BY <1>3, <3>1, <3>2, PlusFour
  <2>3. QED
        BY <1>6, <2>1, <2>2
<1>11. CASE e[1] = "store"
      BY <1>1, <1>6, <1>11
<1>12. QED
      BY <1>2, <1>8, <1>9, <1>10, <1>11

\* check_regs misses no mistake it gets to see: whatever the program, the memory
\* map and the devices, a register the core gets wrong is reported when the
\* instruction is compared, a wrong pc when the next one is.
THEOREM ErrorsAreReported == Spec => []ErrorsAreFound
<1>1. Init => FoundInv
  <2>1. Init => wrong = "none" /\ witness = "none" /\ ErrorsAreFound
        BY DEF Init, ErrorsAreFound
  <2>2. QED
        BY <2>1, TypesInit, InvInit DEF FoundInv
<1>2. FoundInv /\ [Next]_vars => FoundInv'
  <2> SUFFICES ASSUME FoundInv, [Next]_vars PROVE FoundInv'
      OBVIOUS
  <2>1. TypeOK' /\ Inv'
        BY TypesNext, InvNext DEF FoundInv
  <2>2. CASE UNCHANGED vars
        BY <2>1, <2>2 DEF vars, FoundInv, ErrorsAreFound
  <2>3. CASE Next
    <3>1. PICK d \in DeviceValues : \E e \in Errors(dut) : Retire(d, e)
          BY <2>3 DEF Next
    <3>2. PICK e \in Errors(dut) : Retire(d, e)
          BY <3>1
    <3>3. QED
          BY <2>1, <3>2, FoundNext DEF FoundInv
  <2>4. QED
        BY <2>2, <2>3
<1>3. FoundInv => ErrorsAreFound
      BY DEF FoundInv
<1>4. QED
      BY <1>1, <1>2, <1>3, PTL DEF Spec
=============================================================================
