------------------------------ MODULE Difftest ------------------------------
(***************************************************************************)
(* Differential testing, npc/sim/sdb/difftest.cpp: after every instruction *)
(* the core retires, NEMU executes one and the registers are compared; an  *)
(* access to a device, which NEMU does not have, is skipped and the        *)
(* registers are copied instead.  The pc is compared one instruction late. *)
(*                                                                         *)
(* The core retires instructions in order (Core shows that it does), and   *)
(* may get one of them wrong: a register, the next pc or a stored word.    *)
(* A device answers a load with anything, or with an error if its slot is  *)
(* one of FaultSlots.  A session ends where NEMU and the core are not      *)
(* meant to agree: at ebreak, at an illegal instruction, and when the      *)
(* program runs from a device or a misaligned address.                     *)
(***************************************************************************)
EXTENDS Isa

CONSTANTS MemSlots,       \* mrom, sram, flash, psram and sdram; the rest are devices
          DeviceValues,   \* what devices answer
          Images,         \* the memory images
          RESET_VECTOR

ASSUME MemSlotsAssumption == MemSlots \subseteq Slots /\ FaultSlots \cap MemSlots = {}
ASSUME DeviceValuesAssumption == DeviceValues \subseteq Word /\ DeviceValues # {}
ASSUME ImagesAssumption == Images \subseteq [Slots -> Word]
ASSUME RESET_VECTORAssumption == RESET_VECTOR \in Word

VARIABLES
    dut, ref,       \* the machines: pc, regs, csrs, mem
    expected_pc,
    sdb_state,      \* "Running", "Abort", or "crashed" when NEMU panics
    wrong,          \* history: what the core has got wrong
    witness,        \* history: what happened to the instruction that shows it
    waived          \* history: the program has met one of the gaps of Gap

vars == <<dut, ref, expected_pc, sdb_state, wrong, witness, waived>>

Fetched(m) == InstOf[m.mem[Slot(m.pc)]]
Address(m, in) == Plus(m.regs[in.rs1], in.imm)
IsAccess(in) == in.op \in {"LW", "SW"}
in_device(addr) == Slot(addr) \notin MemSlots
ToDevice(m) == IsAccess(Fetched(m)) /\ in_device(Address(m, Fetched(m)))
Supported(m) ==
    ~IsMisaligned(m.pc) /\ Slot(m.pc) \in MemSlots /\ Fetched(m).op \notin {"EBREAK", "Illegal"}

(***************************************************************************)
(* The core retires the instruction at its pc: correctly, with d as the    *)
(* answer of a device, or with one error.                                  *)
(***************************************************************************)
Trapped(m) == SequentialExcp(m, m.mem[Slot(m.pc)]).valid
Answered(m, d) == IF Fetched(m).op = "LW" /\ Fetched(m).rd # 0
                  THEN [m.regs EXCEPT ![Fetched(m).rd] = d]
                  ELSE m.regs
Correct(m, d) ==
    IF ToDevice(m) /\ ~Trapped(m)
    THEN [m EXCEPT !.pc = Plus(m.pc, Four), !.regs = Answered(m, d)]
    ELSE ExecOnce(m)

Broken(m, err, i) ==
    CASE err = "reg"   -> [m EXCEPT !.regs = [m.regs EXCEPT ![i] = Plus(m.regs[i], Four)]]
      [] err = "pc"    -> [m EXCEPT !.pc = Plus(@, Four)]
      [] err = "store" -> [m EXCEPT !.mem = [m.mem EXCEPT ![i] = Plus(m.mem[i], Four)]]
      [] OTHER -> m

\* What the core can get wrong in an instruction that leads to machine m, and
\* where: no error, the next pc, a register, the word stored to.
Errors(m) ==
    {<<"none", 0>>}
      \cup (IF wrong # "none" THEN {} ELSE
              {<<"pc", 0>>} \cup {<<"reg", i>> : i \in Regs \ {0}}
                \cup (IF Fetched(m).op = "SW" /\ ~ToDevice(m)
                      THEN {<<"store", Slot(Address(m, Fetched(m)))>>} ELSE {}))

(***************************************************************************)
(* difftest_step, after the core m has retired in at pc.                   *)
(***************************************************************************)
\* The address is computed from the register file after the instruction has
\* written it.
is_accessing_device(m, in) == IsAccess(in) /\ in_device(Address(m, in))

\* Mutant: the pc of the skipped instruction itself.
dnpcSame(pc) == pc
dnpc(pc) == Plus(pc, Four)

sync_regs_to_ref(m, pc) == [ref EXCEPT !.pc = pc, !.regs = m.regs, !.csrs = m.csrs]

\* Mutant: the register with the highest number is not compared.
RegsMatchShort(m, r) == \A i \in 0 .. RegCount - 2 : m.regs[i] = r.regs[i]
RegsMatch(m, r) == \A i \in Regs : m.regs[i] = r.regs[i]
\* Mutant: only registers are compared.
PcIgnored(pc) == TRUE
PcMatch(pc) == pc = expected_pc
check_regs(m, pc, r) == PcMatch(pc) /\ RegsMatch(m, r) /\ m.csrs = r.csrs

\* NEMU has no memory there, or gives up.
RefPanics == ToDevice(ref) \/ ~Supported(ref)

difftest_step(m, pc, in) ==
    \/ /\ is_accessing_device(m, in)
       /\ ref' = sync_regs_to_ref(m, dnpc(pc))
       /\ expected_pc' = dnpc(pc)
       /\ UNCHANGED sdb_state
    \/ /\ ~is_accessing_device(m, in) /\ ~RefPanics
       /\ ref' = ExecOnce(ref)
       /\ expected_pc' = ExecOnce(ref).pc
       /\ sdb_state' = IF check_regs(m, pc, ExecOnce(ref)) THEN "Running" ELSE "Abort"
    \/ /\ ~is_accessing_device(m, in) /\ RefPanics
       /\ sdb_state' = "crashed"
       /\ UNCHANGED <<ref, expected_pc>>

\* The programs the scheme cannot follow: an access to a device that faults
\* (it does not continue at pc + 4), and a load from a device into its own base
\* register whose new value points to memory.
Gap(m, in) ==
    ToDevice(dut) /\ (Trapped(dut) \/ ~is_accessing_device(m, in))

Retire(d, e) ==
    LET in == Fetched(dut)
        m == Broken(Correct(dut, d), e[1], e[2])
        seen == IF is_accessing_device(m, in) THEN "skipped" ELSE "compared"
    IN  /\ sdb_state = "Running" /\ Supported(dut)
        /\ dut' = m
        /\ difftest_step(m, dut.pc, in)
        /\ wrong' = IF e[1] = "none" THEN wrong ELSE e[1]
        /\ witness' = IF \/ e[1] = "reg"
                         \/ e[1] = "none" /\ wrong = "pc" /\ witness = "none"
                      THEN seen ELSE witness
        /\ waived' = (waived \/ Gap(m, in))

Reset(image) == [pc |-> RESET_VECTOR, regs |-> [i \in Regs |-> 0], csrs |-> [c \in CSRs |-> 0],
                 mem |-> image]

\* init_difftest copies the image and the registers.
Init ==
    /\ dut \in {Reset(image) : image \in Images}
    /\ ref = dut
    /\ expected_pc = RESET_VECTOR
    /\ sdb_state = "Running" /\ wrong = "none" /\ witness = "none" /\ waived = FALSE

Next == \E d \in DeviceValues : \E e \in Errors(dut) : Retire(d, e)

Spec == Init /\ [][Next]_vars

-----------------------------------------------------------------------------
Machine == [pc : Word, regs : [Regs -> Word], csrs : [CSRs -> Word], mem : [Slots -> Word]]

\* Every variable holds a value of its type.
TypeOK ==
    /\ dut \in Machine /\ ref \in Machine /\ expected_pc \in Word
    /\ sdb_state \in {"Running", "Abort", "crashed"}
    /\ wrong \in {"none", "reg", "pc", "store"}
    /\ witness \in {"none", "skipped", "compared"}
    /\ waived \in BOOLEAN

\* A core that makes no mistake is never reported, however many device accesses
\* were skipped and whatever the devices answered, unless the program has met
\* one of the two gaps.
NoFalseAlarm == wrong = "none" /\ ~waived => sdb_state = "Running"

\* An error in a register is reported by the instruction that makes it, an error
\* in the pc by the next one, unless just that one is skipped as an access to a
\* device or the program has met a gap.
ErrorsAreFound ==
    wrong \in {"reg", "pc"} /\ witness = "compared" /\ ~waived => sdb_state # "Running"

\* Whatever the core does, as long as it is not reported its registers are the
\* reference's, and the reference stands where the next instruction is expected.
RegistersAgree ==
    sdb_state = "Running" =>
      dut.regs = ref.regs /\ dut.csrs = ref.csrs /\ ref.pc = expected_pc
=============================================================================
