------------------------------- MODULE MCCore -------------------------------
(***************************************************************************)
(* Instances of Core: for every run an encoding of the 16 words and the    *)
(* set of programs that start in memory.  Slot 0 is the reset vector.      *)
(***************************************************************************)
EXTENDS Core

I(op, rd, rs1, rs2, imm, csr) ==
    [op |-> op, rd |-> rd, rs1 |-> rs1, rs2 |-> rs2, imm |-> imm, csr |-> csr]
Nop == I("ADDI", 0, 0, 0, 0, "mtvec")
Minus(n) == 2^XLEN - n

NoFaults == {}
Unwaived == ref.waived = {}

\* Data and control hazards: all programs of three of the instructions 0 to 6
\* that loop through slot 3.  Self-modifying code: slot 0 loads x1 from slot 6,
\* slots 1 and 2 are free, slot 3 is fence.i or not, slot 4 loops back; word 9 stores x1 over
\* slot 2.
ProgramInst == [w \in Word |->
    CASE w = 0  -> I("ADDI", 2, 1, 0, 1, "mtvec")         \* addi x2, x1, 1
      [] w = 1  -> I("ADD", 1, 2, 1, 0, "mtvec")          \* add  x1, x2, x1
      [] w = 2  -> I("LW", 1, 2, 0, Minus(2), "mtvec")    \* lw   x1, -2(x2)
      [] w = 3  -> I("SW", 0, 0, 1, Minus(2), "mtvec")    \* sw   x1, -2(x0)
      [] w = 4  -> I("BNE", 0, 1, 2, Minus(4), "mtvec")   \* bne  x1, x2, .-4
      [] w = 5  -> I("JAL", 1, 0, 0, Minus(2), "mtvec")   \* jal  x1, .-2
      [] w = 6  -> I("JALR", 0, 1, 0, 0, "mtvec")         \* jalr x0, 0(x1)
      [] w = 7  -> I("JAL", 0, 0, 0, Minus(6), "mtvec")   \* jal  x0, .-6
      [] w = 8  -> I("LW", 1, 0, 0, 12, "mtvec")          \* lw   x1, 12(x0)
      [] w = 9  -> I("SW", 0, 0, 1, 4, "mtvec")           \* sw   x1, 4(x0)
      [] w = 10 -> I("FENCE_I", 0, 0, 0, 0, "mtvec")
      [] w = 11 -> I("ADDI", 2, 2, 0, 8, "mtvec")         \* addi x2, x2, 8
      [] w = 12 -> I("BEQ", 0, 0, 2, Minus(4), "mtvec")   \* beq  x0, x2, .-4
      [] w = 13 -> I("JAL", 0, 0, 0, Minus(8), "mtvec")   \* jal  x0, .-8
      [] OTHER  -> Nop]
HazardMems ==
    {[s \in Slots |-> IF s < 3 THEN p[s] ELSE 7] : p \in [0 .. 2 -> 0 .. 6]}
SmcMems ==
    {[s \in Slots |-> IF s < 4 THEN p[s] ELSE IF s = 6 THEN d ELSE 13]
       : p \in {q \in [0 .. 3 -> 8 .. 12] : q[0] = 8 /\ q[3] \in {10, 11}}, d \in {11, 12}}
ProgramMems == HazardMems \cup SmcMems

\* Traps: slot 0 sets mtvec, slots 1 and 2 are free, slot 3 answers with an
\* error, the handler in slots 4 to 7 returns behind the trapping instruction.
TrapInst == [w \in Word |->
    CASE w = 0  -> I("CSRRWI", 0, 0, 0, 8, "mtvec")       \* csrwi mtvec, 8
      [] w = 1  -> I("CSRRS", 1, 0, 0, 0, "mepc")         \* csrr x1, mepc
      [] w = 2  -> I("ADDI", 1, 1, 0, 2, "mtvec")         \* addi x1, x1, 2
      [] w = 3  -> I("CSRRW", 0, 1, 0, 0, "mepc")         \* csrw mepc, x1
      [] w = 4  -> I("MRET", 0, 0, 0, 0, "mtvec")
      [] w = 5  -> I("ECALL", 0, 0, 0, 0, "mtvec")
      [] w = 6  -> I("Illegal", 1, 0, 0, 0, "mtvec")
      [] w = 7  -> I("LW", 2, 0, 0, 6, "mtvec")           \* lw x2, 6(x0): faults
      [] w = 8  -> I("SW", 0, 0, 1, 6, "mtvec")           \* sw x1, 6(x0): faults
      [] w = 9  -> I("CSRRS", 2, 1, 0, 0, "mcause")       \* csrrs x2, mcause, x1
      [] w = 10 -> I("JAL", 0, 0, 0, 3, "mtvec")          \* jump to a misaligned address
      [] w = 11 -> I("EBREAK", 0, 0, 0, 0, "mtvec")
      [] w = 12 -> I("FENCE_I", 0, 0, 0, 0, "mtvec")
      [] w = 13 -> I("CSRRC", 1, 2, 0, 0, "mtvec")        \* csrrc x1, mtvec, x2
      [] w = 14 -> I("BEQ", 0, 0, 1, 4, "mtvec")          \* beq x0, x1, .+4
      [] OTHER  -> I("SW", 0, 0, 1, 2, "mtvec")]          \* sw x1, 2(x0)
TrapFaults == {3}
TrapMems ==
    {[s \in Slots |-> CASE s = 0 -> 0 [] s \in {1, 2} -> p[s] [] s = 3 -> 5 [] OTHER -> s - 3]
       : p \in [{1, 2} -> 4 .. 15]}

\* Programs for liveness: loads that feed branches, stores, a call and return.
LiveMems ==
    {[s \in Slots |-> IF s < 3 THEN p[s + 1] ELSE 7]
       : p \in {<<0, 2, 4>>, <<2, 1, 3>>, <<5, 6, 0>>, <<3, 2, 1>>}}
=============================================================================
