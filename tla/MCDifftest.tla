----------------------------- MODULE MCDifftest -----------------------------
(***************************************************************************)
(* Instances of Difftest.  Slot 5 is a device that answers, slot 6 one     *)
(* that answers with an error.  Slots 0 to 2 are free, slot 3 goes on in   *)
(* slot 7, which reads the device and continues at slot 0, slot 4 is data. *)
(***************************************************************************)
EXTENDS Difftest

I(op, rd, rs1, rs2, imm) == [op |-> op, rd |-> rd, rs1 |-> rs1, rs2 |-> rs2, imm |-> imm, csr |-> "mtvec"]

DiffInst == [w \in Word |->
    CASE w = 0  -> I("LW", 1, 0, 0, 10)      \* lw   x1, 10(x0): device
      [] w = 1  -> I("LW", 2, 1, 0, 8)       \* lw   x2, 8(x1)
      [] w = 2  -> I("LW", 1, 1, 0, 6)       \* lw   x1, 6(x1): its own base
      [] w = 3  -> I("SW", 0, 1, 2, 8)       \* sw   x2, 8(x1)
      [] w = 4  -> I("ADD", 2, 1, 2, 0)      \* add  x2, x1, x2
      [] w = 5  -> I("BNE", 0, 1, 2, 4)      \* bne  x1, x2, .+4
      [] w = 6  -> I("CSRRW", 2, 1, 0, 0)    \* csrrw x2, mtvec, x1
      [] w = 7  -> I("LW", 2, 0, 0, 12)      \* lw   x2, 12(x0): faulting device
      [] w = 8  -> I("ECALL", 0, 0, 0, 0)
      [] w = 9  -> I("JALR", 0, 0, 0, 14)    \* jalr x0, 14(x0)
      [] OTHER  -> I("Illegal", 0, 0, 0, 0)]
DiffImages ==
    {[s \in Slots |-> IF s < 3 THEN p[s] ELSE IF s = 3 THEN 9 ELSE IF s = 7 THEN 0 ELSE 2]
       : p \in [0 .. 2 -> 0 .. 8]}
=============================================================================
