-------------------------------- MODULE Isa --------------------------------
(***************************************************************************)
(* The instruction set both machines of the project execute: the decode    *)
(* table and the ALU of the RTL (core/IDU.scala, core/ALU.scala), and the  *)
(* sequential machine that differential testing runs beside it (NEMU's     *)
(* decode_exec).                                                           *)
(*                                                                         *)
(* Data are abstracted: a machine word has XLEN bits (4 in the runs), an   *)
(* address counts halfwords, so that an odd address is a misaligned one    *)
(* and the instruction or datum at address a lives in slot a \div 2; "+ 4" *)
(* in the code is "+ 2" here.  An instruction is not a bit pattern but the *)
(* record InstOf gives to a word, so code and data share one memory and a  *)
(* store can change code.  Sub-word loads and stores are not modelled.     *)
(***************************************************************************)
EXTENDS Integers, Sequences, FiniteSets

CONSTANTS XLEN,        \* bits of a word (CoreParams.XLEN, 32 in the code)
          RegCount,    \* general registers (CoreParams.RegCount, 16: RV32E)
          InstOf,      \* the instruction every word encodes
          FaultSlots   \* slots that answer an access with an error response

Pow2(n) == 2^n
Word == 0 .. Pow2(XLEN) - 1
Regs == 0 .. RegCount - 1
Slots == 0 .. Pow2(XLEN - 1) - 1
CSRs == {"mstatus", "mtvec", "mepc", "mcause", "mtval"}

Slot(a) == a \div 2
Plus(a, b) == (a + b) % Pow2(XLEN)
Four == 2
IsMisaligned(a) == a % 2 # 0

(***************************************************************************)
(* Decoding: the rows of InstDecodeTable.                                  *)
(***************************************************************************)
OpImm == [ADDI |-> "Add", SLTI |-> "Slt", SLTIU |-> "Sltu", XORI |-> "Xor",
          ORI |-> "Or", ANDI |-> "And", SLLI |-> "Sll", SRLI |-> "Srl", SRAI |-> "Sra"]
OpReg == [ADD |-> "Add", SUB |-> "Sub", SLL |-> "Sll", SLT |-> "Slt", SLTU |-> "Sltu",
          XOR |-> "Xor", SRL |-> "Srl", SRA |-> "Sra", OR |-> "Or", AND |-> "And"]
OpBranch == [BEQ |-> "Sub", BNE |-> "Sub", BLT |-> "Slt", BGE |-> "Slt",
             BLTU |-> "Sltu", BGEU |-> "Sltu"]
OpCsr == [CSRRW |-> "RW", CSRRS |-> "RS", CSRRC |-> "RC",
          CSRRWI |-> "RW", CSRRSI |-> "RS", CSRRCI |-> "RC"]
OpCsrImm == {"CSRRWI", "CSRRSI", "CSRRCI"}
OpOther == {"LUI", "AUIPC", "JAL", "JALR", "LW", "SW", "ECALL", "EBREAK", "MRET",
            "FENCE_I", "Illegal"}
Op == DOMAIN OpImm \cup DOMAIN OpReg \cup DOMAIN OpBranch \cup DOMAIN OpCsr \cup OpOther

Inst == [op : Op, rd : Regs, rs1 : Regs, rs2 : Regs, imm : Word, csr : CSRs]

ASSUME XLENAssumption == XLEN \in {4, 8, 16, 32}
ASSUME RegCountAssumption == RegCount \in Nat \ {0}
ASSUME InstOfAssumption == InstOf \in [Word -> Inst]
ASSUME FaultSlotsAssumption == FaultSlots \subseteq Slots

Row(fmt, op1, op2, we, alu, br, lsu, csr, exec) ==
    [fmt |-> fmt, op1 |-> op1, op2 |-> op2, we |-> we, alu |-> alu,
     br |-> br, lsu |-> lsu, csr |-> csr, exec |-> exec]

Decode(op) ==
    CASE op \in DOMAIN OpImm    -> Row("I", "Rs1", "Imm", TRUE, OpImm[op], "Nop", "Nop", "Nop", "ALU")
      [] op \in DOMAIN OpReg    -> Row("R", "Rs1", "Rs2", TRUE, OpReg[op], "Nop", "Nop", "Nop", "ALU")
      [] op \in DOMAIN OpBranch -> Row("B", "Rs1", "Rs2", FALSE, OpBranch[op], op, "Nop", "Nop", "ALU")
      [] op \in DOMAIN OpCsr    -> Row("C", "CSR", IF op \in OpCsrImm THEN "Imm" ELSE "Rs1",
                                       TRUE, "Add", "Nop", "Nop", OpCsr[op], "CSR")
      [] op = "LUI"     -> Row("U", "Imm",  "Zero", TRUE,  "Add", "Nop",  "Nop", "Nop", "ALU")
      [] op = "AUIPC"   -> Row("U", "PC",   "Imm",  TRUE,  "Add", "Nop",  "Nop", "Nop", "ALU")
      [] op = "JAL"     -> Row("J", "PC",   "Four", TRUE,  "Add", "JAL",  "Nop", "Nop", "ALU")
      [] op = "JALR"    -> Row("I", "PC",   "Four", TRUE,  "Add", "JALR", "Nop", "Nop", "ALU")
      [] op = "LW"      -> Row("I", "Rs1",  "Imm",  TRUE,  "Add", "Nop",  "LW",  "Nop", "LSU")
      [] op = "SW"      -> Row("S", "Rs1",  "Imm",  FALSE, "Add", "Nop",  "SW",  "Nop", "LSU")
      [] op = "ECALL"   -> Row("I", "Zero", "Zero", FALSE, "Add", "Nop",  "Nop", "Nop", "ECall")
      [] op = "EBREAK"  -> Row("I", "Zero", "Zero", FALSE, "Add", "Nop",  "Nop", "Nop", "EBreak")
      [] op = "MRET"    -> Row("I", "Zero", "Zero", FALSE, "Add", "Nop",  "Nop", "Nop", "MRet")
      [] op = "FENCE_I" -> Row("I", "Zero", "Zero", FALSE, "Add", "Nop",  "Nop", "Nop", "FenceI")
      [] OTHER          -> Row("E", "Zero", "Zero", TRUE,  "Add", "Nop",  "Nop", "Nop", "ALU")

InstDecodeTable == [op \in Op |-> Decode(op)]

(***************************************************************************)
(* The ALU.                                                                *)
(***************************************************************************)
Signed(a) == IF a < Pow2(XLEN - 1) THEN a ELSE a - Pow2(XLEN)
Bool(b) == IF b THEN 1 ELSE 0
Bits(a) == {i \in 0 .. XLEN - 1 : (a \div Pow2(i)) % 2 = 1}
FromBits(S) == CHOOSE a \in Word : Bits(a) = S
BitAnd(a, b) == FromBits(Bits(a) \cap Bits(b))
BitOr(a, b) == FromBits(Bits(a) \cup Bits(b))
BitXor(a, b) == FromBits((Bits(a) \cup Bits(b)) \ (Bits(a) \cap Bits(b)))
BitClear(a, b) == FromBits(Bits(a) \ Bits(b))

ALU(alu_op, a, b) ==
    LET shamt == b % XLEN IN
    CASE alu_op = "Add"  -> Plus(a, b)
      [] alu_op = "Sub"  -> (a - b) % Pow2(XLEN)
      [] alu_op = "Sll"  -> (a * Pow2(shamt)) % Pow2(XLEN)
      [] alu_op = "Slt"  -> Bool(Signed(a) < Signed(b))
      [] alu_op = "Sltu" -> Bool(a < b)
      [] alu_op = "Xor"  -> BitXor(a, b)
      [] alu_op = "Srl"  -> a \div Pow2(shamt)
      [] alu_op = "Sra"  -> (Signed(a) \div Pow2(shamt)) % Pow2(XLEN)
      [] alu_op = "Or"   -> BitOr(a, b)
      [] alu_op = "And"  -> BitAnd(a, b)

(***************************************************************************)
(* Exceptions: the codes of constants/ExceptionCode.scala the core raises. *)
(***************************************************************************)
ExceptionCode == [InstructionAddressMisaligned |-> 0, InstructionAccessFault |-> 1,
                  IllegalInstruction |-> 2, Breakpoint |-> 3, LoadAccessFault |-> 5,
                  EnvironmentCallFromMMode |-> 11, StoreAMOPageFault |-> 15]

NoExcp == [valid |-> FALSE, cause |-> 0, tval |-> 0]
Excp(name, tval) == [valid |-> TRUE, cause |-> ExceptionCode[name], tval |-> tval]

(***************************************************************************)
(* The sequential machine.  Its state is [pc, regs, csrs, mem].  Words are *)
(* computed from NEMU's own expressions, not through the decode table.     *)
(***************************************************************************)
NemuValue(in, src1, src2, pc, loaded, csr) ==
    LET op == in.op
        imm == in.imm
        y == IF op \in DOMAIN OpImm THEN imm ELSE src2
    IN  CASE op = "LUI"   -> imm
          [] op = "AUIPC" -> Plus(pc, imm)
          [] op \in {"JAL", "JALR"}   -> Plus(pc, Four)
          [] op = "LW"    -> loaded
          [] op \in {"ADDI", "ADD"}   -> Plus(src1, y)
          [] op = "SUB"   -> (src1 - y) % Pow2(XLEN)
          [] op \in {"SLTI", "SLT"}   -> Bool(Signed(src1) < Signed(y))
          [] op \in {"SLTIU", "SLTU"} -> Bool(src1 < y)
          [] op \in {"XORI", "XOR"}   -> BitXor(src1, y)
          [] op \in {"ORI", "OR"}     -> BitOr(src1, y)
          [] op \in {"ANDI", "AND"}   -> BitAnd(src1, y)
          [] op \in {"SLLI", "SLL"}   -> (src1 * Pow2(y % XLEN)) % Pow2(XLEN)
          [] op \in {"SRLI", "SRL"}   -> src1 \div Pow2(y % XLEN)
          [] op \in {"SRAI", "SRA"}   -> (Signed(src1) \div Pow2(y % XLEN)) % Pow2(XLEN)
          [] op \in DOMAIN OpCsr      -> csr

NemuTaken(op, src1, src2) ==
    CASE op = "BEQ"  -> src1 = src2
      [] op = "BNE"  -> src1 # src2
      [] op = "BLT"  -> Signed(src1) < Signed(src2)
      [] op = "BGE"  -> Signed(src1) >= Signed(src2)
      [] op = "BLTU" -> src1 < src2
      [] op = "BGEU" -> src1 >= src2

NemuCsr(op, old, src) ==
    CASE op \in {"CSRRW", "CSRRWI"} -> src
      [] op \in {"CSRRS", "CSRRSI"} -> BitOr(old, src)
      [] op \in {"CSRRC", "CSRRCI"} -> BitClear(old, src)

\* isa_raise_intr: enter the handler, remember where from and why.
RaiseIntr(r, excp) ==
    [r EXCEPT !.pc = r.csrs["mtvec"],
              !.csrs = [@ EXCEPT !["mepc"] = r.pc, !["mcause"] = excp.cause,
                                 !["mtval"] = excp.tval]]

\* The exception instruction in of machine r meets, NoExcp if none.  NEMU
\* itself only knows the one of ecall; the others are the core's, taken one
\* instruction at a time.
SequentialExcp(r, word) ==
    LET in == InstOf[word]
        addr == Plus(r.regs[in.rs1], in.imm)
    IN  IF IsMisaligned(r.pc) THEN Excp("InstructionAddressMisaligned", r.pc)
        ELSE IF Slot(r.pc) \in FaultSlots THEN Excp("InstructionAccessFault", r.pc)
        ELSE
        CASE in.op = "Illegal" -> Excp("IllegalInstruction", word)
          [] in.op = "EBREAK"  -> Excp("Breakpoint", r.pc)
          [] in.op = "ECALL"   -> Excp("EnvironmentCallFromMMode", r.pc)
          [] in.op = "LW" /\ Slot(addr) \in FaultSlots -> Excp("LoadAccessFault", addr)
          [] in.op = "SW" /\ Slot(addr) \in FaultSlots -> Excp("StoreAMOPageFault", addr)
          [] OTHER -> NoExcp

\* s->dnpc, when no exception is raised.
NemuDnpc(in, src1, src2, pc, mepc) ==
    CASE in.op = "JAL"  -> Plus(pc, in.imm)
      [] in.op = "JALR" -> Plus(src1, in.imm)
      [] in.op = "MRET" -> mepc
      [] in.op \in DOMAIN OpBranch /\ NemuTaken(in.op, src1, src2) -> Plus(pc, in.imm)
      [] OTHER -> Plus(pc, Four)

WritesRd(in) ==
    /\ in.rd # 0
    /\ \/ in.op \in DOMAIN OpImm \cup DOMAIN OpReg \cup DOMAIN OpCsr
       \/ in.op \in {"LUI", "AUIPC", "JAL", "JALR", "LW"}

NemuCsrs(in, src1, csrs) ==
    IF in.op \in DOMAIN OpCsr
    THEN [csrs EXCEPT ![in.csr] = NemuCsr(in.op, @, IF in.op \in OpCsrImm THEN in.imm ELSE src1)]
    ELSE csrs

\* isa_exec_once: fetch, decode_exec, reset register 0.
ExecOnce(r) ==
    LET word == r.mem[Slot(r.pc)]
        in   == InstOf[word]
        excp == SequentialExcp(r, word)
        src1 == r.regs[in.rs1]
        src2 == r.regs[in.rs2]
        addr == Plus(src1, in.imm)
    IN  IF excp.valid THEN RaiseIntr(r, excp)
        ELSE [r EXCEPT
                !.pc = NemuDnpc(in, src1, src2, r.pc, r.csrs["mepc"]),
                !.regs = IF WritesRd(in)
                         THEN [@ EXCEPT ![in.rd] = NemuValue(in, src1, src2, r.pc,
                                                             r.mem[Slot(addr)], r.csrs[in.csr])]
                         ELSE @,
                !.csrs = NemuCsrs(in, src1, @),
                !.mem = IF in.op = "SW" THEN [@ EXCEPT ![Slot(addr)] = src2] ELSE @]
=============================================================================
