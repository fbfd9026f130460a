----------------------------- MODULE Datapath -----------------------------
(***************************************************************************)
(* Decoding and execution of one instruction at full width, twice: the     *)
(* core's way (Inst.scala, IDU.scala, ALU.scala, EXU.scala, the byte lanes *)
(* of LSU.scala and the test bench's memory) and NEMU's way (inst.c,       *)
(* host.h), together with the trace records NEMU derives from an           *)
(* instruction.  An instruction word is the record of its fields; data     *)
(* words are MiniRV's.                                                     *)
(***************************************************************************)
EXTENDS Words
LOCAL INSTANCE Integers
LOCAL INSTANCE Sequences

InstWord == [f7 : 0 .. 127, rs2 : 0 .. 31, rs1 : 0 .. 31, f3 : 0 .. 7, rd : 0 .. 31, op : 0 .. 31, lo : 0 .. 3]
\* The bits hi .. lo of a word, of the ranges that immediates are made of.
BITS(i, hi, lo) ==
    CASE hi = 31 /\ lo = 20 -> 32 * i.f7 + i.rs2
      [] hi = 31 /\ lo = 25 -> i.f7
      [] hi = 11 /\ lo = 7  -> i.rd
      [] hi = 31 /\ lo = 12 -> 8192 * i.f7 + 256 * i.rs2 + 8 * i.rs1 + i.f3
      [] hi = 31 /\ lo = 31 -> i.f7 \div 64
      [] hi = 7  /\ lo = 7  -> i.rd % 2
      [] hi = 30 /\ lo = 25 -> i.f7 % 64
      [] hi = 11 /\ lo = 8  -> i.rd \div 2
      [] hi = 19 /\ lo = 12 -> 8 * i.rs1 + i.f3
      [] hi = 20 /\ lo = 20 -> i.rs2 % 2
      [] hi = 30 /\ lo = 21 -> 16 * (i.f7 % 64) + (i.rs2 \div 2)
      [] hi = 19 /\ lo = 15 -> i.rs1
\* Sign extension of a number whose top bit has the value top.
SEXT(x, top) == IF x >= top THEN x - 2 * top ELSE x

(***************************************************************************)
(* A pattern constrains some of the fields; the two low bits are always 11.*)
(***************************************************************************)
Matches(i, pat) == i.lo = 3 /\ \A f \in DOMAIN pat : i[f] = pat[f]
Op(op) == [op |-> op]
OpF3(op, f3) == [op |-> op, f3 |-> f3]
OpF7(op, f3, f7) == [op |-> op, f3 |-> f3, f7 |-> f7]
Exact(f7, rs2) == [f7 |-> f7, rs2 |-> rs2, rs1 |-> 0, f3 |-> 0, rd |-> 0, op |-> 28]

InstPat ==
    [LUI |-> Op(13), AUIPC |-> Op(5), JAL |-> Op(27), JALR |-> OpF3(25, 0),
     BEQ |-> OpF3(24, 0), BNE |-> OpF3(24, 1), BLT |-> OpF3(24, 4), BGE |-> OpF3(24, 5), BLTU |-> OpF3(24, 6), BGEU |-> OpF3(24, 7),
     LB |-> OpF3(0, 0), LH |-> OpF3(0, 1), LW |-> OpF3(0, 2), LBU |-> OpF3(0, 4), LHU |-> OpF3(0, 5),
     SB |-> OpF3(8, 0), SH |-> OpF3(8, 1), SW |-> OpF3(8, 2),
     ADDI |-> OpF3(4, 0), SLTI |-> OpF3(4, 2), SLTIU |-> OpF3(4, 3), XORI |-> OpF3(4, 4), ORI |-> OpF3(4, 6), ANDI |-> OpF3(4, 7),
     SLLI |-> OpF7(4, 1, 0), SRLI |-> OpF7(4, 5, 0), SRAI |-> OpF7(4, 5, 32),
     ADD |-> OpF7(12, 0, 0), SUB |-> OpF7(12, 0, 32), SLL |-> OpF7(12, 1, 0), SLT |-> OpF7(12, 2, 0), SLTU |-> OpF7(12, 3, 0),
     XOR |-> OpF7(12, 4, 0), SRL |-> OpF7(12, 5, 0), SRA |-> OpF7(12, 5, 32), OR |-> OpF7(12, 6, 0), AND |-> OpF7(12, 7, 0),
     ECALL |-> Exact(0, 0), EBREAK |-> Exact(0, 1), MRET |-> Exact(24, 2),
     CSRRW |-> OpF3(28, 1), CSRRS |-> OpF3(28, 2), CSRRC |-> OpF3(28, 3),
     CSRRWI |-> OpF3(28, 5), CSRRSI |-> OpF3(28, 6), CSRRCI |-> OpF3(28, 7), FENCE_I |-> OpF3(3, 1)]

(***************************************************************************)
(* IDU: the decode table, one row per instruction.                         *)
(***************************************************************************)
Row(fmt, op1, op2, we, alu, br, lsu, csr, exec) ==
    [fmt |-> fmt, op1 |-> op1, op2 |-> op2, we |-> we, alu |-> alu, br |-> br, lsu |-> lsu, csr |-> csr, exec |-> exec]
AluRow(fmt, op1, op2, alu) == Row(fmt, op1, op2, TRUE, alu, "Nop", "Nop", "Nop", "ALU")
SystemRow(exec) == Row("I", "Zero", "Zero", FALSE, "Add", "Nop", "Nop", "Nop", exec)
default == AluRow("E", "Zero", "Zero", "Add")
AluOf == [ADDI |-> "Add", SLTI |-> "Slt", SLTIU |-> "Sltu", XORI |-> "Xor", ORI |-> "Or", ANDI |-> "And",
          SLLI |-> "Sll", SRLI |-> "Srl", SRAI |-> "Sra",
          ADD |-> "Add", SUB |-> "Sub", SLL |-> "Sll", SLT |-> "Slt", SLTU |-> "Sltu", XOR |-> "Xor",
          SRL |-> "Srl", SRA |-> "Sra", OR |-> "Or", AND |-> "And",
          BEQ |-> "Sub", BNE |-> "Sub", BLT |-> "Slt", BGE |-> "Slt", BLTU |-> "Sltu", BGEU |-> "Sltu"]
Branches == {"BEQ", "BNE", "BLT", "BGE", "BLTU", "BGEU"}
Loads == {"LB", "LH", "LW", "LBU", "LHU"}
Stores == {"SB", "SH", "SW"}
RegRegs == {"ADD", "SUB", "SLL", "SLT", "SLTU", "XOR", "SRL", "SRA", "OR", "AND"}
CsrRegs == {"CSRRW", "CSRRS", "CSRRC"}
CsrImms == {"CSRRWI", "CSRRSI", "CSRRCI"}
Jumps == {"JAL", "JALR"}
CsrOpOf(n) == CASE n \in {"CSRRW", "CSRRWI"} -> "RW" [] n \in {"CSRRS", "CSRRSI"} -> "RS" [] OTHER -> "RC"
table(n) ==
    CASE n = "LUI"   -> AluRow("U", "Imm", "Zero", "Add")
      [] n = "AUIPC" -> AluRow("U", "PC", "Imm", "Add")
      [] n = "JAL"   -> Row("J", "PC", "Four", TRUE, "Add", n, "Nop", "Nop", "ALU")
      [] n = "JALR"  -> Row("I", "PC", "Four", TRUE, "Add", n, "Nop", "Nop", "ALU")
      [] n \in Branches -> Row("B", "Rs1", "Rs2", FALSE, AluOf[n], n, "Nop", "Nop", "ALU")
      [] n \in Loads    -> Row("I", "Rs1", "Imm", TRUE, "Add", "Nop", n, "Nop", "LSU")
      [] n \in Stores   -> Row("S", "Rs1", "Imm", FALSE, "Add", "Nop", n, "Nop", "LSU")
      [] n \in RegRegs  -> AluRow("R", "Rs1", "Rs2", AluOf[n])
      [] n \in CsrRegs  -> Row("C", "CSR", "Rs1", TRUE, "Add", "Nop", "Nop", CsrOpOf(n), "CSR")
      [] n \in CsrImms  -> Row("C", "CSR", "Imm", TRUE, "Add", "Nop", "Nop", CsrOpOf(n), "CSR")
      [] n = "ECALL"   -> SystemRow("ECall")
      [] n = "EBREAK"  -> SystemRow("EBreak")
      [] n = "MRET"    -> SystemRow("MRet")
      [] n = "FENCE_I" -> SystemRow("FenceI")
      [] OTHER         -> AluRow("I", "Rs1", "Imm", AluOf[n])
Selected(i) == {n \in DOMAIN InstPat : Matches(i, InstPat[n])}
ListLookup(i) == IF Selected(i) = {} THEN default ELSE table(CHOOSE n \in Selected(i) : TRUE)

\* Variant: the two halves of the branch offset are joined in the order they stand in.
ImmAsStored(i, fmt) ==
    CASE fmt = "I" -> SEXT(BITS(i, 31, 20), 2048)
      [] fmt \in {"S", "B"} -> SEXT(BITS(i, 31, 25) * 32 + BITS(i, 11, 7), 2048)
      [] fmt = "U" -> SEXT(BITS(i, 31, 12), 524288) * 4096
      [] fmt = "J" -> SEXT(BITS(i, 31, 12), 524288) * 2
      [] fmt = "C" -> BITS(i, 19, 15)
      [] OTHER -> 0
imm(i, fmt) ==
    CASE fmt = "I" -> SEXT(BITS(i, 31, 20), 2048)
      [] fmt = "S" -> SEXT(BITS(i, 31, 25) * 32 + BITS(i, 11, 7), 2048)
      [] fmt = "B" -> SEXT(BITS(i, 31, 31) * 4096 + BITS(i, 7, 7) * 2048 + BITS(i, 30, 25) * 32 + BITS(i, 11, 8) * 2, 4096)
      [] fmt = "U" -> SEXT(BITS(i, 31, 12), 524288) * 4096
      [] fmt = "J" -> SEXT(BITS(i, 31, 31) * 1048576 + BITS(i, 19, 12) * 4096 + BITS(i, 20, 20) * 2048 + BITS(i, 30, 21) * 2, 1048576)
      [] fmt = "C" -> BITS(i, 19, 15)
      [] OTHER -> 0
reads(row) ==
    (IF row.fmt \in {"R", "I", "S", "B"} \/ (row.fmt = "C" /\ row.op2 = "Rs1") THEN {"rs1"} ELSE {})
    \cup (IF row.fmt \in {"R", "S", "B"} THEN {"rs2"} ELSE {})

(***************************************************************************)
(* EXU on data words: s has pc, rs1, rs2 and csr.  The result is what the  *)
(* instruction writes (none for nothing) and where the program goes on.    *)
(***************************************************************************)
Word4 == WordOf(4)
None == <<>>
NoExcp == "none"
Lsb(b) == WordOf(IF b THEN 1 ELSE 0)
ALU(op, a, b) ==
    LET shamt == b[0] % 32 IN
    CASE op = "Add"  -> AddW(a, b)
      [] op = "Sub"  -> AddW(a, NegW(b))
      [] op = "Sll"  -> Sll(a, shamt)
      [] op = "Slt"  -> Lsb(Lt(a, b))
      [] op = "Sltu" -> Lsb(Ltu(a, b))
      [] op = "Xor"  -> XorW(a, b)
      [] op = "Srl"  -> Srl(a, shamt)
      [] op = "Sra"  -> Sra(a, shamt)
      [] op = "Or"   -> OrW(a, b)
      [] op = "And"  -> AndW(a, b)
Oper(type, s, im) ==
    CASE type = "Rs1" -> s.rs1 [] type = "Rs2" -> s.rs2 [] type = "Imm" -> im [] type = "Zero" -> Zero
      [] type = "Four" -> Word4 [] type = "PC" -> s.pc [] type = "CSR" -> s.csr
ClearLow(w) == [w EXCEPT ![0] = @ - (@ % 2)]
br_taken(br, result) ==
    CASE br \in Jumps -> TRUE
      [] br = "BEQ" -> result = Zero
      [] br = "BNE" -> result # Zero
      [] br \in {"BLT", "BLTU"} -> BIT(result, 0) = 1
      [] br \in {"BGE", "BGEU"} -> BIT(result, 0) # 1
      [] OTHER -> FALSE
csr_rd_data(op, csr, oper2) ==
    CASE op = "RW" -> oper2
      [] op = "RS" -> OrW(csr, oper2)
      [] op = "RC" -> AndW(csr, NotW(oper2))
      [] OTHER -> None
Outcome(rd, dnpc, mem, csr, excp) == [rd |-> rd, dnpc |-> dnpc, mem |-> mem, csr |-> csr, excp |-> excp]
EXU(i, s) ==
    LET row == ListLookup(i)
        im  == WordOf(imm(i, row.fmt))
        b   == Oper(row.op2, s, im)
        result == ALU(row.alu, Oper(row.op1, s, im), b)
        target == IF row.br = "JALR" THEN ClearLow(AddW(s.rs1, im)) ELSE AddW(s.pc, im)
        value == CASE row.exec = "ALU" -> result [] row.exec = "CSR" -> s.csr [] OTHER -> None
        excp  == CASE row.fmt = "E" -> "illegal" [] row.exec \in {"ECall", "EBreak", "MRet"} -> row.exec [] OTHER -> NoExcp
    IN  IF excp # NoExcp THEN Outcome(None, None, None, None, excp)
        ELSE Outcome(IF row.we /\ i.rd # 0 THEN value ELSE None,
                     IF br_taken(row.br, result) THEN target ELSE AddW(s.pc, Word4),
                     IF row.exec = "LSU" THEN <<row.lsu, result, IF row.lsu \in Stores THEN s.rs2 ELSE None>> ELSE None,
                     csr_rd_data(row.csr, s.csr, b), NoExcp)

(***************************************************************************)
(* NEMU: the patterns decode_exec tries, with the type that decode_operand *)
(* is given.                                                               *)
(***************************************************************************)
P(pat, type) == [pat |-> pat, type |-> type]
nemu_patterns ==
    [lui |-> P(Op(13), "U"), auipc |-> P(Op(5), "U"), jal |-> P(Op(27), "J"), jalr |-> P(OpF3(25, 0), "I"),
     beq |-> P(OpF3(24, 0), "B"), bne |-> P(OpF3(24, 1), "B"), blt |-> P(OpF3(24, 4), "B"),
     bge |-> P(OpF3(24, 5), "B"), bltu |-> P(OpF3(24, 6), "B"), bgeu |-> P(OpF3(24, 7), "B"),
     lb |-> P(OpF3(0, 0), "I"), lh |-> P(OpF3(0, 1), "I"), lw |-> P(OpF3(0, 2), "I"),
     lbu |-> P(OpF3(0, 4), "I"), lhu |-> P(OpF3(0, 5), "I"),
     sb |-> P(OpF3(8, 0), "S"), sh |-> P(OpF3(8, 1), "S"), sw |-> P(OpF3(8, 2), "S"),
     addi |-> P(OpF3(4, 0), "I"), slti |-> P(OpF3(4, 2), "I"), sltiu |-> P(OpF3(4, 3), "I"),
     xori |-> P(OpF3(4, 4), "I"), ori |-> P(OpF3(4, 6), "I"), andi |-> P(OpF3(4, 7), "I"),
     slli |-> P(OpF7(4, 1, 0), "I"), srli |-> P(OpF7(4, 5, 0), "I"), srai |-> P(OpF7(4, 5, 32), "I"),
     add |-> P(OpF7(12, 0, 0), "R"), sub |-> P(OpF7(12, 0, 32), "R"), sll |-> P(OpF7(12, 1, 0), "R"),
     slt |-> P(OpF7(12, 2, 0), "R"), sltu |-> P(OpF7(12, 3, 0), "R"), xor |-> P(OpF7(12, 4, 0), "R"),
     srl |-> P(OpF7(12, 5, 0), "R"), sra |-> P(OpF7(12, 5, 32), "R"), or |-> P(OpF7(12, 6, 0), "R"), and |-> P(OpF7(12, 7, 0), "R"),
     fence |-> P(OpF3(3, 0), "N"), ecall |-> P(Exact(0, 0), "N"), ebreak |-> P(Exact(0, 1), "N"),
     mul |-> P(OpF7(12, 0, 1), "R"), mulh |-> P(OpF7(12, 1, 1), "R"), mulhsu |-> P(OpF7(12, 2, 1), "R"), mulhu |-> P(OpF7(12, 3, 1), "R"),
     div |-> P(OpF7(12, 4, 1), "R"), divu |-> P(OpF7(12, 5, 1), "R"), rem |-> P(OpF7(12, 6, 1), "R"), remu |-> P(OpF7(12, 7, 1), "R"),
     csrrw |-> P(OpF3(28, 1), "CSR"), csrrs |-> P(OpF3(28, 2), "CSR"), csrrc |-> P(OpF3(28, 3), "CSR"),
     csrrwi |-> P(OpF3(28, 5), "CSR_IMM"), csrrsi |-> P(OpF3(28, 6), "CSR_IMM"), csrrci |-> P(OpF3(28, 7), "CSR_IMM"),
     mret |-> P(Exact(24, 2), "N"), fence_i |-> P(OpF3(3, 1), "N")]
Invalid == [name |-> "inv", type |-> "N"]
\* No word matches two patterns of a list (SameInstruction), so the order in which they are tried does not matter.
Tried(i, pats) == {n \in DOMAIN pats : Matches(i, pats[n].pat)}
First(i, pats) ==
    IF Tried(i, pats) = {} THEN Invalid ELSE LET n == CHOOSE m \in Tried(i, pats) : TRUE IN [name |-> n, type |-> pats[n].type]
\* The immediate macros of inst.c.
nemu_imm(i, type) ==
    CASE type = "I" -> SEXT(BITS(i, 31, 20), 2048)
      [] type = "U" -> SEXT(BITS(i, 31, 12), 524288) * 4096
      [] type = "S" -> SEXT(BITS(i, 31, 25), 64) * 32 + BITS(i, 11, 7)
      [] type = "B" -> SEXT(BITS(i, 31, 31), 1) * 4096 + BITS(i, 7, 7) * 2048 + BITS(i, 30, 25) * 32 + BITS(i, 11, 8) * 2
      [] type = "J" -> SEXT(BITS(i, 31, 31), 1) * 1048576 + BITS(i, 19, 12) * 4096 + BITS(i, 20, 20) * 2048 + BITS(i, 30, 21) * 2
      [] type = "CSR_IMM" -> BITS(i, 19, 15)
      [] OTHER -> 0
decode_operand(type) ==
    (IF type \in {"R", "I", "S", "B", "CSR"} THEN {"rs1"} ELSE {}) \cup (IF type \in {"R", "S", "B"} THEN {"rs2"} ELSE {})
nemu_taken(n, a, b) ==
    CASE n = "beq" -> a = b [] n = "bne" -> a # b
      [] n = "blt" -> Lt(a, b) [] n = "bge" -> ~Lt(a, b)
      [] n = "bltu" -> Ltu(a, b) [] n = "bgeu" -> ~Ltu(a, b)
      [] OTHER -> FALSE
nemu_value(n, s, im) ==
    LET a == s.rs1  b == s.rs2
        shift == IF n \in {"slli", "srli", "srai"} THEN im[0] % 32 ELSE b[0] % 32
    IN  CASE n = "lui" -> im
          [] n = "auipc" -> AddW(s.pc, im)
          [] n \in {"jal", "jalr"} -> AddW(s.pc, Word4)
          [] n = "addi" -> AddW(a, im)
          [] n = "slti" -> Lsb(Lt(a, im))
          [] n = "sltiu" -> Lsb(Ltu(a, im))
          [] n = "xori" -> XorW(a, im)
          [] n = "ori" -> OrW(a, im)
          [] n = "andi" -> AndW(a, im)
          [] n \in {"slli", "sll"} -> Sll(a, shift)
          [] n \in {"srli", "srl"} -> Srl(a, shift)
          [] n \in {"srai", "sra"} -> Sra(a, shift)
          [] n = "add" -> AddW(a, b)
          [] n = "sub" -> AddW(a, NegW(b))
          [] n = "slt" -> Lsb(Lt(a, b))
          [] n = "sltu" -> Lsb(Ltu(a, b))
          [] n = "xor" -> XorW(a, b)
          [] n = "or" -> OrW(a, b)
          [] n = "and" -> AndW(a, b)
          [] n \in {"csrrw", "csrrs", "csrrc", "csrrwi", "csrrsi", "csrrci"} -> s.csr
          [] OTHER -> None
nemu_csr(n, s, im) ==
    CASE n = "csrrw" -> s.rs1
      [] n = "csrrwi" -> im
      [] n = "csrrs" -> OrW(s.csr, s.rs1)
      [] n = "csrrsi" -> OrW(s.csr, im)
      [] n = "csrrc" -> AndW(s.csr, NotW(s.rs1))
      [] n = "csrrci" -> AndW(s.csr, NotW(im))
      [] OTHER -> None
NemuLoads == {"lb", "lh", "lw", "lbu", "lhu"}
NemuStores == {"sb", "sh", "sw"}
nemu_special == [ecall |-> "ECall", ebreak |-> "EBreak", mret |-> "MRet", inv |-> "illegal", fence |-> "todo"]
decode_exec(i, s) ==
    LET p  == First(i, nemu_patterns)
        n  == p.name
        im == WordOf(nemu_imm(i, p.type))
    IN  IF n \in DOMAIN nemu_special THEN Outcome(None, None, None, None, nemu_special[n])
        ELSE Outcome(IF i.rd # 0 THEN nemu_value(n, s, im) ELSE None,
                     CASE n = "jal" \/ nemu_taken(n, s.rs1, s.rs2) -> AddW(s.pc, im)
                       [] n = "jalr" -> ClearLow(AddW(s.rs1, im))
                       [] OTHER -> AddW(s.pc, Word4),
                     CASE n \in NemuLoads -> <<n, AddW(s.rs1, im), None>>
                       [] n \in NemuStores -> <<n, AddW(s.rs1, im), s.rs2>>
                       [] OTHER -> None,
                     nemu_csr(n, s, im), NoExcp)

(***************************************************************************)
(* What the trace-driven simulators are told about an instruction.         *)
(***************************************************************************)
ldstr_patterns ==
    [lb |-> P(OpF3(0, 0), "I"), lh |-> P(OpF3(0, 1), "I"), lw |-> P(OpF3(0, 2), "I"), lbu |-> P(OpF3(0, 4), "I"), lhu |-> P(OpF3(0, 5), "I"),
     sb |-> P(OpF3(8, 0), "S"), sh |-> P(OpF3(8, 1), "S"), sw |-> P(OpF3(8, 2), "S")]
isa_decode_ldstr(i, s) ==
    LET p == First(i, ldstr_patterns) IN
    IF p = Invalid THEN None ELSE [read |-> p.type = "I", addr |-> AddW(s.rs1, WordOf(nemu_imm(i, p.type)))]
branch_patterns ==
    [beq |-> P(OpF3(24, 0), "B"), bne |-> P(OpF3(24, 1), "B"), blt |-> P(OpF3(24, 4), "B"),
     bge |-> P(OpF3(24, 5), "B"), bltu |-> P(OpF3(24, 6), "B"), bgeu |-> P(OpF3(24, 7), "B"),
     jal |-> P(Op(27), "J"), jalr |-> P(OpF3(25, 0), "I")]
isa_decode_branch(i, s) ==
    LET p  == First(i, branch_patterns)
        im == WordOf(nemu_imm(i, p.type))
    IN  IF p = Invalid THEN None
        ELSE [uncond |-> p.name \in {"jal", "jalr"}, taken |-> p.name \in {"jal", "jalr"} \/ nemu_taken(p.name, s.rs1, s.rs2),
              target |-> IF p.name = "jalr" THEN ClearLow(AddW(s.rs1, im)) ELSE AddW(s.pc, im)]

(***************************************************************************)
(* Byte lanes: the LSU's shifts and strobes on one word of memory, and     *)
(* NEMU's host_read and host_write of the same bytes.                      *)
(***************************************************************************)
lb_sel(w, off) == w[off]
lh_sel(w, off) == IF off \in {0, 2} THEN <<w[off], w[off + 1]>> ELSE <<0, 0>>
Extend(bytes, signed) ==
    LET fill == IF signed /\ bytes[Len(bytes)] >= 128 THEN 255 ELSE 0
    IN  [k \in Bytes |-> IF k < Len(bytes) THEN bytes[k + 1] ELSE fill]
selected_loaded_data(op, w, off) ==
    CASE op = "LB"  -> Extend(<<lb_sel(w, off)>>, TRUE)
      [] op = "LBU" -> Extend(<<lb_sel(w, off)>>, FALSE)
      [] op = "LH"  -> Extend(lh_sel(w, off), TRUE)
      [] op = "LHU" -> Extend(lh_sel(w, off), FALSE)
      [] op = "LW"  -> w
write_mask(op, off) ==
    LET base == CASE op = "SB" -> {0} [] op = "SH" -> {0, 1} [] op = "SW" -> {}
    IN  IF op = "SW" THEN 0 .. 3 ELSE {b + off : b \in base} \cap (0 .. 3)
selected_store_data(op, data, off) == IF op = "SW" THEN data ELSE Sll(data, 8 * off)
pmem_write(w, data, mask) == [k \in Bytes |-> IF k \in mask THEN data[k] ELSE w[k]]
LenOf(op) == CASE op \in {"LB", "LBU", "SB"} -> 1 [] op \in {"LH", "LHU", "SH"} -> 2 [] OTHER -> 4
host_read(w, off, len) == [k \in 1 .. len |-> w[off + k - 1]]
host_write(w, off, len, data) == [k \in Bytes |-> IF k \in off .. off + len - 1 THEN data[k - off] ELSE w[k]]

(***************************************************************************)
(* The SDRAM model's DPI-C address and chip number, back to the address    *)
(* the core issued.  The controller (external) drops bits 1, 0 and 12 and  *)
(* pads two zeros.                                                         *)
(***************************************************************************)
\* The bits of n from the one of value low up to below the one of value high.
Field(n, low, high) == (n % high) \div low
SdramController(addr, high) ==
    [addr |-> Field(addr, 8192, 67108864) * 4096 + Field(addr, 4, 4096) * 4, id |-> 2 * Field(addr, 4096, 8192) + (IF high THEN 1 ELSE 0)]
convert_sdram_addr(addr, id) ==
    Field(addr, 4096, 33554432) * 8192 + (id \div 2) * 4096 + Field(addr, 4, 4096) * 4 + (id % 2) * 2

(***************************************************************************)
(* What must agree.                                                        *)
(***************************************************************************)
NemuOnly == {"fence", "mul", "mulh", "mulhsu", "mulhu", "div", "divu", "rem", "remu"}
RtlName == [lb |-> "LB", lh |-> "LH", lw |-> "LW", lbu |-> "LBU", lhu |-> "LHU", sb |-> "SB", sh |-> "SH", sw |-> "SW"]
SameInstruction(i) ==
    LET p == First(i, nemu_patterns) IN
    /\ \A m, n \in Selected(i) : m = n
    /\ \A pats \in {nemu_patterns, ldstr_patterns, branch_patterns} : \A m, n \in Tried(i, pats) : m = n
    /\ (Selected(i) = {}) = (p.name \in NemuOnly \cup {"inv"})
    /\ ListLookup(i).fmt # "E" => decode_operand(p.type) \subseteq reads(ListLookup(i))
\* e is what the core does, n what NEMU does.
SameOutcome(i, e, n) ==
    LET named == IF n.mem = None THEN None ELSE <<RtlName[n.mem[1]], n.mem[2], n.mem[3]>>
    IN  First(i, nemu_patterns).name \notin NemuOnly => e = [n EXCEPT !.mem = named]
TraceRight(i, s, n) ==
    LET l == isa_decode_ldstr(i, s)  b == isa_decode_branch(i, s) IN
    /\ (l # None) = (n.mem # None)
    /\ l # None => l.addr = n.mem[2] /\ l.read = (n.mem[3] = None)
    /\ b = None /\ n.excp = NoExcp => n.dnpc = AddW(s.pc, Word4)
    /\ b # None => n.dnpc = IF b.taken THEN b.target ELSE AddW(s.pc, Word4)
LanesRight(w, data, off, op) ==
    off % LenOf(op) = 0 =>
        IF op \in Loads
        THEN selected_loaded_data(op, w, off) = Extend(host_read(w, off, LenOf(op)), op \in {"LB", "LH"})
        ELSE pmem_write(w, selected_store_data(op, data, off), write_mask(op, off)) = host_write(w, off, LenOf(op), data)
SdramRight(addr, high) ==
    LET c == SdramController(addr, high)
    IN  convert_sdram_addr(c.addr, c.id) = (addr \div 4) * 4 + (IF high THEN 2 ELSE 0)
\* An access reaches the bytes it names, on chip and on the SDRAM.
AccessRight(s, mem) ==
    LET addr == mem[2] IN
    /\ LanesRight(s.mem, s.rs2, addr[0] % 4, mem[1])
    /\ \A high \in BOOLEAN : SdramRight(Lo24(addr) + 16777216 * (addr[3] % 4), high)

(***************************************************************************)
(* One instruction, executed by both.                                      *)
(***************************************************************************)
CONSTANTS InstWords, Sources
ASSUME DatapathAssumption ==
    InstWords \subseteq InstWord /\ Sources \subseteq [pc : DataWord, rs1 : DataWord, rs2 : DataWord, csr : DataWord, mem : DataWord]
VARIABLES inst, src,     \* the word and its operands; src.mem is the word of memory it may access
          core, nemu     \* what the core does, and what NEMU does
dvars == <<inst, src, core, nemu>>
DInit == inst \in InstWords /\ src \in Sources /\ core = None /\ nemu = None
Execute ==
    /\ core = None
    /\ core' = EXU(inst, src) /\ nemu' = decode_exec(inst, src)
    /\ UNCHANGED <<inst, src>>
DNext == Execute
DSpec == DInit /\ [][DNext]_dvars
DatapathStep ==
    core' # None => /\ SameInstruction(inst)
                    /\ SameOutcome(inst, core', nemu')
                    /\ TraceRight(inst, src, nemu')
                    /\ core'.mem # None => AccessRight(src, core'.mem)
\* IDU, EXU, LSU and dpic.cpp against inst.c and host.h: for every instruction word the decode table selects at most one row, and
\* exactly where NEMU has a pattern (the M extension and fence aside), reads the registers NEMU reads, and has NEMU's result, next
\* pc, CSR value and memory request; the bytes moved are those of NEMU's host_read and host_write, and of the SDRAM chips; and
\* the records for the trace-driven simulators say what then happens.
DatapathAgrees == [][DatapathStep]_dvars
===========================================================================
