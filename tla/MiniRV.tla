------------------------------ MODULE MiniRV ------------------------------
(***************************************************************************)
(* tools/minirv: programs for the eight-instruction machine (add, addi,    *)
(* lui, lw, lbu, sw, sb, jalr) are compiled for RV32 and every other       *)
(* instruction is replaced by the macro of inst-replace.h that bears its   *)
(* name.  A macro is modelled by the sequence of base instructions it      *)
(* expands to, and the base machine by Exec.  Words have their real width, *)
(* and the sw/lbu pairs of the macros pick their bytes.                    *)
(***************************************************************************)
EXTENDS Words
LOCAL INSTANCE Integers
LOCAL INSTANCE Sequences
LOCAL INSTANCE TLC
LOCAL INSTANCE Bitwise
LOCAL INSTANCE SequencesExt
LOCAL INSTANCE FiniteSetsExt

(***************************************************************************)
(* The read-only tables and where the linker puts them.                    *)
(***************************************************************************)
_and8_table == 65536
_or8_table  == _and8_table + 256 * 256
_xor8_table == _or8_table + 256 * 256
_sll8_table == _xor8_table + 256 * 256
_srl8_table == _sll8_table + 32 * 256 * 4
_sra8_table == _srl8_table + 32 * 256 * 4
_same_result_table == _sra8_table + 32 * 256 * 4
_check_8bit_0_table == _same_result_table + 256
_slt1_table == _check_8bit_0_table + 256
_sltu1_table == _slt1_table + 8
_or1_table == _sltu1_table + 8
_check_same_array == 720896          \* writable, never initialised
StackPointer == 983040
DataAddr == 1048576
Target == 2097152                    \* the label a branch or jump names
NextInst == 3145728                  \* the instruction after the macro

\* gen-lut.c: row j, column i of each table, one or four bytes an entry.
Lut8(op(_, _), a) == op(a \div 256, a % 256)
Lut32(shift(_, _), a) ==
    LET j == a \div 1024  i == (a % 1024) \div 4 IN shift(i, j)[a % 4]
Table(from, to) == from .. to - 1
gen_table(a) ==
    CASE a \in Table(_and8_table, _or8_table)  -> Lut8(LAMBDA j, i : j & i, a - _and8_table)
      [] a \in Table(_or8_table, _xor8_table)  -> Lut8(LAMBDA j, i : j | i, a - _or8_table)
      [] a \in Table(_xor8_table, _sll8_table) -> Lut8(LAMBDA j, i : j ^^ i, a - _xor8_table)
      [] a \in Table(_sll8_table, _srl8_table) -> Lut32(LAMBDA i, j : Sll(WordOf(i), j), a - _sll8_table)
      [] a \in Table(_srl8_table, _sra8_table) -> Lut32(LAMBDA i, j : Srl(Sll(WordOf(i), 24), j), a - _srl8_table)
      [] OTHER -> Lut32(LAMBDA i, j : Sra(Sll(WordOf(i), 24), j), a - _sra8_table)
small_tables(a) ==
    CASE a \in Table(_same_result_table, _check_8bit_0_table) -> IF a = _same_result_table THEN 1 ELSE 0
      [] a \in Table(_check_8bit_0_table, _slt1_table) -> IF a = _check_8bit_0_table THEN 0 ELSE 1
      [] a \in Table(_slt1_table, _sltu1_table) -> <<0, 1, 0, 0, 1, 1, 0, 1>>[a - _slt1_table + 1]
      [] a \in Table(_sltu1_table, _or1_table) -> <<0, 1, 1, 1, 0, 0, 0, 1>>[a - _sltu1_table + 1]
      [] OTHER -> <<0, 1, 1, 1>>[a - _or1_table + 1]

(***************************************************************************)
(* The base machine.  A state is the registers, the bytes written so far   *)
(* and the address a jump left for (NextInst while none was taken).        *)
(***************************************************************************)
Junk == 165
Load(m, a) ==
    IF a \in DOMAIN m THEN m[a]
    ELSE CASE a \in Table(_and8_table, _same_result_table) -> gen_table(a)
           [] a \in Table(_same_result_table, _or1_table + 4) -> small_tables(a)
           [] OTHER -> Junk
SetReg(st, rd, w) == IF rd = "x0" THEN st ELSE [st EXCEPT !.r[rd] = w]
Addr(st, i) == Lo24(AddW(st.r[i.a], WordOf(i.n)))
Exec(st, i) ==
    IF st.pc # NextInst THEN st
    ELSE CASE i.op = "add"  -> SetReg(st, i.d, AddW(st.r[i.a], st.r[i.b]))
           [] i.op = "addi" -> SetReg(st, i.d, AddW(st.r[i.a], WordOf(i.n)))
           [] i.op = "lui"  -> SetReg(st, i.d, WordOf(i.n * 4096))
           [] i.op = "lw"   -> SetReg(st, i.d, [k \in Bytes |-> Load(st.m, Addr(st, i) + k)])
           [] i.op = "lbu"  -> SetReg(st, i.d, WordOf(Load(st.m, Addr(st, i))))
           [] i.op = "sw"   -> [st EXCEPT !.m = [x \in {Addr(st, i) + k : k \in Bytes} |->
                                                    st.r[i.d][x - Addr(st, i)]] @@ @]
           [] i.op = "sb"   -> [st EXCEPT !.m = (Addr(st, i) :> st.r[i.d][0]) @@ @]
           [] i.op = "jalr" -> [SetReg(st, i.d, WordOf(NextInst)) EXCEPT !.pc = Addr(st, i)]
Run(st, code) == FoldLeft(Exec, st, code)

ADD(d, a, b) == [op |-> "add", d |-> d, a |-> a, b |-> b]
ADDI(d, a, n) == [op |-> "addi", d |-> d, a |-> a, n |-> n]
LUI(d, n) == [op |-> "lui", d |-> d, n |-> n]
Mem(op, d, a, n) == [op |-> op, d |-> d, a |-> a, n |-> n]
LBUR(d, a) == Mem("lbu", d, a, 0)
JALR(d, a) == Mem("jalr", d, a, 0)

(***************************************************************************)
(* The scratch words below sp, and the macros.                             *)
(***************************************************************************)
SP_VAR_BYTE(n, boffset) == -n * 4 + boffset
VAR_A == 4
VAR_B == 5
VAR_C == 6
VAR_D == 7
SW(r, n) == Mem("sw", r, "sp", SP_VAR_BYTE(n, 0))
LW(r, n) == Mem("lw", r, "sp", SP_VAR_BYTE(n, 0))
SB(r, n, b) == Mem("sb", r, "sp", SP_VAR_BYTE(n, b))
LBU(r, n, b) == Mem("lbu", r, "sp", SP_VAR_BYTE(n, b))
PUSH(r, n) == SW(r, n)
POP(r, n) == LW(r, n)

mv(d, a) == ADDI(d, a, 0)
la(r, addr) == LET hi == (addr + 2048) \div 4096 IN <<LUI(r, hi), ADDI(r, r, addr - 4096 * hi)>>
call_template(r, addr) == la(r, addr) \o <<JALR(r, r)>>
j(addr) == la("tp", addr) \o <<JALR("x0", "tp")>>
jal(rd, addr) == IF rd = "x0" THEN j(addr) ELSE call_template(rd, addr)
tail(addr) == la("tp", addr) \o <<JALR("x0", "tp")>> \o call_template("ra", addr)

not(rd, rs1) ==
    <<PUSH("gp", 3), SW(rs1, VAR_C)>> \o la("tp", _xor8_table + 255 * 256)
    \o FlattenSeq([k \in 1 .. 4 |->
          <<LBU("gp", VAR_C, 4 - k), ADD("gp", "gp", "tp"), LBUR("gp", "gp"), SB("gp", VAR_D, 4 - k)>>])
    \o <<POP("gp", 3), LW(rd, VAR_D)>>
sub(rd, rs1, rs2) == not("tp", rs2) \o <<ADD(rd, rs1, "tp"), ADDI(rd, rd, 1)>>
getbyte(rd, rs1, byte) == <<SW(rs1, VAR_C), LBU(rd, VAR_C, byte)>>
sh(rs, a, n) == <<Mem("sb", rs, a, n)>> \o getbyte("tp", rs, 1) \o <<Mem("sb", "tp", a, n + 1)>>

\* Left shifts by a constant: whole bytes through the scratch word, the rest
\* by doubling.
slli_adds(rd, rs1, imm) ==
    IF imm = 0 THEN IF rd # rs1 THEN <<mv(rd, rs1)>> ELSE <<>>
    ELSE <<ADD(rd, rs1, rs1)>> \o [k \in 1 .. imm - 1 |-> ADD(rd, rd, rd)]
slli(rd, rs1, imm) ==
    CASE imm >= 24 -> <<SW("x0", VAR_A), SB(rs1, VAR_A, 3), LW(rd, VAR_A)>> \o slli_adds(rd, rd, imm - 24)
      [] imm >= 16 /\ imm < 24 -> <<SW("x0", VAR_A)>> \o sh(rs1, "sp", SP_VAR_BYTE(VAR_A, 2))
                                  \o <<LW(rd, VAR_A)>> \o slli_adds(rd, rd, imm - 16)
      [] OTHER -> slli_adds(rd, rs1, imm)

msb(rd, rs1) == getbyte(rd, rs1, 3) \o slli(rd, rd, 1) \o getbyte(rd, rd, 1)

\* Variant: s1 is not given back.
SltTemplateKeepsS1(lut, rd, rs1, rs2) ==
    <<PUSH("s0", 1), PUSH("s1", 2), SW(rs2, VAR_A), mv("s0", rs1), LW("s1", VAR_A)>>
    \o msb("gp", "s0") \o slli("gp", "gp", 1)
    \o msb("tp", "s1") \o <<ADD("gp", "gp", "tp")>> \o slli("gp", "gp", 1)
    \o sub("tp", "s0", "s1") \o msb("tp", "tp") \o <<ADD("gp", "gp", "tp")>>
    \o la("tp", lut) \o <<ADD("tp", "tp", "gp"), POP("s0", 1), LBUR(rd, "tp")>>
slt_template(lut, rd, rs1, rs2) ==
    <<PUSH("s0", 1), PUSH("s1", 2), SW(rs2, VAR_A), mv("s0", rs1), LW("s1", VAR_A)>>
    \o msb("gp", "s0") \o slli("gp", "gp", 1)
    \o msb("tp", "s1") \o <<ADD("gp", "gp", "tp")>> \o slli("gp", "gp", 1)
    \o sub("tp", "s0", "s1") \o msb("tp", "tp") \o <<ADD("gp", "gp", "tp")>>
    \o la("tp", lut) \o <<ADD("tp", "tp", "gp"), POP("s1", 2), POP("s0", 1), LBUR(rd, "tp")>>
slt(rd, rs1, rs2) == slt_template(_slt1_table, rd, rs1, rs2)
sltu(rd, rs1, rs2) == slt_template(_sltu1_table, rd, rs1, rs2)

logic8_byte_internal(lut_reg, boffset) ==
    <<LBU("tp", VAR_A, boffset), SB("tp", VAR_D, 1), LBU("tp", VAR_B, boffset), SB("tp", VAR_D, 0),
      LW("tp", VAR_D), ADD("tp", lut_reg, "tp"), LBUR("tp", "tp"), SB("tp", VAR_C, boffset)>>
logic(lut, rd, rs1, rs2) ==
    IF rd = "x0" THEN <<>>
    ELSE <<SW(rs1, VAR_A), SW(rs2, VAR_B)>> \o la(rd, lut) \o <<SW("x0", VAR_D)>>
         \o FlattenSeq([k \in 1 .. 4 |-> logic8_byte_internal(rd, 4 - k)]) \o <<LW(rd, VAR_C)>>

\* Equality: mark the byte of rs1 in an array, clear the byte of rs2, look
\* whether the mark is still there.
check_8bit_same(table, rd, boffset) ==
    <<LBU(rd, VAR_A, boffset), ADD("tp", table, rd), ADDI(rd, "x0", 1), Mem("sb", rd, "tp", 0),
      LBU(rd, VAR_B, boffset), ADD(rd, table, rd), Mem("sb", "x0", rd, 0), LBUR(rd, "tp")>>
seq(rd, rs1, rs2) ==
    <<SW(rs1, VAR_A), SW(rs2, VAR_B), PUSH("s0", 1), PUSH("s1", 2)>>
    \o la("s0", _check_same_array) \o check_8bit_same("s0", "gp", 0)
    \o FlattenSeq([k \in 1 .. 3 |-> check_8bit_same("s0", "s1", k) \o <<ADD("gp", "gp", "s1")>>])
    \o la("tp", _same_result_table)
    \o <<ADD("tp", "tp", "gp"), LBUR(rd, "tp"), POP("s1", 2), POP("s0", 1)>>
check_8bit_0(table, rd, boffset) == <<LBU(rd, VAR_A, boffset), ADD(rd, table, rd), LBUR(rd, rd)>>
seqz(rd, rs1) ==
    <<SW(rs1, VAR_A), PUSH("s0", 1)>> \o la("s0", _check_8bit_0_table) \o check_8bit_0("s0", "gp", 0)
    \o FlattenSeq([k \in 1 .. 3 |-> check_8bit_0("s0", "tp", k) \o <<ADD("gp", "gp", "tp")>>])
    \o la("tp", _same_result_table) \o <<ADD("tp", "tp", "gp"), LBUR(rd, "tp"), POP("s0", 1)>>

\* Branches: the flag in tp picks one of two addresses stored side by side.
branch_resolve(is_tp_high_sel_target) ==
    LET high == IF is_tp_high_sel_target THEN Target ELSE NextInst
        low  == IF is_tp_high_sel_target THEN NextInst ELSE Target
    IN  slli("tp", "tp", 2) \o <<ADD("tp", "sp", "tp")>>
        \o la("gp", high) \o <<SW("gp", VAR_A)>> \o la("gp", low) \o <<SW("gp", VAR_B)>>
        \o <<Mem("lw", "tp", "tp", -VAR_B * 4), JALR("x0", "tp")>>
equal_flag(rs1, rs2) ==
    CASE rs2 = "x0" -> seqz("tp", rs1)
      [] rs2 # "x0" /\ rs1 = "x0" -> seqz("tp", rs2)
      [] OTHER -> seq("tp", rs1, rs2)
beq(rs1, rs2) == equal_flag(rs1, rs2) \o branch_resolve(TRUE)
bne(rs1, rs2) == equal_flag(rs1, rs2) \o branch_resolve(FALSE)
not_positive(rs2) ==
    msb("gp", rs2) \o <<ADDI("tp", rs2, -1)>> \o msb("tp", "tp") \o <<ADD("gp", "gp", "tp")>>
    \o la("tp", _or1_table) \o <<ADD("tp", "gp", "tp"), LBUR("tp", "tp")>>
blt(rs1, rs2) ==
    CASE rs2 = "x0" -> msb("tp", rs1) \o branch_resolve(TRUE)
      [] rs2 # "x0" /\ rs1 = "x0" -> not_positive(rs2) \o branch_resolve(FALSE)
      [] OTHER -> slt("tp", rs1, rs2) \o branch_resolve(TRUE)
bge(rs1, rs2) ==
    IF rs1 = "x0" THEN not_positive(rs2) \o branch_resolve(TRUE)
    ELSE slt("tp", rs1, rs2) \o branch_resolve(FALSE)
bltu(rs1, rs2) == sltu("tp", rs1, rs2) \o branch_resolve(TRUE)
bgeu(rs1, rs2) == sltu("tp", rs1, rs2) \o branch_resolve(FALSE)

\* Shifts by a register: one table word per byte of rs1.
getshamt(rd, rs1) ==
    <<SB(rs1, VAR_B, 0), LBU(rd, VAR_B, 0)>> \o la("tp", _and8_table + 31 * 256)
    \o <<ADD(rd, rd, "tp"), LBUR(rd, rd)>>
shift_row(rs2, table) ==
    getshamt("s0", rs2) \o <<SW("x0", VAR_B), SB("s0", VAR_B, 1), LW("s0", VAR_B)>>
    \o slli("s0", "s0", 2) \o la("tp", table) \o <<ADD("s0", "s0", "tp")>>
get_shift_byte_in_tp(base, boffset) ==
    <<LBU("tp", VAR_A, boffset)>> \o slli("tp", "tp", 2) \o <<ADD("tp", base, "tp"), Mem("lw", "tp", "tp", 0)>>
sll(rd, rs1, rs2) ==
    <<PUSH("s0", 1), SW(rs1, VAR_A)>> \o shift_row(rs2, _sll8_table)
    \o <<SW("x0", VAR_B)>> \o get_shift_byte_in_tp("s0", 3) \o <<SB("tp", VAR_B, 3), LW("gp", VAR_B)>>
    \o get_shift_byte_in_tp("s0", 2) \o sh("tp", "sp", SP_VAR_BYTE(VAR_B, 2))
    \o <<LW("tp", VAR_B), ADD("gp", "gp", "tp")>>
    \o get_shift_byte_in_tp("s0", 1) \o slli("tp", "tp", 8) \o <<ADD("gp", "gp", "tp")>>
    \o get_shift_byte_in_tp("s0", 0) \o <<POP("s0", 1), ADD(rd, "gp", "tp")>>
shift_right_24(rd, rs1, is_arith) ==
    IF is_arith
    THEN <<SW(rs1, VAR_A)>> \o la("tp", _sra8_table + 24 * 1024) \o <<LBU(rd, VAR_A, 3)>>
         \o slli(rd, rd, 2) \o <<ADD("tp", "tp", rd), Mem("lw", rd, "tp", 0)>>
    ELSE getbyte(rd, rs1, 3)
shift_right_bytes(rd, is_arith) ==
    get_shift_byte_in_tp("s0", 2) \o <<SW("tp", VAR_B)>>
    \o get_shift_byte_in_tp("s0", 1) \o <<SW("tp", VAR_C)>>
    \o get_shift_byte_in_tp("s0", 0) \o <<SW("tp", VAR_D)>>
    \o <<LBU("gp", VAR_B, 1), LBU("tp", VAR_C, 2), ADD("gp", "gp", "tp"),
         LBU("tp", VAR_D, 3), ADD("gp", "gp", "tp"), SW("gp", VAR_D),
         LBU("gp", VAR_B, 2), LBU("tp", VAR_C, 3), ADD("gp", "gp", "tp"), SB("gp", VAR_D, 1),
         LBU("gp", VAR_B, 3), SB("gp", VAR_D, 2), LW("gp", VAR_D)>>
    \o (IF is_arith THEN la("tp", _sra8_table - _srl8_table) \o <<ADD("s0", "s0", "tp")>> ELSE <<>>)
    \o get_shift_byte_in_tp("s0", 3) \o <<POP("s0", 1), ADD(rd, "gp", "tp")>>
shift_right_reg(rd, rs1, rs2, is_arith) ==
    <<PUSH("s0", 1), SW(rs1, VAR_A)>> \o shift_row(rs2, _srl8_table) \o shift_right_bytes(rd, is_arith)
shift_right_imm(rd, rs1, imm, is_arith) ==
    IF imm = 24 THEN shift_right_24(rd, rs1, is_arith)
    ELSE <<PUSH("s0", 1), SW(rs1, VAR_A)>> \o la("s0", _srl8_table + imm * 1024)
         \o shift_right_bytes(rd, is_arith)

\* Loads and stores of bytes and halfwords at n(a).
lb(rd, a, n) ==
    <<SW("x0", VAR_A), Mem("lbu", rd, a, n), SB(rd, VAR_A, 3), LW(rd, VAR_A)>>
    \o shift_right_imm(rd, rd, 24, TRUE)
lhu(rd, a, n) ==
    <<SW("x0", VAR_A), Mem("lbu", "tp", a, n + 1), SB("tp", VAR_A, 1), LW("tp", VAR_A),
      Mem("lbu", rd, a, n), ADD(rd, rd, "tp")>>
lh(rd, a, n) ==
    <<SW("x0", VAR_A), Mem("lbu", "gp", a, n + 1), SB("gp", VAR_A, 3), LW("gp", VAR_A)>>
    \o shift_right_imm("gp", "gp", 16, TRUE) \o <<Mem("lbu", rd, a, n), ADD(rd, rd, "gp")>>

\* def_itype: the immediate goes through tp.
def_itype(op, rd, rs1, imm) ==
    LET lut == CASE op = "andi" -> _and8_table [] op = "ori" -> _or8_table [] OTHER -> _xor8_table
    IN  <<ADDI("tp", "x0", imm)>>
        \o CASE op = "slti"  -> slt(rd, rs1, "tp")
             [] op = "sltiu" -> sltu(rd, rs1, "tp")
             [] OTHER        -> logic(lut, rd, rs1, "tp")

(***************************************************************************)
(* The macro an assembler line selects.                                    *)
(***************************************************************************)
RType == {"sub", "slt", "sltu", "and", "or", "xor", "sll", "srl", "sra", "sgt", "sgtu"}
UnaryType == {"not", "neg", "seqz", "snez", "sltz", "sgtz"}
IType == {"slti", "sltiu", "andi", "ori", "xori", "slli", "srli", "srai"}
BType == {"beq", "bne", "blt", "bge", "bltu", "bgeu", "bgt", "ble", "bgtu", "bleu"}
BzType == {"beqz", "bnez", "blez", "bgez", "bltz", "bgtz"}
LoadType == {"lb", "lh", "lhu"}
JType == {"j", "jal", "call", "tail"}

ExpandReg(op, rd, rs1, rs2) ==
    CASE op = "sub"  -> sub(rd, rs1, rs2)
      [] op = "slt"  -> slt(rd, rs1, rs2)
      [] op = "sltu" -> sltu(rd, rs1, rs2)
      [] op = "and"  -> logic(_and8_table, rd, rs1, rs2)
      [] op = "or"   -> logic(_or8_table, rd, rs1, rs2)
      [] op = "xor"  -> logic(_xor8_table, rd, rs1, rs2)
      [] op = "sll"  -> sll(rd, rs1, rs2)
      [] op = "srl"  -> shift_right_reg(rd, rs1, rs2, FALSE)
      [] op = "sra"  -> shift_right_reg(rd, rs1, rs2, TRUE)
      [] op = "sgt"  -> slt(rd, rs2, rs1)
      [] op = "sgtu" -> sltu(rd, rs2, rs1)
ExpandUnary(op, rd, rs) ==
    CASE op = "not"  -> not(rd, rs)
      [] op = "neg"  -> sub(rd, "x0", rs)
      [] op = "seqz" -> seqz(rd, rs)
      [] op = "snez" -> sltu(rd, "x0", rs)
      [] op = "sltz" -> msb(rd, rs)
      [] op = "sgtz" -> slt(rd, "x0", rs)
ExpandImm(op, rd, rs1, imm) ==
    CASE op = "slli" -> slli(rd, rs1, imm)
      [] op = "srli" -> shift_right_imm(rd, rs1, imm, FALSE)
      [] op = "srai" -> shift_right_imm(rd, rs1, imm, TRUE)
      [] OTHER       -> def_itype(op, rd, rs1, imm)
ExpandBranch(op, rs1, rs2) ==
    CASE op = "beq"  -> beq(rs1, rs2)
      [] op = "bne"  -> bne(rs1, rs2)
      [] op = "blt"  -> blt(rs1, rs2)
      [] op = "bge"  -> bge(rs1, rs2)
      [] op = "bltu" -> bltu(rs1, rs2)
      [] op = "bgeu" -> bgeu(rs1, rs2)
      [] op = "bgt"  -> blt(rs2, rs1)
      [] op = "ble"  -> bge(rs2, rs1)
      [] op = "bgtu" -> bltu(rs2, rs1)
      [] op = "bleu" -> bgeu(rs2, rs1)
ExpandBranchZ(op, rs) ==
    CASE op = "beqz" -> beq(rs, "x0")
      [] op = "bnez" -> bne(rs, "x0")
      [] op = "blez" -> bge("x0", rs)
      [] op = "bgez" -> bge(rs, "x0")
      [] op = "bltz" -> blt(rs, "x0")
      [] op = "bgtz" -> blt("x0", rs)
Expand(i) ==
    CASE i.op \in RType     -> ExpandReg(i.op, i.rd, i.rs1, i.rs2)
      [] i.op \in UnaryType -> ExpandUnary(i.op, i.rd, i.rs1)
      [] i.op \in IType     -> ExpandImm(i.op, i.rd, i.rs1, i.imm)
      [] i.op \in BType     -> ExpandBranch(i.op, i.rs1, i.rs2)
      [] i.op \in BzType    -> ExpandBranchZ(i.op, i.rs1)
      [] i.op = "lb"        -> lb(i.rd, i.rs1, i.imm)
      [] i.op = "lh"        -> lh(i.rd, i.rs1, i.imm)
      [] i.op = "lhu"       -> lhu(i.rd, i.rs1, i.imm)
      [] i.op = "sh"        -> sh(i.rs2, i.rs1, i.imm)
      [] i.op = "j"         -> j(Target)
      [] i.op = "jal"       -> jal(i.rd, Target)
      [] i.op = "call"      -> call_template("ra", Target)
      [] i.op = "tail"      -> tail(Target)

(***************************************************************************)
(* Reference: what the RV32 instruction of that name does.                 *)
(***************************************************************************)
Flag(b) == WordOf(IF b THEN 1 ELSE 0)
RvAlu(op, a, b) ==
    CASE op \in {"sub", "neg"}        -> AddW(a, NegW(b))
      [] op \in {"slt", "slti", "sltz", "sgtz"} -> Flag(Lt(a, b))
      [] op \in {"sltu", "sltiu", "snez"} -> Flag(Ltu(a, b))
      [] op = "sgt"                   -> Flag(Lt(b, a))
      [] op = "sgtu"                  -> Flag(Ltu(b, a))
      [] op = "seqz"                  -> Flag(a = b)
      [] op \in {"and", "andi"}       -> AndW(a, b)
      [] op \in {"or", "ori"}         -> OrW(a, b)
      [] op \in {"xor", "xori", "not"} -> XorW(a, b)
      [] op \in {"sll", "slli"}       -> Sll(a, b[0] % 32)
      [] op \in {"srl", "srli"}       -> Srl(a, b[0] % 32)
      [] op \in {"sra", "srai"}       -> Sra(a, b[0] % 32)
RvTaken(op, a, b) ==
    CASE op \in {"beq", "beqz"}         -> a = b
      [] op \in {"bne", "bnez"}         -> a # b
      [] op \in {"blt", "bltz"}         -> Lt(a, b)
      [] op \in {"bge", "bgez"}         -> ~Lt(a, b)
      [] op \in {"bgt", "bgtz"}         -> Lt(b, a)
      [] op \in {"ble", "blez"}         -> ~Lt(b, a)
      [] op = "bltu"                    -> Ltu(a, b)
      [] op = "bgeu"                    -> ~Ltu(a, b)
      [] op = "bgtu"                    -> Ltu(b, a)
      [] op = "bleu"                    -> ~Ltu(b, a)
RvLoad(op, lo, hi) ==
    CASE op = "lb"  -> [k \in Bytes |-> IF k = 0 THEN lo ELSE IF lo >= 128 THEN 255 ELSE 0]
      [] op = "lhu" -> [k \in Bytes |-> IF k = 0 THEN lo ELSE IF k = 1 THEN hi ELSE 0]
      [] op = "lh"  -> [k \in Bytes |-> IF k = 0 THEN lo ELSE IF k = 1 THEN hi ELSE IF hi >= 128 THEN 255 ELSE 0]
RvSecond(i, st) ==
    CASE i.op \in RType \cup BType -> st.r[i.rs2]
      [] i.op \in IType -> WordOf(i.imm)
      [] i.op = "not" -> NotW(Zero)
      [] i.op \in {"neg", "snez", "sgtz"} -> st.r[i.rs1]
      [] OTHER -> Zero
RvFirst(i, st) == IF i.op \in {"neg", "snez", "sgtz"} THEN Zero ELSE st.r[i.rs1]

WritesRd == RType \cup UnaryType \cup IType \cup LoadType \cup {"jal"}
DestOf(i) == CASE i.op \in WritesRd -> i.rd [] i.op = "call" -> "ra" [] OTHER -> "x0"
RvResult(i, st) ==
    CASE i.op \in LoadType -> RvLoad(i.op, Load(st.m, Lo24(st.r[i.rs1]) + i.imm),
                                           Load(st.m, Lo24(st.r[i.rs1]) + i.imm + 1))
      [] i.op \in {"jal", "call"} -> WordOf(NextInst)
      [] OTHER -> RvAlu(i.op, RvFirst(i, st), RvSecond(i, st))
RvPc(i, st) ==
    IF i.op \in JType \/ (i.op \in BType \cup BzType /\ RvTaken(i.op, RvFirst(i, st), RvSecond(i, st)))
    THEN Target ELSE NextInst

(***************************************************************************)
(* What an expansion owes the program around it.                           *)
(***************************************************************************)
SameResult(i, before, after) ==
    LET rd == DestOf(i) IN
    /\ rd # "x0" => after.r[rd] = RvResult(i, before)
    /\ after.pc = RvPc(i, before)
StoredAt(i, before) ==
    IF i.op = "sh" THEN {Lo24(before.r[i.rs1]) + i.imm, Lo24(before.r[i.rs1]) + i.imm + 1} ELSE {}
FrameKept(i, before, after) ==
    /\ \A r \in DOMAIN before.r \ {DestOf(i), "tp", "gp"} : after.r[r] = before.r[r]
    /\ \A a \in DOMAIN after.m :
          \/ a \in StackPointer - 28 .. StackPointer - 1
          \/ a \in _check_same_array .. _check_same_array + 255
          \/ Load(after.m, a) = IF a \in StoredAt(i, before)
                                THEN before.r[i.rs2][a - Lo24(before.r[i.rs1]) - i.imm]
                                ELSE Load(before.m, a)
===========================================================================
