----------------------------- MODULE IsaProofs ------------------------------
(***************************************************************************)
(* What the pipeline proofs need to know of the instruction set.           *)
(***************************************************************************)
EXTENDS Isa, TLAPS, WellFoundedInduction

\* The powers of two up to the width of a word.
LEMMA Powers ==
    /\ Pow2(0) = 1
    /\ \A n \in 0 .. 32 : Pow2(n) \in Nat \ {0}
    /\ \A n \in 0 .. 31 : Pow2(n + 1) = 2 * Pow2(n)
<1>1. /\ Pow2(0) = 1 /\ Pow2(1) = 2 /\ Pow2(2) = 4 /\ Pow2(3) = 8 /\ Pow2(4) = 16
      /\ Pow2(5) = 32 /\ Pow2(6) = 64 /\ Pow2(7) = 128 /\ Pow2(8) = 256 /\ Pow2(9) = 512
      /\ Pow2(10) = 1024 /\ Pow2(11) = 2048 /\ Pow2(12) = 4096 /\ Pow2(13) = 8192 /\ Pow2(14) = 16384
      /\ Pow2(15) = 32768 /\ Pow2(16) = 65536 /\ Pow2(17) = 131072 /\ Pow2(18) = 262144 /\ Pow2(19) = 524288
      /\ Pow2(20) = 1048576 /\ Pow2(21) = 2097152 /\ Pow2(22) = 4194304 /\ Pow2(23) = 8388608 /\ Pow2(24) = 16777216
      /\ Pow2(25) = 33554432 /\ Pow2(26) = 67108864 /\ Pow2(27) = 134217728 /\ Pow2(28) = 268435456 /\ Pow2(29) = 536870912
      /\ Pow2(30) = 1073741824 /\ Pow2(31) = 2147483648 /\ Pow2(32) = 4294967296
    BY DEF Pow2
<1>2. ASSUME NEW n \in 0 .. 32
      PROVE  n \in {0, 1, 2, 3, 4, 5, 6, 7, 8, 9, 10, 11, 12, 13, 14, 15, 16,
                   17, 18, 19, 20, 21, 22, 23, 24, 25, 26, 27, 28, 29, 30, 31, 32}
    OBVIOUS
<1>3. \A n \in 0 .. 32 : Pow2(n) \in Nat \ {0}
    BY <1>1, <1>2
<1>4. \A n \in 0 .. 31 : Pow2(n + 1) = 2 * Pow2(n)
    BY <1>1, <1>2
<1> QED BY <1>1, <1>3, <1>4

(***************************************************************************)
(* Every set of bit positions is the set of ones of a word, by induction   *)
(* on the width: the least width for which it fails is none.               *)
(***************************************************************************)
LEMMA NatMin ==
    ASSUME NEW T \in SUBSET Nat, T # {}
    PROVE  \E n \in T : \A m \in T : n <= m
<1>1. IsWellFoundedOn(OpToRel(<, Nat), Nat)
    BY NatLessThanWellFounded
<1>2. \E n \in T : \A m \in T : ~(<<m, n>> \in OpToRel(<, Nat))
    BY <1>1, WFMin
<1>3. \E n \in T : \A m \in T : ~(m < n)
    BY <1>2 DEF OpToRel
<1> QED BY <1>3

\* Adding a multiple of the divisor adds to the quotient.
LEMMA DivPlus ==
    ASSUME NEW a \in Nat, NEW k \in Nat, NEW p \in Nat \ {0}
    PROVE  (a + k * p) \div p = a \div p + k
OBVIOUS

\* A smaller power divides a larger one, with an even quotient.
LEMMA PowerDivides == \A n \in 0 .. 32 : \A i \in 0 .. n - 1 : \E k \in Nat : Pow2(n) = (2 * k) * Pow2(i)
<1> DEFINE P(n) == \A i \in 0 .. n - 1 : \E k \in Nat : Pow2(n) = (2 * k) * Pow2(i)
           T == {n \in 0 .. 32 : ~P(n)}
<1> SUFFICES ASSUME T # {} PROVE FALSE
    OBVIOUS
<1>0. T \in SUBSET Nat
    OBVIOUS
<1> HIDE DEF P, T
<1>1. PICK n \in T : \A m \in T : n <= m
    BY <1>0, NatMin
<1> USE DEF T
<1> USE DEF P
<1>2. n \in 1 .. 32 /\ P(n - 1)
    BY <1>1
<1>3. ASSUME NEW i \in 0 .. n - 1 PROVE \E k \in Nat : Pow2(n) = (2 * k) * Pow2(i)
    <2>1. Pow2(n) = 2 * Pow2(n - 1) /\ Pow2(n - 1) \in Nat
        <3>1. n - 1 \in 0 .. 31 /\ (n - 1) + 1 = n
            BY <1>2
        <3> QED BY <3>1, Powers
    <2>2. CASE i = n - 1
        <3>1. Pow2(n) = (2 * 1) * Pow2(i)
            BY <2>1, <2>2
        <3> QED BY <3>1
    <2>3. CASE i # n - 1
        <3>1. PICK k \in Nat : Pow2(n - 1) = (2 * k) * Pow2(i)
            BY <1>2, <2>3
        <3>2. i \in 0 .. 32
            BY <1>2
        <3>3. Pow2(i) \in Nat
            BY <3>2, Powers
        <3>4. 2 * k \in Nat /\ Pow2(n) = (2 * (2 * k)) * Pow2(i)
            BY <2>1, <3>1, <3>3
        <3> QED BY <3>4
    <2> QED BY <2>2, <2>3
<1> QED BY <1>1, <1>3

\* Every set of places below 32 is the set of bits of a number.
LEMMA NumberOfBits ==
    \A n \in 0 .. 32 : \A S \in SUBSET (0 .. n - 1) : \E a \in 0 .. Pow2(n) - 1 :
       \A i \in 0 .. n - 1 : (a \div Pow2(i)) % 2 = 1 <=> i \in S
<1> DEFINE P(n) == \A S \in SUBSET (0 .. n - 1) : \E a \in 0 .. Pow2(n) - 1 :
                      \A i \in 0 .. n - 1 : (a \div Pow2(i)) % 2 = 1 <=> i \in S
           T == {n \in 0 .. 32 : ~P(n)}
<1> SUFFICES ASSUME T # {} PROVE FALSE
    OBVIOUS
<1>0. T \in SUBSET Nat
    OBVIOUS
<1> HIDE DEF P, T
<1>1. PICK n \in T : \A m \in T : n <= m
    BY <1>0, NatMin
<1> USE DEF T
<1> USE DEF P
<1>2. P(0)
    <2>1. 0 \in 0 .. Pow2(0) - 1
        BY Powers
    <2> QED BY <2>1
<1>3. n \in 1 .. 32 /\ P(n - 1) /\ n - 1 \in 0 .. 31
    BY <1>1, <1>2
<1>4. ASSUME NEW S \in SUBSET (0 .. n - 1)
      PROVE  \E a \in 0 .. Pow2(n) - 1 : \A i \in 0 .. n - 1 : (a \div Pow2(i)) % 2 = 1 <=> i \in S
    <2> DEFINE p == Pow2(n - 1)
    <2>1. p \in Nat \ {0} /\ Pow2(n) = 2 * p
        <3>1. (n - 1) + 1 = n
            BY <1>3
        <3> QED BY <1>3, <3>1, Powers
    <2>2. S \ {n - 1} \in SUBSET (0 .. n - 2) /\ 0 .. (n - 1) - 1 = 0 .. n - 2
        BY <1>3
    <2>3. PICK b \in 0 .. p - 1 : \A i \in 0 .. n - 2 : (b \div Pow2(i)) % 2 = 1 <=> i \in S \ {n - 1}
        BY <1>3, <2>2
    <2> HIDE DEF p
    <2>4. b \in Nat /\ b < p /\ b \div p = 0 /\ (b + p) \div p = 1
        BY <2>1, <2>3
    <2>5. CASE n - 1 \notin S
        <3>1. b \in 0 .. Pow2(n) - 1
            BY <2>1, <2>4
        <3>2. \A i \in 0 .. n - 1 : (b \div Pow2(i)) % 2 = 1 <=> i \in S
            <4> TAKE i \in 0 .. n - 1
            <4>1. CASE i = n - 1
                BY <2>4, <2>5, <4>1 DEF p
            <4>2. CASE i # n - 1
                BY <1>3, <2>3, <2>5, <4>2
            <4> QED BY <4>1, <4>2
        <3> QED BY <3>1, <3>2
    <2>6. CASE n - 1 \in S
        <3>1. b + p \in 0 .. Pow2(n) - 1
            BY <2>1, <2>4
        <3>2. \A i \in 0 .. n - 1 : ((b + p) \div Pow2(i)) % 2 = 1 <=> i \in S
            <4> TAKE i \in 0 .. n - 1
            <4>1. CASE i = n - 1
                BY <2>4, <2>6, <4>1 DEF p
            <4>2. CASE i # n - 1
                <5>0. i \in 0 .. 32 /\ n - 1 \in 0 .. 32 /\ i \in 0 .. (n - 1) - 1 /\ i \in 0 .. n - 2
                    BY <1>3, <4>2
                <5>1. Pow2(i) \in Nat \ {0}
                    BY <5>0, Powers
                <5>2. PICK k \in Nat : p = (2 * k) * Pow2(i)
                    BY <5>0, PowerDivides DEF p
                <5>3. (b + (2 * k) * Pow2(i)) \div Pow2(i) = b \div Pow2(i) + 2 * k
                    <6>1. 2 * k \in Nat
                        OBVIOUS
                    <6> QED BY <2>4, <5>1, <6>1, DivPlus
                <5>4. b \div Pow2(i) \in Nat
                    BY <2>4, <5>1
                <5>5. (b \div Pow2(i) + 2 * k) % 2 = (b \div Pow2(i)) % 2
                    BY <5>4
                <5>6. ((b + p) \div Pow2(i)) % 2 = (b \div Pow2(i)) % 2
                    BY <5>2, <5>3, <5>5, Zenon
                <5> QED BY <2>3, <4>2, <5>0, <5>6
            <4> QED BY <4>1, <4>2
        <3> QED BY <3>1, <3>2
    <2> QED BY <2>5, <2>6
<1> QED BY <1>1, <1>3, <1>4

\* The bitwise operations of the ALU return words.
LEMMA BitsType ==
    \A a, b : {BitAnd(a, b), BitOr(a, b), BitXor(a, b), BitClear(a, b)} \subseteq Word
<1>1. ASSUME NEW S \in SUBSET (0 .. XLEN - 1) PROVE FromBits(S) \in Word
    <2>1. PICK a \in 0 .. Pow2(XLEN) - 1 : \A i \in 0 .. XLEN - 1 : (a \div Pow2(i)) % 2 = 1 <=> i \in S
        <3>1. XLEN \in 0 .. 32
            BY XLENAssumption
        <3> QED BY <3>1, NumberOfBits
    <2>2. a \in Word /\ Bits(a) = S
        BY <2>1 DEF Bits, Word
    <2> QED BY <2>2 DEF FromBits
<1>2. \A a : Bits(a) \in SUBSET (0 .. XLEN - 1)
    BY DEF Bits
<1> HIDE DEF Bits, FromBits
<1> QED BY <1>1, <1>2 DEF BitAnd, BitOr, BitXor, BitClear

(***************************************************************************)
(* Words and addresses.                                                    *)
(***************************************************************************)
LEMMA WordSize ==
    /\ Pow2(XLEN) \in Nat \ {0, 1} /\ Pow2(XLEN - 1) \in Nat \ {0} /\ Pow2(XLEN) = 2 * Pow2(XLEN - 1)
    /\ Pow2(XLEN) > 15
<1>1. XLEN - 1 \in 0 .. 31 /\ (XLEN - 1) + 1 = XLEN /\ XLEN - 1 \in 0 .. 32
    BY XLENAssumption
<1>2. Pow2(XLEN - 1) \in Nat \ {0} /\ Pow2(XLEN) = 2 * Pow2(XLEN - 1)
    BY <1>1, Powers
<1>3. Pow2(4) = 16 /\ Pow2(8) = 256 /\ Pow2(16) = 65536 /\ Pow2(32) = 4294967296
    BY DEF Pow2
<1>4. Pow2(XLEN) > 15
    BY <1>3, XLENAssumption
<1> QED BY <1>2, <1>4

\* An addition gives a word.
LEMMA PlusType == \A a, b \in Int : Plus(a, b) \in Word
BY WordSize DEF Plus, Word

\* The same, for operands that are words.
LEMMA PlusWord == \A a, b \in Word : Plus(a, b) \in Word
BY PlusType, WordSize DEF Word

\* Every word addresses a slot.
LEMMA SlotType == \A a \in Word : Slot(a) \in Slots
BY WordSize DEF Slot, Word, Slots

\* The small constants are words.
LEMMA SmallWords == \A n \in 0 .. 15 : n \in Word
BY WordSize DEF Word

\* So are 4 and 0.
LEMMA FourType == Four \in Word /\ 0 \in Word
BY WordSize DEF Word, Four

AluOps == {"Add", "Sub", "Sll", "Slt", "Sltu", "Xor", "Srl", "Sra", "Or", "And"}

\* Every operation of the ALU returns a word.
LEMMA ALUType ==
    ASSUME NEW alu_op \in AluOps, NEW a \in Word, NEW b \in Word
    PROVE  ALU(alu_op, a, b) \in Word
<1> DEFINE M == Pow2(XLEN)
           P == Pow2(b % XLEN)
<1>1. M \in Nat \ {0, 1} /\ a \in 0 .. M - 1 /\ b \in 0 .. M - 1
    BY WordSize DEF Word
<1>2. P \in Nat \ {0}
    <2>1. b % XLEN \in 0 .. 32
        BY <1>1, XLENAssumption
    <2> QED BY <2>1, Powers
<1>3. Signed(a) \in Int
    BY <1>1, WordSize DEF Signed
<1> HIDE DEF M, P
<1>4. \A x \in Int : x % M \in 0 .. M - 1
    BY <1>1
<1>5. (a - b) % M \in 0 .. M - 1 /\ (a * P) % M \in 0 .. M - 1
    BY <1>1, <1>2, <1>4
<1>6. a \div P \in 0 .. M - 1
    BY <1>1, <1>2
<1>7. (Signed(a) \div P) % M \in 0 .. M - 1
    <2>1. Signed(a) \div P \in Int
        BY <1>2, <1>3
    <2> QED BY <1>4, <2>1
<1>8. Plus(a, b) \in Word /\ 0 \in Word /\ 1 \in Word
    BY <1>1, PlusType, SmallWords
<1>9. \A x : x \in 0 .. M - 1 => x \in Word
    BY DEF M, Word
<1>10. \A x : Bool(x) \in {0, 1}
    BY DEF Bool
<1>11. CASE alu_op = "Add"
    BY <1>8, <1>11 DEF ALU
<1>12. CASE alu_op = "Sub"
    BY <1>5, <1>9, <1>12 DEF ALU, M
<1>13. CASE alu_op = "Sll"
    BY <1>5, <1>9, <1>13 DEF ALU, M, P
<1>14. CASE alu_op \in {"Slt", "Sltu"}
    BY <1>8, <1>10, <1>14 DEF ALU
<1>15. CASE alu_op \in {"Xor", "Or", "And"}
    BY <1>15, BitsType DEF ALU
<1>16. CASE alu_op = "Srl"
    BY <1>6, <1>9, <1>16 DEF ALU, P
<1>17. CASE alu_op = "Sra"
    BY <1>7, <1>9, <1>17 DEF ALU, M, P
<1> QED BY <1>11, <1>12, <1>13, <1>14, <1>15, <1>16, <1>17 DEF AluOps

(***************************************************************************)
(* The decode table, class by class.                                       *)
(***************************************************************************)
ImmOps == {"ADDI", "SLTI", "SLTIU", "XORI", "ORI", "ANDI", "SLLI", "SRLI", "SRAI"}
RegOps == {"ADD", "SUB", "SLL", "SLT", "SLTU", "XOR", "SRL", "SRA", "OR", "AND"}
BranchOps == {"BEQ", "BNE", "BLT", "BGE", "BLTU", "BGEU"}
CsrOps == {"CSRRW", "CSRRS", "CSRRC", "CSRRWI", "CSRRSI", "CSRRCI"}

\* The operations fall into the classes the decode table is built from.
LEMMA OpClasses ==
    /\ DOMAIN OpImm = ImmOps /\ DOMAIN OpReg = RegOps /\ DOMAIN OpBranch = BranchOps /\ DOMAIN OpCsr = CsrOps
    /\ Op = ImmOps \cup RegOps \cup BranchOps \cup CsrOps \cup OpOther
<1>1. DOMAIN OpImm = ImmOps
    BY DEF OpImm, ImmOps
<1>2. DOMAIN OpReg = RegOps
    BY DEF OpReg, RegOps
<1>3. DOMAIN OpBranch = BranchOps
    BY DEF OpBranch, BranchOps
<1>4. DOMAIN OpCsr = CsrOps
    BY DEF OpCsr, CsrOps
<1> QED BY <1>1, <1>2, <1>3, <1>4 DEF Op

\* A row of the table, field by field.
IsRow(d, fmt, op1, op2, we, alu, br, lsu, csr, exec) ==
    /\ d.fmt = fmt /\ d.op1 = op1 /\ d.op2 = op2 /\ d.we = we /\ d.alu = alu
    /\ d.br = br /\ d.lsu = lsu /\ d.csr = csr /\ d.exec = exec

RowOf(op, d) ==
    /\ op \in ImmOps => IsRow(d, "I", "Rs1", "Imm", TRUE, OpImm[op], "Nop", "Nop", "Nop", "ALU")
    /\ op \in RegOps => IsRow(d, "R", "Rs1", "Rs2", TRUE, OpReg[op], "Nop", "Nop", "Nop", "ALU")
    /\ op \in BranchOps => IsRow(d, "B", "Rs1", "Rs2", FALSE, OpBranch[op], op, "Nop", "Nop", "ALU")
    /\ op \in CsrOps => IsRow(d, "C", "CSR", (IF op \in OpCsrImm THEN "Imm" ELSE "Rs1"), TRUE, "Add", "Nop", "Nop", OpCsr[op], "CSR")
    /\ op = "LUI" => IsRow(d, "U", "Imm", "Zero", TRUE, "Add", "Nop", "Nop", "Nop", "ALU")
    /\ op = "AUIPC" => IsRow(d, "U", "PC", "Imm", TRUE, "Add", "Nop", "Nop", "Nop", "ALU")
    /\ op = "JAL" => IsRow(d, "J", "PC", "Four", TRUE, "Add", "JAL", "Nop", "Nop", "ALU")
    /\ op = "JALR" => IsRow(d, "I", "PC", "Four", TRUE, "Add", "JALR", "Nop", "Nop", "ALU")
    /\ op = "LW" => IsRow(d, "I", "Rs1", "Imm", TRUE, "Add", "Nop", "LW", "Nop", "LSU")
    /\ op = "SW" => IsRow(d, "S", "Rs1", "Imm", FALSE, "Add", "Nop", "SW", "Nop", "LSU")
    /\ op = "ECALL" => IsRow(d, "I", "Zero", "Zero", FALSE, "Add", "Nop", "Nop", "Nop", "ECall")
    /\ op = "EBREAK" => IsRow(d, "I", "Zero", "Zero", FALSE, "Add", "Nop", "Nop", "Nop", "EBreak")
    /\ op = "MRET" => IsRow(d, "I", "Zero", "Zero", FALSE, "Add", "Nop", "Nop", "Nop", "MRet")
    /\ op = "FENCE_I" => IsRow(d, "I", "Zero", "Zero", FALSE, "Add", "Nop", "Nop", "Nop", "FenceI")
    /\ op = "Illegal" => IsRow(d, "E", "Zero", "Zero", TRUE, "Add", "Nop", "Nop", "Nop", "ALU")

\* Every row of the decode table has the form of its class.
LEMMA TableRows ==
    ASSUME NEW op \in Op
    PROVE  RowOf(op, InstDecodeTable[op])
<1> DEFINE d == InstDecodeTable[op]
<1> SUFFICES RowOf(op, d)
    OBVIOUS
<1>1. d = Decode(op)
    BY DEF InstDecodeTable
<1> HIDE DEF d
<1>2. CASE op \in ImmOps
    <2>1. d = Row("I", "Rs1", "Imm", TRUE, OpImm[op], "Nop", "Nop", "Nop", "ALU")
        BY <1>1, <1>2, OpClasses DEF Decode, ImmOps, RegOps, BranchOps, CsrOps
    <2> QED BY <1>2, <2>1 DEF Row, RowOf, IsRow, ImmOps, RegOps, BranchOps, CsrOps
<1>3. CASE op \in RegOps
    <2>1. d = Row("R", "Rs1", "Rs2", TRUE, OpReg[op], "Nop", "Nop", "Nop", "ALU")
        BY <1>1, <1>3, OpClasses DEF Decode, ImmOps, RegOps, BranchOps, CsrOps
    <2> QED BY <1>3, <2>1 DEF Row, RowOf, IsRow, ImmOps, RegOps, BranchOps, CsrOps
<1>4. CASE op \in BranchOps
    <2>1. d = Row("B", "Rs1", "Rs2", FALSE, OpBranch[op], op, "Nop", "Nop", "ALU")
        BY <1>1, <1>4, OpClasses DEF Decode, ImmOps, RegOps, BranchOps, CsrOps
    <2> QED BY <1>4, <2>1 DEF Row, RowOf, IsRow, ImmOps, RegOps, BranchOps, CsrOps
<1>5. CASE op \in CsrOps
    <2>1. d = Row("C", "CSR", IF op \in OpCsrImm THEN "Imm" ELSE "Rs1", TRUE, "Add", "Nop", "Nop", OpCsr[op], "CSR")
        BY <1>1, <1>5, OpClasses DEF Decode, ImmOps, RegOps, BranchOps, CsrOps
    <2> QED BY <1>5, <2>1 DEF Row, RowOf, IsRow, ImmOps, RegOps, BranchOps, CsrOps
<1>6. CASE op = "LUI"
    <2>1. d = Row("U", "Imm", "Zero", TRUE, "Add", "Nop", "Nop", "Nop", "ALU")
        BY <1>1, <1>6, OpClasses DEF Decode, ImmOps, RegOps, BranchOps, CsrOps
    <2> QED BY <1>6, <2>1 DEF Row, RowOf, IsRow, ImmOps, RegOps, BranchOps, CsrOps
<1>7. CASE op = "AUIPC"
    <2>1. d = Row("U", "PC", "Imm", TRUE, "Add", "Nop", "Nop", "Nop", "ALU")
        BY <1>1, <1>7, OpClasses DEF Decode, ImmOps, RegOps, BranchOps, CsrOps
    <2> QED BY <1>7, <2>1 DEF Row, RowOf, IsRow, ImmOps, RegOps, BranchOps, CsrOps
<1>8. CASE op = "JAL"
    <2>1. d = Row("J", "PC", "Four", TRUE, "Add", "JAL", "Nop", "Nop", "ALU")
        BY <1>1, <1>8, OpClasses DEF Decode, ImmOps, RegOps, BranchOps, CsrOps
    <2> QED BY <1>8, <2>1 DEF Row, RowOf, IsRow, ImmOps, RegOps, BranchOps, CsrOps
<1>9. CASE op = "JALR"
    <2>1. d = Row("I", "PC", "Four", TRUE, "Add", "JALR", "Nop", "Nop", "ALU")
        BY <1>1, <1>9, OpClasses DEF Decode, ImmOps, RegOps, BranchOps, CsrOps
    <2> QED BY <1>9, <2>1 DEF Row, RowOf, IsRow, ImmOps, RegOps, BranchOps, CsrOps
<1>10. CASE op = "LW"
    <2>1. d = Row("I", "Rs1", "Imm", TRUE, "Add", "Nop", "LW", "Nop", "LSU")
        BY <1>1, <1>10, OpClasses DEF Decode, ImmOps, RegOps, BranchOps, CsrOps
    <2> QED BY <1>10, <2>1 DEF Row, RowOf, IsRow, ImmOps, RegOps, BranchOps, CsrOps
<1>11. CASE op = "SW"
    <2>1. d = Row("S", "Rs1", "Imm", FALSE, "Add", "Nop", "SW", "Nop", "LSU")
        BY <1>1, <1>11, OpClasses DEF Decode, ImmOps, RegOps, BranchOps, CsrOps
    <2> QED BY <1>11, <2>1 DEF Row, RowOf, IsRow, ImmOps, RegOps, BranchOps, CsrOps
<1>12. CASE op = "ECALL"
    <2>1. d = Row("I", "Zero", "Zero", FALSE, "Add", "Nop", "Nop", "Nop", "ECall")
        BY <1>1, <1>12, OpClasses DEF Decode, ImmOps, RegOps, BranchOps, CsrOps
    <2> QED BY <1>12, <2>1 DEF Row, RowOf, IsRow, ImmOps, RegOps, BranchOps, CsrOps
<1>13. CASE op = "EBREAK"
    <2>1. d = Row("I", "Zero", "Zero", FALSE, "Add", "Nop", "Nop", "Nop", "EBreak")
        BY <1>1, <1>13, OpClasses DEF Decode, ImmOps, RegOps, BranchOps, CsrOps
    <2> QED BY <1>13, <2>1 DEF Row, RowOf, IsRow, ImmOps, RegOps, BranchOps, CsrOps
<1>14. CASE op = "MRET"
    <2>1. d = Row("I", "Zero", "Zero", FALSE, "Add", "Nop", "Nop", "Nop", "MRet")
        BY <1>1, <1>14, OpClasses DEF Decode, ImmOps, RegOps, BranchOps, CsrOps
    <2> QED BY <1>14, <2>1 DEF Row, RowOf, IsRow, ImmOps, RegOps, BranchOps, CsrOps
<1>15. CASE op = "FENCE_I"
    <2>1. d = Row("I", "Zero", "Zero", FALSE, "Add", "Nop", "Nop", "Nop", "FenceI")
        BY <1>1, <1>15, OpClasses DEF Decode, ImmOps, RegOps, BranchOps, CsrOps
    <2> QED BY <1>15, <2>1 DEF Row, RowOf, IsRow, ImmOps, RegOps, BranchOps, CsrOps
<1>16. CASE op = "Illegal"
    <2>1. d = Row("E", "Zero", "Zero", TRUE, "Add", "Nop", "Nop", "Nop", "ALU")
        BY <1>1, <1>16, OpClasses DEF Decode, ImmOps, RegOps, BranchOps, CsrOps
    <2> QED BY <1>16, <2>1 DEF Row, RowOf, IsRow, ImmOps, RegOps, BranchOps, CsrOps
<1> QED BY <1>2, <1>3, <1>4, <1>5, <1>6, <1>7, <1>8, <1>9, <1>10, <1>11, <1>12, <1>13, <1>14, <1>15, <1>16, OpClasses DEF OpOther, RowOf

\* The rows hold control signals of their enumerations.
LEMMA RowType ==
    ASSUME NEW op \in Op, NEW d, RowOf(op, d)
    PROVE  /\ d.alu \in AluOps
           /\ d.op1 \in {"Rs1", "Imm", "PC", "Zero", "CSR"}
           /\ d.op2 \in {"Rs1", "Rs2", "Imm", "Four", "Zero"}
           /\ d.lsu \in {"Nop", "LW", "SW"}
           /\ d.csr \in {"Nop", "RW", "RS", "RC"}
<1>1. op \in ImmOps => OpImm[op] \in AluOps
    BY DEF OpImm, ImmOps, AluOps
<1>2. op \in RegOps => OpReg[op] \in AluOps
    BY DEF OpReg, RegOps, AluOps
<1>3. op \in BranchOps => OpBranch[op] \in AluOps
    BY DEF OpBranch, BranchOps, AluOps
<1>4. op \in CsrOps => OpCsr[op] \in {"RW", "RS", "RC"}
    BY DEF OpCsr, CsrOps
<1>5. CASE op \in ImmOps
    BY <1>1, <1>5 DEF RowOf, IsRow
<1>6. CASE op \in RegOps
    BY <1>2, <1>6 DEF RowOf, IsRow
<1>7. CASE op \in BranchOps
    BY <1>3, <1>7 DEF RowOf, IsRow
<1>8. CASE op \in CsrOps
    BY <1>4, <1>8 DEF RowOf, IsRow, AluOps
<1>9. CASE op \in OpOther
    BY <1>9 DEF RowOf, IsRow, AluOps, OpOther
<1> QED BY <1>5, <1>6, <1>7, <1>8, <1>9, OpClasses

(***************************************************************************)
(* What EXU computes through the decode table is what NEMU computes, when  *)
(* the source registers it reads hold the sequential machine's values.     *)
(***************************************************************************)
ReadsRs1(d) == d.fmt \in {"R", "I", "S", "B"} \/ (d.fmt = "C" /\ d.op2 = "Rs1")
ReadsRs2(d) == d.fmt \in {"R", "S", "B"}

Operand(type, x1, x2, imm, pc, csr) ==
    CASE type = "Rs1"  -> x1
      [] type = "Rs2"  -> x2
      [] type = "Imm"  -> imm
      [] type = "Zero" -> 0
      [] type = "Four" -> Four
      [] type = "PC"   -> pc
      [] type = "CSR"  -> csr

\* Adding 0 changes nothing: LUI and the CSR instructions pass through the adder.
LEMMA PlusZero == \A a \in Word : Plus(a, 0) = a
BY WordSize DEF Plus, Word

\* The ALU, fed by the decode table, computes the value the reference writes to rd.
LEMMA ValueAgrees ==
    ASSUME NEW in \in Inst, NEW d, RowOf(in.op, d), d.we, in.op \notin CsrOps \cup {"LW", "Illegal"},
           NEW x1, NEW x2, NEW src1, NEW src2, NEW pc, NEW loaded, NEW csr,
           ReadsRs1(d) => x1 = src1, ReadsRs2(d) => x2 = src2
    PROVE  ALU(d.alu, Operand(d.op1, x1, x2, in.imm, pc, csr), Operand(d.op2, x1, x2, in.imm, pc, csr))
             = NemuValue(in, src1, src2, pc, loaded, csr)
<1>0. in.op \in Op /\ in.imm \in Word
    BY DEF Inst
<1>1. CASE in.op \in ImmOps
    <2>1. /\ d.alu = OpImm[in.op] /\ Operand(d.op1, x1, x2, in.imm, pc, csr) = src1
          /\ Operand(d.op2, x1, x2, in.imm, pc, csr) = in.imm
        BY <1>1 DEF RowOf, IsRow, ReadsRs1, Operand
    <2>2. in.op \in DOMAIN OpImm
        BY <1>1, OpClasses
    <2>3. ALU(OpImm[in.op], src1, in.imm) = NemuValue(in, src1, src2, pc, loaded, csr)
        BY <1>1, <2>2, OpClasses DEF OpImm, ALU, NemuValue, ImmOps, CsrOps
    <2> QED BY <2>1, <2>3
<1>2. CASE in.op \in RegOps
    <2>1. /\ d.alu = OpReg[in.op] /\ Operand(d.op1, x1, x2, in.imm, pc, csr) = src1
          /\ Operand(d.op2, x1, x2, in.imm, pc, csr) = src2
        BY <1>2 DEF RowOf, IsRow, ReadsRs1, ReadsRs2, Operand
    <2>2. in.op \notin DOMAIN OpImm
        BY <1>2, OpClasses DEF ImmOps, RegOps
    <2>3. ALU(OpReg[in.op], src1, src2) = NemuValue(in, src1, src2, pc, loaded, csr)
        BY <1>2, <2>2, OpClasses DEF OpReg, ALU, NemuValue, RegOps, CsrOps
    <2> QED BY <2>1, <2>3
<1>3. CASE in.op = "LUI"
    <2>1. ALU(d.alu, Operand(d.op1, x1, x2, in.imm, pc, csr), Operand(d.op2, x1, x2, in.imm, pc, csr)) = Plus(in.imm, 0)
        BY <1>3 DEF RowOf, IsRow, Operand, ALU
    <2>2. NemuValue(in, src1, src2, pc, loaded, csr) = in.imm
        BY <1>3, OpClasses DEF NemuValue, ImmOps, CsrOps
    <2> QED BY <1>0, <2>1, <2>2, PlusZero
<1>4. CASE in.op \in {"AUIPC", "JAL", "JALR"}
    <2>1. CASE in.op = "AUIPC"
        <3>1. NemuValue(in, src1, src2, pc, loaded, csr) = Plus(pc, in.imm)
            BY <2>1, OpClasses DEF NemuValue, ImmOps, CsrOps
        <3> QED BY <2>1, <3>1 DEF RowOf, IsRow, Operand, ALU
    <2>2. CASE in.op \in {"JAL", "JALR"}
        <3>1. NemuValue(in, src1, src2, pc, loaded, csr) = Plus(pc, Four)
            BY <2>2, OpClasses DEF NemuValue, ImmOps, CsrOps
        <3> QED BY <2>2, <3>1 DEF RowOf, IsRow, Operand, ALU
    <2> QED BY <1>4, <2>1, <2>2
<1>5. CASE in.op \in BranchOps
    BY <1>5 DEF RowOf, IsRow
<1>6. CASE in.op \in {"SW", "ECALL", "EBREAK", "MRET", "FENCE_I"}
    BY <1>6 DEF RowOf, IsRow
<1> QED BY <1>0, <1>1, <1>2, <1>3, <1>4, <1>5, <1>6, OpClasses DEF OpOther

\* The comparison of the ALU decides a branch as NEMU does.
AluTaken(op, alu) ==
    CASE op = "BEQ"              -> alu = 0
      [] op = "BNE"              -> alu # 0
      [] op \in {"BLT", "BLTU"}  -> alu % 2 = 1
      [] op \in {"BGE", "BGEU"}  -> alu % 2 = 0

\* The ALU and the reference take the same branches.
LEMMA BranchAgrees ==
    ASSUME NEW op \in BranchOps, NEW src1 \in Word, NEW src2 \in Word
    PROVE  AluTaken(op, ALU(OpBranch[op], src1, src2)) <=> NemuTaken(op, src1, src2)
<1> DEFINE M == Pow2(XLEN)
<1>1. M \in Nat \ {0} /\ src1 \in 0 .. M - 1 /\ src2 \in 0 .. M - 1
    BY WordSize DEF Word
<1>2. Signed(src1) \in Int /\ Signed(src2) \in Int
    BY <1>1, WordSize DEF Signed
<1> HIDE DEF M
<1>3. (src1 - src2) % M = 0 <=> src1 = src2
    BY <1>1
<1>4. Bool(TRUE) = 1 /\ Bool(FALSE) = 0 /\ 1 % 2 = 1 /\ 0 % 2 = 0
    BY DEF Bool
<1>5. CASE op = "BEQ"
    <2>1. ALU(OpBranch[op], src1, src2) = (src1 - src2) % M
        BY <1>5 DEF ALU, OpBranch, M
    <2> QED BY <1>3, <1>5, <2>1 DEF AluTaken, NemuTaken
<1>6. CASE op = "BNE"
    <2>1. ALU(OpBranch[op], src1, src2) = (src1 - src2) % M
        BY <1>6 DEF ALU, OpBranch, M
    <2> QED BY <1>3, <1>6, <2>1 DEF AluTaken, NemuTaken
<1>7. CASE op = "BLT"
    <2>1. ALU(OpBranch[op], src1, src2) = Bool(Signed(src1) < Signed(src2))
        BY <1>7 DEF ALU, OpBranch
    <2> QED BY <1>2, <1>4, <1>7, <2>1 DEF AluTaken, NemuTaken, Bool
<1>8. CASE op = "BGE"
    <2>1. ALU(OpBranch[op], src1, src2) = Bool(Signed(src1) < Signed(src2))
        BY <1>8 DEF ALU, OpBranch
    <2> QED BY <1>2, <1>4, <1>8, <2>1 DEF AluTaken, NemuTaken, Bool
<1>9. CASE op = "BLTU"
    <2>1. ALU(OpBranch[op], src1, src2) = Bool(src1 < src2)
        BY <1>9 DEF ALU, OpBranch
    <2> QED BY <1>1, <1>4, <1>9, <2>1 DEF AluTaken, NemuTaken, Bool
<1>10. CASE op = "BGEU"
    <2>1. ALU(OpBranch[op], src1, src2) = Bool(src1 < src2)
        BY <1>10 DEF ALU, OpBranch
    <2> QED BY <1>1, <1>4, <1>10, <2>1 DEF AluTaken, NemuTaken, Bool
<1> QED BY <1>5, <1>6, <1>7, <1>8, <1>9, <1>10 DEF BranchOps

-----------------------------------------------------------------------------
(***************************************************************************)
(* The sequential machine: the instruction state s is about to execute,    *)
(* the exception it meets, and what it computes.                           *)
(***************************************************************************)
IsState(s) == /\ s.pc \in Word /\ s.regs \in [Regs -> Word]
              /\ s.csrs \in [CSRs -> Word] /\ s.mem \in [Slots -> Word]

CurWord(s) == s.mem[Slot(s.pc)]
Cur(s) == InstOf[CurWord(s)]
CurRow(s) == InstDecodeTable[Cur(s).op]
SeqExcp(s) == SequentialExcp(s, CurWord(s))
Src1(s) == s.regs[Cur(s).rs1]
Src2(s) == s.regs[Cur(s).rs2]
Addr(s) == Plus(Src1(s), Cur(s).imm)
Value(s) == NemuValue(Cur(s), Src1(s), Src2(s), s.pc, s.mem[Slot(Addr(s))], s.csrs[Cur(s).csr])
CsrValue(s) == NemuCsr(Cur(s).op, s.csrs[Cur(s).csr], IF Cur(s).op \in OpCsrImm THEN Cur(s).imm ELSE Src1(s))
Dnpc(s) == NemuDnpc(Cur(s), Src1(s), Src2(s), s.pc, s.csrs["mepc"])

\* In a state of the sequential machine all operands have their types.
LEMMA StateFields ==
    ASSUME NEW s, IsState(s)
    PROVE  /\ Slot(s.pc) \in Slots /\ CurWord(s) \in Word /\ Cur(s) \in Inst
           /\ Cur(s).op \in Op /\ Cur(s).imm \in Word /\ Cur(s).csr \in CSRs
           /\ Cur(s).rd \in Regs /\ Cur(s).rs1 \in Regs /\ Cur(s).rs2 \in Regs
           /\ RowOf(Cur(s).op, CurRow(s))
           /\ Src1(s) \in Word /\ Src2(s) \in Word /\ Addr(s) \in Word /\ Slot(Addr(s)) \in Slots
           /\ s.mem[Slot(Addr(s))] \in Word /\ s.csrs[Cur(s).csr] \in Word
           /\ s.csrs["mepc"] \in Word /\ s.csrs["mtvec"] \in Word
<1>1. /\ s.pc \in Word /\ s.regs \in [Regs -> Word] /\ s.csrs \in [CSRs -> Word] /\ s.mem \in [Slots -> Word]
  BY DEF IsState
<1>2. Slot(s.pc) \in Slots /\ CurWord(s) \in Word
  BY <1>1, SlotType DEF CurWord
<1>3. Cur(s) \in Inst
  BY <1>2, InstOfAssumption DEF Cur
<1>4. /\ Cur(s).op \in Op /\ Cur(s).imm \in Word /\ Cur(s).csr \in CSRs
      /\ Cur(s).rd \in Regs /\ Cur(s).rs1 \in Regs /\ Cur(s).rs2 \in Regs
  BY <1>3 DEF Inst
<1>5. RowOf(Cur(s).op, CurRow(s))
  BY <1>4, TableRows DEF CurRow
<1>6. Src1(s) \in Word /\ Src2(s) \in Word
  BY <1>1, <1>4 DEF Src1, Src2
<1>7. Addr(s) \in Word
  BY <1>4, <1>6, PlusWord DEF Addr
<1>8. Slot(Addr(s)) \in Slots
  BY <1>7, SlotType
<1>9. s.mem[Slot(Addr(s))] \in Word /\ s.csrs[Cur(s).csr] \in Word
  BY <1>1, <1>4, <1>8
<1>10. s.csrs["mepc"] \in Word /\ s.csrs["mtvec"] \in Word
  BY <1>1 DEF CSRs
<1> QED
  BY <1>1, <1>2, <1>3, <1>4, <1>5, <1>6, <1>7, <1>8, <1>9, <1>10

\* So have its results.
LEMMA ValueTypes ==
    ASSUME NEW s, IsState(s)
    PROVE  /\ WritesRd(Cur(s)) => Value(s) \in Word
           /\ Cur(s).op \in CsrOps => CsrValue(s) \in Word
           /\ Dnpc(s) \in Word
<1> DEFINE in == Cur(s)
           d == CurRow(s)
<1>1. /\ in \in Inst /\ in.op \in Op /\ RowOf(in.op, d) /\ in.imm \in Word /\ s.pc \in Word
      /\ Src1(s) \in Word /\ Src2(s) \in Word /\ s.mem[Slot(Addr(s))] \in Word /\ s.csrs[in.csr] \in Word
      /\ s.csrs["mepc"] \in Word
  BY StateFields DEF IsState
<1> HIDE DEF in, d
<1>2. ASSUME WritesRd(in) PROVE Value(s) \in Word
  <2>1. in.op \in ImmOps \cup RegOps \cup CsrOps \cup {"LUI", "AUIPC", "JAL", "JALR", "LW"}
    BY <1>2, OpClasses DEF WritesRd
  <2>2. CASE in.op \in CsrOps
    <3>1. Value(s) = s.csrs[in.csr]
      BY <2>2, OpClasses DEF Value, NemuValue, in, CsrOps, ImmOps
    <3> QED
      BY <1>1, <3>1
  <2>3. CASE in.op = "LW"
    <3>1. Value(s) = s.mem[Slot(Addr(s))]
      BY <2>3, OpClasses DEF Value, NemuValue, in, CsrOps, ImmOps
    <3> QED
      BY <1>1, <3>1
  <2>4. CASE in.op \notin CsrOps \cup {"LW"}
    <3> DEFINE a == Operand(d.op1, Src1(s), Src2(s), in.imm, s.pc, s.csrs[in.csr])
               b == Operand(d.op2, Src1(s), Src2(s), in.imm, s.pc, s.csrs[in.csr])
    <3>1. d.alu \in AluOps /\ d.we
      BY <1>1, <2>1, <2>4, RowType DEF RowOf, IsRow
    <3>2. a \in Word /\ b \in Word
      BY <1>1, RowType, FourType DEF Operand
    <3>3. in.op \notin CsrOps \cup {"LW", "Illegal"}
      BY <2>1, <2>4 DEF ImmOps, RegOps, CsrOps
    <3>4. ALU(d.alu, a, b) = Value(s)
      BY <1>1, <3>1, <3>3, ValueAgrees DEF Value, in
    <3> QED
      BY <3>1, <3>2, <3>4, ALUType
  <2> QED
    BY <2>2, <2>3, <2>4
<1>3. ASSUME in.op \in CsrOps PROVE CsrValue(s) \in Word
  <2> DEFINE src == IF in.op \in OpCsrImm THEN in.imm ELSE Src1(s)
  <2>1. src \in Word
    BY <1>1
  <2>2. CsrValue(s) = NemuCsr(in.op, s.csrs[in.csr], src)
    BY DEF CsrValue, in
  <2> HIDE DEF src
  <2>3. BitOr(s.csrs[in.csr], src) \in Word /\ BitClear(s.csrs[in.csr], src) \in Word
    BY BitsType
  <2> QED
    BY <1>3, <2>1, <2>2, <2>3 DEF NemuCsr, CsrOps
<1>4. Dnpc(s) \in Word
  <2>1. \A a, b \in Word : Plus(a, b) \in Word
    BY PlusWord
  <2> QED
    BY <1>1, <2>1, FourType DEF Dnpc, NemuDnpc, in
<1> QED
  BY <1>2, <1>3, <1>4 DEF in
=============================================================================
