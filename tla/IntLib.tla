------------------------------ MODULE IntLib ------------------------------
(***************************************************************************)
(* Integer arithmetic the RV32E core has no instruction for: the M         *)
(* extension of NEMU, and the double-word routines of libgcc linked into   *)
(* every program of the npc and ysyxsoc ports (multi3.c, ashldi3.c; both   *)
(* ports carry the same files) and of klib (int64.c).  Registers have      *)
(* XBITS bits, the two halves of a double word HBITS bits each; unsigned   *)
(* words are numbers modulo 2^bits and every operation wraps.  The         *)
(* routines on single words, div.S and muldi3.S, are in Libgcc.            *)
(***************************************************************************)
LOCAL INSTANCE Integers
LOCAL INSTANCE Sequences
LOCAL INSTANCE Bitwise
LOCAL INSTANCE SequencesExt
LOCAL INSTANCE FiniteSetsExt

CONSTANTS XBITS,   \* bits of a register (32 in the code)
          HBITS    \* bits of half a double word (32 in the code); a power of 2
ASSUME WidthAssumption == XBITS \in Nat \ {0, 1} /\ \E k \in 2 .. 5 : HBITS = 2^k

XWords == 0 .. 2^XBITS - 1
DWords == 0 .. 2^(2 * HBITS) - 1
Wrap(n, bits) == n % 2^bits
Signed(n, bits) == IF n >= 2^(bits - 1) THEN n - 2^bits ELSE n
Shl(n, k, bits) == Wrap(n * 2^k, bits)
Shr(n, k) == n \div 2^k

(***************************************************************************)
(* NEMU's M extension (inst.c), on registers.                              *)
(***************************************************************************)
SWORD_MIN == 2^(XBITS - 1)
Overflows(src1, src2) == src1 = SWORD_MIN /\ Signed(src2, XBITS) = -1
SignedQuotient(src1, src2) ==
    LET a == Signed(src1, XBITS)  b == Signed(src2, XBITS)
        q == (IF a < 0 THEN -a ELSE a) \div (IF b < 0 THEN -b ELSE b)
    IN  IF (a < 0) = (b < 0) THEN q ELSE -q
riscv_div(src1, src2) ==
    CASE src2 = 0 -> Wrap(-1, XBITS)
      [] src2 # 0 /\ Overflows(src1, src2) -> src1
      [] OTHER -> Wrap(SignedQuotient(src1, src2), XBITS)
riscv_divu(src1, src2) == IF src2 = 0 THEN Wrap(-1, XBITS) ELSE src1 \div src2
riscv_rem(src1, src2) ==
    CASE src2 = 0 -> src1
      [] src2 # 0 /\ Overflows(src1, src2) -> 0
      [] OTHER -> Wrap(Signed(src1, XBITS) - Signed(src2, XBITS) * SignedQuotient(src1, src2), XBITS)
riscv_remu(src1, src2) == IF src2 = 0 THEN src1 ELSE src1 % src2
mulhsu(src1, src2) == Shr(Wrap(Wrap(Signed(src1, XBITS), 2 * XBITS) * src2, 2 * XBITS), XBITS)
mulh(src1, src2) == Wrap(Shr(Signed(src1, XBITS) * Signed(src2, XBITS), XBITS), XBITS)
mulhu(src1, src2) == Shr(src1 * src2, XBITS)

(***************************************************************************)
(* multi3.c and ashldi3.c, on double words.                                *)
(***************************************************************************)
Low(n) == Wrap(n, HBITS)
High(n) == Shr(n, HBITS)
Double(h, l) == h * 2^HBITS + l
RECURSIVE UMulLoop(_, _, _, _, _)
UMulLoop(u_low, v_low, w_low, w_high, w_high_tmp) ==
    LET new_w_low == Low(w_low + u_low)
        tmp2x == Low(2 * w_high_tmp)
        tmp   == Low(w_high_tmp + w_high)
        odd   == v_low % 2 = 1
        low   == IF odd THEN new_w_low ELSE w_low
        high  == IF odd THEN Low((IF new_w_low < w_low THEN 1 ELSE 0) + tmp) ELSE w_high
    IN  IF Shr(v_low, 1) = 0 THEN <<high, low>>
        ELSE UMulLoop(Low(2 * u_low), Shr(v_low, 1), low, high, Shr(u_low, HBITS - 1) | tmp2x)
\* The products of the halves are __mulsi3's (Libgcc).
__muldi3(u, v) ==
    LET w  == UMulLoop(Low(u), Low(v), 0, 0, 0)
        h1 == IF High(u) # 0 THEN Low(w[1] + Wrap(Low(v) * High(u), HBITS)) ELSE w[1]
        h2 == IF High(v) # 0 THEN Low(h1 + Wrap(Low(u) * High(v), HBITS)) ELSE h1
    IN  Double(h2, w[2])
ysyxsoc_muldi3(u, v) == __muldi3(u, v)
__ashldi3(u, b) ==
    LET bm == HBITS - b IN
    CASE b = 0 -> u
      [] b # 0 /\ bm <= 0 -> Double(Shl(Low(u), -bm, HBITS), 0)
      [] OTHER -> Double(Shl(High(u), b, HBITS) | Shr(Low(u), bm), Shl(Low(u), b, HBITS))
ysyxsoc_ashldi3(u, b) == __ashldi3(u, b)

(***************************************************************************)
(* int64.c.  Counting zeros halves the window: 16, 8, 4, 2 of 32 bits.     *)
(***************************************************************************)
Windows(bits) == [k \in 1 .. (CHOOSE n \in 1 .. 5 : 2^n = bits) - 1 |-> bits \div 2^k]
__clzsi2(a, bits) ==
    LET step(s, h) == LET t == IF Shr(s.x, h) = 0 THEN h ELSE 0
                      IN  [x |-> Shr(s.x, h - t), r |-> s.r + t]
        s == FoldLeft(step, [x |-> a, r |-> 0], Windows(bits))
    IN  s.r + IF s.x < 2 THEN 2 - s.x ELSE 0
__ctzsi2(a, bits) ==
    LET step(s, h) == LET t == IF s.x % 2^h = 0 THEN h ELSE 0
                      IN  [x |-> Shr(s.x, t), r |-> s.r + t]
        s == FoldLeft(step, [x |-> a, r |-> 0], Windows(bits))
        x == s.x % 4
    IN  s.r + IF x % 2 = 0 THEN 2 - x \div 2 ELSE 0
__clzdi2(a) == IF High(a) = 0 THEN __clzsi2(Low(a), HBITS) + HBITS ELSE __clzsi2(High(a), HBITS)
__ctzdi2(a) == IF Low(a) = 0 THEN __ctzsi2(High(a), HBITS) + HBITS ELSE __ctzsi2(Low(a), HBITS)

clz(a) == __clzsi2(a, HBITS)
ctz(a) == __ctzsi2(a, HBITS)
PowerOf2(n) == n & (n - 1) = 0
QR(q, r) == [q |-> q, r |-> r]

\* The restoring loop of __udivmoddi4: one quotient bit per turn.
RECURSIVE DivLoop(_, _, _, _, _)
DivLoop(sr, q, r, d, carry) ==
    IF sr = 0 THEN QR(Wrap(2 * q, 2 * HBITS) | carry, r)
    ELSE LET r1 == Wrap(2 * r, 2 * HBITS) | Shr(q, 2 * HBITS - 1)
             q1 == Wrap(2 * q, 2 * HBITS) | carry
             s  == Signed(Wrap(d - r1 - 1, 2 * HBITS), 2 * HBITS) < 0
         IN  DivLoop(sr - 1, q1, IF s THEN Wrap(r1 - d, 2 * HBITS) ELSE r1, d, IF s THEN 1 ELSE 0)
\* n split at bit sr: the low part at the top of q, the rest in r, as the
\* three shapes of the code do half by half.
Split(n, d, sr) ==
    LET nh == High(n)  nl == Low(n)
        q == CASE sr = HBITS -> Double(nl, 0)
               [] sr < HBITS -> Double(Shl(nl, HBITS - sr, HBITS), 0)
               [] OTHER -> Double(Shl(nh, 2 * HBITS - sr, HBITS) | Shr(nl, sr - HBITS),
                                  Shl(nl, 2 * HBITS - sr, HBITS))
        r == CASE sr = HBITS -> nh
               [] sr < HBITS -> Double(Shr(nh, sr), Shl(nh, HBITS - sr, HBITS) | Shr(nl, sr))
               [] OTHER -> Shr(nh, sr - HBITS)
    IN  DivLoop(sr, q, r, d, 0)
\* unsigned sr: a negative difference of the two counts is "large".
Shift(x, n) == Wrap(clz(x) - clz(High(n)), HBITS)
DivByHigh(n, d) ==
    LET nh == High(n)  nl == Low(n)  dh == High(d) IN
    CASE nl = 0 -> QR(nh \div dh, Double(nh % dh, 0))
      [] nl # 0 /\ PowerOf2(dh) -> QR(Shr(nh, ctz(dh)), Double(nh & (dh - 1), nl))
      [] OTHER -> IF Shift(dh, n) > HBITS - 2 THEN QR(0, n) ELSE Split(n, d, Shift(dh, n) + 1)
DivByLow(n, d) ==
    LET nh == High(n)  nl == Low(n)  dl == Low(d) IN
    CASE dl = 1 -> QR(n, 0)
      [] dl # 1 /\ PowerOf2(dl) ->
            LET sr == ctz(dl)
            IN  QR(Double(Shr(nh, sr), Shl(nh, HBITS - sr, HBITS) | Shr(nl, sr)), nl & (dl - 1))
      [] OTHER -> Split(n, d, 1 + HBITS + clz(dl) - clz(nh))
__udivmoddi4(a, b) ==
    CASE High(a) = 0 -> IF High(b) = 0 THEN QR(Low(a) \div Low(b), Low(a) % Low(b)) ELSE QR(0, Low(a))
      [] High(a) # 0 /\ Low(b) = 0 -> DivByHigh(a, b)
      [] High(a) # 0 /\ Low(b) # 0 /\ High(b) = 0 -> DivByLow(a, b)
      [] OTHER -> IF Shift(High(b), a) > HBITS - 1 THEN QR(0, a) ELSE Split(a, b, Shift(High(b), a) + 1)

DNeg(a) == Signed(a, 2 * HBITS) < 0
Negate(a, neg) == IF neg THEN Wrap(-a, 2 * HBITS) ELSE a
__divdi3(a, b) ==
    Negate(__udivmoddi4(Negate(a, DNeg(a)), Negate(b, DNeg(b))).q, DNeg(a) # DNeg(b))
__divmoddi4(a, b) ==
    LET d == __divdi3(a, b) IN QR(d, Wrap(a - d * b, 2 * HBITS))
__moddi3(a, b) ==
    Negate(__udivmoddi4(Negate(a, DNeg(a)), Negate(b, DNeg(b))).r, DNeg(a))
__udivdi3(a, b) == __udivmoddi4(a, b).q
__umoddi3(a, b) == __udivmoddi4(a, b).r

(***************************************************************************)
(* References: division as RISC-V and C define it (toward zero; a zero     *)
(* divisor, which the code reaches on registers only, gives -1 and the     *)
(* dividend), products and shifts modulo the width.                        *)
(***************************************************************************)
Abs(n) == IF n < 0 THEN -n ELSE n
TruncDiv(a, b) == IF (a < 0) = (b < 0) THEN Abs(a) \div Abs(b) ELSE -(Abs(a) \div Abs(b))
RefDiv(a, b, bits) == IF b = 0 THEN Wrap(-1, bits) ELSE Wrap(TruncDiv(Signed(a, bits), Signed(b, bits)), bits)
RefRem(a, b, bits) ==
    IF b = 0 THEN a
    ELSE Wrap(Signed(a, bits) - Signed(b, bits) * TruncDiv(Signed(a, bits), Signed(b, bits)), bits)

\* What the routines return for one dividend or factor a and every b.
\* NEMU's instructions, and the 2 * XBITS-bit product they split.
MRow(a) ==
    [b \in XWords |-> <<riscv_divu(a, b), riscv_div(a, b), riscv_remu(a, b), riscv_rem(a, b), mulh(a, b), mulhsu(a, b), mulhu(a, b)>>]
RefMRow(a) ==
    LET high(x) == Wrap(x \div 2^XBITS, XBITS) IN
    [b \in XWords |-> <<IF b = 0 THEN Wrap(-1, XBITS) ELSE a \div b, RefDiv(a, b, XBITS),
                        IF b = 0 THEN a ELSE a % b, RefRem(a, b, XBITS),
                        high(Signed(a, XBITS) * Signed(b, XBITS)), high(Signed(a, XBITS) * b), high(a * b)>>]
DRow(a) ==
    [b \in DWords \ {0} |-> <<__udivdi3(a, b), __umoddi3(a, b), __divdi3(a, b), __moddi3(a, b),
                              __divmoddi4(a, b), __muldi3(a, b)>>]
RefDRow(a) ==
    LET n == 2 * HBITS IN
    [b \in DWords \ {0} |-> <<a \div b, a % b, RefDiv(a, b, n), RefRem(a, b, n),
                              QR(RefDiv(a, b, n), RefRem(a, b, n)), Wrap(a * b, n)>>]
BitRow(a) ==
    [sll |-> [b \in 0 .. 2 * HBITS - 1 |-> <<__ashldi3(a, b), ysyxsoc_ashldi3(a, b)>>],
     zeros |-> IF a = 0 THEN <<>> ELSE <<__clzdi2(a), __ctzdi2(a)>>]
RefBitRow(a) ==
    [sll |-> [b \in 0 .. 2 * HBITS - 1 |-> <<Shl(a, b, 2 * HBITS), Shl(a, b, 2 * HBITS)>>],
     zeros |-> IF a = 0 THEN <<>>
               ELSE <<2 * HBITS - 1 - Max({k \in 0 .. 2 * HBITS - 1 : 2^k <= a}),
                      Max({k \in 0 .. 2 * HBITS - 1 : a % 2^k = 0})>>]
===========================================================================
