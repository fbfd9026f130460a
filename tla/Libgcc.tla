------------------------------ MODULE Libgcc ------------------------------
(***************************************************************************)
(* div.S and muldi3.S, linked into every program of the npc and ysyxsoc    *)
(* ports: division and multiplication for a core that has neither.  One    *)
(* step is one basic block of the assembly; at is the label it starts at,  *)
(* ret what the routine does after __udivsi3 returns to it (the code after *)
(* the call).  Registers wrap at WORD; Bits are the words with one bit.    *)
(***************************************************************************)
EXTENDS Integers

CONSTANTS WORD,     \* 2^32 in the code
          Bits      \* 2^0 .. 2^31
Word == 0 .. WORD - 1
\* Bits holds 1 and, with a word, its half and its double, up to the top bit, which is half of WORD.
ASSUME BitsAssumption ==
    /\ WORD \in Nat /\ Bits \subseteq Nat /\ 1 \in Bits /\ 2 * 1 # WORD
    /\ \A b \in Bits : 0 < b /\ (2 * b = WORD \/ (2 * b < WORD /\ 2 * b \in Bits))
                       /\ (b = 1 \/ (b % 2 = 0 /\ b \div 2 \in Bits))

VARIABLES call,             \* the routine called and its arguments
          a0, a1, a2, a3,   \* registers
          ret, at
lvars == <<call, a0, a1, a2, a3, ret, at>>

Wraps(n) == n % WORD
\* bltz, blez and bgtz look at the top bit.
Ltz(n) == 2 * n >= WORD
Gtz(n) == n # 0 /\ ~Ltz(n)
Negw(n) == Wraps(-n)
\* or, of a word with one bit.
OrBit(n, b) == IF (n \div b) % 2 = 1 THEN n ELSE n + b

npc_routines == {"__udivsi3", "__umodsi3", "__divsi3", "__modsi3", "__mulsi3"}
ysyxsoc_routines == {"__udivsi3", "__umodsi3", "__divsi3", "__modsi3", "__mulsi3"}
Calls == [name : npc_routines \cup ysyxsoc_routines, x : Word, y : Word]
LInit ==
    /\ call \in Calls
    /\ a0 = call.x /\ a1 = call.y /\ a2 = 0 /\ a3 = 0 /\ ret = "" /\ at = "entry"

\* The arguments of __udivsi3 and what is done with its result.
Divide(x, y, then) == a0' = x /\ a1' = y /\ ret' = then /\ at' = "__udivsi3" /\ UNCHANGED <<call, a2, a3>>
Called(name) == at = "entry" /\ call.name = name
UDiv == Called("__udivsi3") /\ Divide(a0, a1, "")
UMod == Called("__umodsi3") /\ Divide(a0, a1, "mod")
\* Zero is handled as a negative so that the result will not be inverted.
Div ==
    /\ Called("__divsi3")
    /\ \/ ~Ltz(a0) /\ ~Ltz(a1) /\ Divide(a0, a1, "")
       \/ Ltz(a0) /\ Gtz(a1) /\ Divide(Negw(a0), a1, "neg")
       \/ Ltz(a0) /\ ~Gtz(a1) /\ Divide(Negw(a0), Negw(a1), "")
       \/ ~Ltz(a0) /\ Ltz(a1) /\ Divide(a0, Negw(a1), "neg")
Mod ==
    /\ Called("__modsi3")
    /\ LET y == IF Ltz(a1) THEN Negw(a1) ELSE a1
       IN  IF Ltz(a0) THEN Divide(Negw(a0), y, "negmod") ELSE Divide(a0, y, "mod")
\* From the entry of __udivsi3 to .L1, .L3 or .L5.
UDivEntry ==
    /\ at = "__udivsi3"
    /\ a2' = a1 /\ a1' = a0 /\ a3' = 1
    /\ \/ a2' = 0 /\ a0' = Wraps(-1) /\ at' = ".L5"
       \/ a2' # 0 /\ a2' >= a1' /\ a0' = 0 /\ at' = ".L3"
       \/ a2' # 0 /\ a2' < a1' /\ a0' = Wraps(-1) /\ at' = ".L1"
    /\ UNCHANGED <<call, ret>>
\* Double the divisor until it reaches the dividend or its top bit.
L1 ==
    /\ at = ".L1"
    /\ \/ /\ ~Gtz(a2) /\ a0' = 0 /\ at' = ".L3" /\ UNCHANGED <<a2, a3>>
       \/ /\ Gtz(a2) /\ a2' = Wraps(2 * a2) /\ a3' = Wraps(2 * a3)
          /\ IF a1 > a2' THEN UNCHANGED <<a0, at>> ELSE a0' = 0 /\ at' = ".L3"
    /\ UNCHANGED <<call, a1, ret>>
\* Variant: an exact fit is not subtracted.
GoesInStrictly == a1 > a2
GoesIn == a1 >= a2
\* Subtract where it fits and shift back.
L3 ==
    /\ at = ".L3"
    /\ a1' = (IF GoesIn THEN Wraps(a1 - a2) ELSE a1)
    /\ a0' = (IF GoesIn THEN OrBit(a0, a3) ELSE a0)
    /\ a3' = a3 \div 2 /\ a2' = a2 \div 2
    /\ at' = IF a3' # 0 THEN ".L3" ELSE ".L5"
    /\ UNCHANGED <<call, ret>>
\* Back in the routine that called __udivsi3.
L5 ==
    /\ at = ".L5"
    /\ a0' = CASE ret = "" -> a0 [] ret = "neg" -> Negw(a0) [] ret = "mod" -> a1 [] ret = "negmod" -> Negw(a1)
    /\ at' = "done" /\ UNCHANGED <<call, a1, a2, a3, ret>>
Mul == Called("__mulsi3") /\ a2' = a0 /\ a0' = 0 /\ at' = "mul" /\ UNCHANGED <<call, a1, a3, ret>>
\* Shift and add.
MulStep ==
    /\ at = "mul"
    /\ a3' = a1 % 2
    /\ a0' = (IF a3' # 0 THEN Wraps(a0 + a2) ELSE a0)
    /\ a1' = a1 \div 2 /\ a2' = Wraps(2 * a2)
    /\ at' = IF a1' # 0 THEN "mul" ELSE "done"
    /\ UNCHANGED <<call, ret>>
LNext == UDiv \/ UMod \/ Div \/ Mod \/ UDivEntry \/ L1 \/ L3 \/ L5 \/ Mul \/ MulStep
LSpec == LInit /\ [][LNext]_lvars

(***************************************************************************)
(* What RISC-V says of the instructions the core lacks: division rounds    *)
(* toward zero, a zero divisor gives -1 and the dividend.                  *)
(***************************************************************************)
SignedValue(n) == IF Ltz(n) THEN n - WORD ELSE n
AbsValue(n) == IF n < 0 THEN -n ELSE n
Quotient(x, y) == IF (x < 0) = (y < 0) THEN AbsValue(x) \div AbsValue(y) ELSE -(AbsValue(x) \div AbsValue(y))
Remainder(x, y) == IF x < 0 THEN -(AbsValue(x) % AbsValue(y)) ELSE x % AbsValue(y)
Returned(c) ==
    LET x == SignedValue(c.x)  y == SignedValue(c.y) IN
    CASE c.name = "__udivsi3" -> IF c.y = 0 THEN WORD - 1 ELSE c.x \div c.y
      [] c.name = "__umodsi3" -> IF c.y = 0 THEN c.x ELSE c.x % c.y
      [] c.name = "__divsi3" -> IF c.y = 0 THEN WORD - 1 ELSE Wraps(Quotient(x, y))
      [] c.name = "__modsi3" -> IF c.y = 0 THEN c.x ELSE Wraps(Remainder(x, y))
      [] c.name = "__mulsi3" -> Wraps(c.x * c.y)
\* Falls with every step: the place in the code, then what the loop there shifts.
CodeLeft == CASE at = "entry" -> 5 [] at = "__udivsi3" -> 4 [] at = ".L1" -> 3 [] at \in {".L3", "mul"} -> 2 [] at = ".L5" -> 1 [] at = "done" -> 0
LoopLeft == CASE at = ".L1" -> WORD - a2 [] at = ".L3" -> a3 [] at = "mul" -> a1 [] OTHER -> 0
Nearer == CodeLeft' < CodeLeft \/ (CodeLeft' = CodeLeft /\ LoopLeft' < LoopLeft)
\* div.S, muldi3.S: every routine ends, and ends with what the instruction it stands for would give, on every pair of words, the
\* zero divisor and the most negative dividend included; LoopLeft falls only so often.
RoutineStep == Nearer /\ LoopLeft \in Nat /\ (at' = "done" => a0' = Returned(call))
RoutinesRight == [][RoutineStep]_lvars
===========================================================================
