--------------------------- MODULE SoftwareProofs ---------------------------
(***************************************************************************)
(* The software around the core: the routines of div.S and muldi3.S return *)
(* what the instructions the core lacks would, for every width of a word   *)
(* and every pair of operands; an interrupted conf --syncconfig leaves no  *)
(* stale object, for every set of symbols and every configuration; and the *)
(* core does what NEMU does with every instruction word and all operands.  *)
(***************************************************************************)
EXTENDS ConfSync, Libgcc, Datapath, SequenceTheorems, TLAPS, Integers

(***************************************************************************)
(* Division and multiplication.                                            *)
(***************************************************************************)
\* The unsigned operands of the division behind a call, and what is done with its result.
Dividend(c) == IF c.name \in {"__divsi3", "__modsi3"} /\ Ltz(c.x) THEN Negw(c.x) ELSE c.x
Divisor(c) == IF c.name \in {"__divsi3", "__modsi3"} /\ Ltz(c.y) THEN Negw(c.y) ELSE c.y
Then(c) ==
    CASE c.name = "__udivsi3" -> ""
      [] c.name = "__umodsi3" -> "mod"
      [] c.name = "__divsi3" -> IF c.y # 0 /\ ~(Ltz(c.x) <=> Ltz(c.y)) THEN "neg" ELSE ""
      [] OTHER -> IF Ltz(c.x) THEN "negmod" ELSE "mod"
Labels == {"entry", "__udivsi3", ".L1", ".L3", ".L5", "mul", "done"}
RegTypes == call \in Calls /\ a0 \in Word /\ a1 \in Word /\ a2 \in Word /\ a3 \in Word /\ at \in Labels
AtEntry == at = "entry" => a0 = call.x /\ a1 = call.y
InDivision ==
    at \in {"__udivsi3", ".L1", ".L3", ".L5"} => call.name # "__mulsi3" /\ ret = Then(call)
AtUDiv == at = "__udivsi3" => a0 = Dividend(call) /\ a1 = Divisor(call)
\* The divisor was doubled as often as the bit, and is still below the dividend.
AtL1 == at = ".L1" => /\ a1 = Dividend(call) /\ Divisor(call) # 0 /\ a3 \in Bits /\ a2 = Divisor(call) * a3 /\ a2 < a1
\* q d + r = n, the bits below 2 a3 of q are still to be found, and r is small enough for that.
L3Holds(n, d) ==
    /\ d # 0 /\ a3 \in Bits /\ a2 = d * a3 /\ a0 * d + a1 = n /\ a1 < 2 * a2
    /\ \E m \in Nat : a0 = 2 * a3 * m
AtL3 == at = ".L3" => L3Holds(Dividend(call), Divisor(call))
Divided(n, d, q, r) == IF d = 0 THEN q = WORD - 1 /\ r = n ELSE q = n \div d /\ r = n % d
AtL5 == at = ".L5" => Divided(Dividend(call), Divisor(call), a0, a1)
\* What is still to be added is a1 a2.
MulHolds(x, y) == \E k \in Int : a0 + a1 * a2 = x * y + k * WORD
AtMul == at = "mul" => call.name = "__mulsi3" /\ MulHolds(call.x, call.y)
AtDone == at = "done" => a0 = Returned(call)
LibInv == RegTypes /\ AtEntry /\ InDivision /\ AtUDiv /\ AtL1 /\ AtL3 /\ AtL5 /\ AtMul /\ AtDone

(***************************************************************************)
(* Arithmetic of words.                                                    *)
(***************************************************************************)
LEMMA WordFacts == WORD \in Nat /\ 2 < WORD /\ 0 \in Word /\ 1 \in Word /\ \A n \in Word : n \in Nat /\ n < WORD
<1>1. WORD \in Nat /\ 0 < 1 /\ (2 * 1 = WORD \/ 2 * 1 < WORD) /\ 2 * 1 # WORD
  BY BitsAssumption
<1> QED BY <1>1 DEF Word

LEMMA BitFacts ==
  ASSUME NEW b \in Bits
  PROVE  /\ b \in Nat /\ 0 < b /\ b < WORD /\ b \in Word
         /\ 2 * b = WORD \/ 2 * b \in Bits
         /\ b = 1 \/ \E h \in Bits : b = 2 * h /\ b \div 2 = h
<1>1. /\ b \in Nat /\ WORD \in Nat /\ 0 < b /\ (2 * b = WORD \/ (2 * b < WORD /\ 2 * b \in Bits))
      /\ (b = 1 \/ (b % 2 = 0 /\ b \div 2 \in Bits))
  BY BitsAssumption
<1>2. b < WORD /\ b \in Word
  BY <1>1 DEF Word
<1>3. b % 2 = 0 => b = 2 * (b \div 2)
  BY <1>1
<1> QED BY <1>1, <1>2, <1>3

LEMMA WrapsFacts ==
  ASSUME NEW n \in Int
  PROVE  /\ Wraps(n) \in Word
         /\ n \in Word => Wraps(n) = n
         /\ \E k \in Int : Wraps(n) = n - k * WORD
<1>1. WORD \in Nat /\ WORD > 0
  BY WordFacts
<1>2. Wraps(n) \in 0 .. WORD - 1 /\ n = WORD * (n \div WORD) + Wraps(n) /\ n \div WORD \in Int
  BY <1>1 DEF Wraps
<1>3. n \in Word => Wraps(n) = n
  BY <1>1 DEF Wraps, Word
<1>4. Wraps(n) = n - (n \div WORD) * WORD
  BY <1>1, <1>2
<1> QED BY <1>2, <1>3, <1>4 DEF Word

LEMMA NegatedFacts ==
  ASSUME NEW n \in Word
  PROVE  /\ Negw(n) = IF n = 0 THEN 0 ELSE WORD - n
         /\ Negw(n) \in Word
         /\ Wraps(-n) = Negw(n)
<1>1. WORD \in Nat /\ WORD > 0 /\ n \in Nat /\ n < WORD
  BY WordFacts
<1>2. (-n) % WORD = IF n = 0 THEN 0 ELSE WORD - n
  BY <1>1
<1> QED BY <1>1, <1>2 DEF Negw, Wraps, Word

LEMMA LessOne == Wraps(-1) = WORD - 1 /\ WORD - 1 \in Word
<1>1. 1 \in Word /\ WORD \in Nat /\ WORD > 0
  BY WordFacts
<1>2. Negw(1) = WORD - 1
  BY <1>1, NegatedFacts
<1> QED BY <1>1, <1>2 DEF Negw, Word

LEMMA OperandTypes ==
  ASSUME NEW c \in Calls
  PROVE  c.x \in Word /\ c.y \in Word /\ Dividend(c) \in Word /\ Divisor(c) \in Word
<1>1. c.x \in Word /\ c.y \in Word
  BY DEF Calls
<1> QED BY <1>1, NegatedFacts DEF Dividend, Divisor

\* The multiple of a divisor is no smaller than the factor.
LEMMA Multiple == ASSUME NEW d \in Nat, d # 0, NEW b \in Nat PROVE d * b \in Nat /\ b <= d * b /\ b <= b * d /\ 2 * (d * b) = d * (2 * b)
<1>1. PICK e \in Nat : d = e + 1
  BY d - 1 \in Nat
<1>2. d * b = e * b + b /\ e * b \in Nat
  BY <1>1
<1> QED BY <1>2

\* Quotient and remainder are what the product says.
LEMMA Euclid ==
  ASSUME NEW n \in Nat, NEW d \in Nat, d # 0, NEW q \in Nat, NEW r \in Nat, q * d + r = n, r < d
  PROVE  q = n \div d /\ r = n % d
BY Z3

(***************************************************************************)
(* The initial state and the entries of the routines.                      *)
(***************************************************************************)
LEMMA LibInitially == LInit => LibInv
<1> SUFFICES ASSUME LInit PROVE LibInv
  OBVIOUS
<1>1. RegTypes
  BY WordFacts, OperandTypes DEF LInit, RegTypes, Labels
<1> QED BY <1>1 DEF LInit, LibInv, AtEntry, InDivision, AtUDiv, AtL1, AtL3, AtL5, AtMul, AtDone

\* A routine hands its operands to __udivsi3.
LEMMA EntryKeeps ==
  ASSUME LibInv, at = "entry", call.name # "__mulsi3", Divide(Dividend(call), Divisor(call), Then(call))
  PROVE  LibInv'
<1>1. /\ a0' = Dividend(call) /\ a1' = Divisor(call) /\ ret' = Then(call) /\ at' = "__udivsi3"
      /\ call' = call /\ a2' = a2 /\ a3' = a3
  BY DEF Divide
<1>2. call \in Calls /\ a2 \in Word /\ a3 \in Word
  BY DEF LibInv, RegTypes
<1>3. RegTypes'
  BY <1>1, <1>2, OperandTypes DEF RegTypes, Labels
<1> QED BY <1>1, <1>3 DEF LibInv, AtEntry, InDivision, AtUDiv, AtL1, AtL3, AtL5, AtMul, AtDone

LEMMA CallsKeep == LibInv /\ (UDiv \/ UMod \/ Div \/ Mod) => LibInv'
<1> SUFFICES ASSUME LibInv, UDiv \/ UMod \/ Div \/ Mod PROVE LibInv'
  OBVIOUS
<1>1. at = "entry" /\ a0 = call.x /\ a1 = call.y /\ call \in Calls /\ call.name # "__mulsi3"
  BY DEF UDiv, UMod, Div, Mod, Called, LibInv, AtEntry, RegTypes
<1>2. call.x \in Word /\ call.y \in Word
  BY <1>1, OperandTypes
<1>z. Negw(0) = 0 /\ ~Ltz(0)
  BY WordFacts, NegatedFacts DEF Ltz
<1>3. Divide(Dividend(call), Divisor(call), Then(call))
  <2>1. CASE UDiv
    BY <2>1, <1>1 DEF UDiv, Called, Dividend, Divisor, Then
  <2>2. CASE UMod
    BY <2>2, <1>1 DEF UMod, Called, Dividend, Divisor, Then
  <2>3. CASE Div
    <3>1. call.name = "__divsi3"
      BY <2>3 DEF Div, Called
    <3>2. CASE ~Ltz(a0) /\ ~Ltz(a1) /\ Divide(a0, a1, "")
      BY <3>1, <3>2, <1>1 DEF Dividend, Divisor, Then
    <3>3. CASE Ltz(a0) /\ Gtz(a1) /\ Divide(Negw(a0), a1, "neg")
      BY <3>1, <3>3, <1>1 DEF Dividend, Divisor, Then, Gtz
    <3>4. CASE Ltz(a0) /\ ~Gtz(a1) /\ Divide(Negw(a0), Negw(a1), "")
      <4>1. Ltz(a1) \/ (a1 = 0 /\ Negw(a1) = a1)
        BY <3>4, <1>z DEF Gtz
      <4> QED BY <3>1, <3>4, <4>1, <1>1 DEF Dividend, Divisor, Then
    <3>5. CASE ~Ltz(a0) /\ Ltz(a1) /\ Divide(a0, Negw(a1), "neg")
      BY <3>1, <3>5, <1>1, <1>z DEF Dividend, Divisor, Then
    <3> QED BY <2>3, <3>2, <3>3, <3>4, <3>5 DEF Div
  <2>4. CASE Mod
    BY <2>4, <1>1 DEF Mod, Called, Dividend, Divisor, Then
  <2> QED BY <2>1, <2>2, <2>3, <2>4
<1> QED BY <1>1, <1>3, EntryKeeps

LEMMA UDivEntryKeeps == LibInv /\ UDivEntry => LibInv'
<1> SUFFICES ASSUME LibInv, UDivEntry PROVE LibInv'
  OBVIOUS
<1> DEFINE n == Dividend(call)
           d == Divisor(call)
<1>1. /\ at = "__udivsi3" /\ a0 = n /\ a1 = d /\ call.name # "__mulsi3" /\ ret = Then(call) /\ call \in Calls
      /\ n \in Word /\ d \in Word
  BY OperandTypes DEF LibInv, RegTypes, AtUDiv, InDivision, UDivEntry
<1>2. a2' = d /\ a1' = n /\ a3' = 1 /\ call' = call /\ ret' = ret
  BY <1>1 DEF UDivEntry
<1>3. \/ d = 0 /\ a0' = WORD - 1 /\ at' = ".L5"
      \/ d # 0 /\ d >= n /\ a0' = 0 /\ at' = ".L3"
      \/ d # 0 /\ d < n /\ a0' = WORD - 1 /\ at' = ".L1"
  BY <1>2, LessOne DEF UDivEntry
<1>n. n' = n /\ d' = d
  BY <1>2 DEF Dividend, Divisor
<1> HIDE DEF n, d
<1>4. RegTypes'
  BY <1>1, <1>2, <1>3, WordFacts, LessOne DEF RegTypes, Labels
<1>5. InDivision'
  BY <1>1, <1>2 DEF InDivision
<1>6. AtL1'
  <2>1. at' = ".L1" => a1' = n /\ d # 0 /\ a3' \in Bits /\ a2' = d * a3' /\ a2' < a1'
    BY <1>1, <1>2, <1>3, BitsAssumption, WordFacts
  <2> QED BY <2>1, <1>n DEF AtL1, n, d
<1>7. AtL3'
  <2>1. ASSUME at' = ".L3" PROVE L3Holds(n, d)'
    <3>1. d # 0 /\ d >= n /\ a0' = 0 /\ n \in Nat /\ d \in Nat
      BY <2>1, <1>1, <1>3, WordFacts
    <3>2. a2' = d * a3' /\ a0' * d + a1' = n /\ a1' < 2 * a2'
      BY <3>1, <1>2
    <3>3. a0' = 2 * a3' * 0 /\ 0 \in Nat
      BY <3>1, <1>2
    <3>4. a3' \in Bits
      BY <1>2, BitsAssumption
    <3> QED BY <3>1, <3>2, <3>3, <3>4, <1>n DEF L3Holds
  <2> QED BY <2>1, <1>n DEF AtL3, n, d
<1>8. AtL5'
  BY <1>2, <1>3, <1>n DEF AtL5, Divided, n, d
<1>9. AtEntry' /\ AtUDiv' /\ AtMul' /\ AtDone'
  BY <1>3 DEF AtEntry, AtUDiv, AtMul, AtDone
<1> QED BY <1>4, <1>5, <1>6, <1>7, <1>8, <1>9 DEF LibInv

\* At .L3 with nothing found yet.
LEMMA NothingFound ==
  ASSUME NEW n \in Nat, NEW d \in Nat, NEW b \in Bits
  PROVE  0 * d + n = n /\ \E m \in Nat : 0 = 2 * b * m
<1>1. b \in Nat
  BY BitFacts
<1>2. 0 = 2 * b * 0 /\ 0 \in Nat
  BY <1>1
<1> QED BY <1>2

LEMMA L1Keeps == LibInv /\ L1 => LibInv'
<1> SUFFICES ASSUME LibInv, L1 PROVE LibInv'
  OBVIOUS
<1> DEFINE n == Dividend(call)
           d == Divisor(call)
<1>1. /\ at = ".L1" /\ a1 = n /\ d # 0 /\ a3 \in Bits /\ a2 = d * a3 /\ a2 < n
      /\ call.name # "__mulsi3" /\ ret = Then(call) /\ call \in Calls /\ n \in Word /\ d \in Word /\ a2 \in Word /\ a0 \in Word
  BY OperandTypes DEF LibInv, RegTypes, AtL1, InDivision, L1
<1>2. a1' = n /\ call' = call /\ ret' = ret
  BY <1>1 DEF L1
<1>n. n' = n /\ d' = d
  BY <1>2 DEF Dividend, Divisor
<1>3. \/ ~Gtz(a2) /\ a0' = 0 /\ at' = ".L3" /\ a2' = a2 /\ a3' = a3
      \/ Gtz(a2) /\ a2' = Wraps(2 * a2) /\ a3' = Wraps(2 * a3) /\ a1 > a2' /\ a0' = a0 /\ at' = ".L1"
      \/ Gtz(a2) /\ a2' = Wraps(2 * a2) /\ a3' = Wraps(2 * a3) /\ ~(a1 > a2') /\ a0' = 0 /\ at' = ".L3"
  BY <1>1 DEF L1
<1> HIDE DEF n, d
<1>4. a3 \in Nat /\ a3 > 0 /\ n \in Nat /\ d \in Nat /\ a2 \in Nat /\ n < WORD /\ WORD \in Nat
  BY <1>1, WordFacts, BitFacts
<1>5. a3 <= a2
  BY <1>1, <1>4, Multiple
<1>6. CASE Gtz(a2) /\ a2' = Wraps(2 * a2) /\ a3' = Wraps(2 * a3)
  <2>1. 2 * a2 < WORD
    BY <1>6, <1>4 DEF Gtz, Ltz
  <2>2. 2 * a2 \in Word /\ 2 * a3 \in Word
    BY <2>1, <1>4, <1>5 DEF Word
  <2>3. a2' = 2 * a2 /\ a3' = 2 * a3
    BY <2>2, <1>6, <1>4, WrapsFacts
  <2>4. a3' \in Bits
    BY <1>1, <2>3, <2>1, <1>4, <1>5, BitFacts
  <2>5. a2' = d * a3'
    BY <1>1, <1>4, <2>3, Multiple
  <2>6. a0' \in Word /\ a2' \in Word /\ a3' \in Word
    BY <2>2, <2>3, <1>1, <1>3, WordFacts
  <2>7. RegTypes'
    BY <2>6, <1>1, <1>2, <1>3 DEF RegTypes, Labels
  <2>8. AtL1'
    <3>1. at' = ".L1" => a1' = n /\ d # 0 /\ a3' \in Bits /\ a2' = d * a3' /\ a2' < a1'
      BY <2>3, <2>4, <2>5, <1>1, <1>2, <1>3, <1>4
    <3> QED BY <3>1, <1>n DEF AtL1, n, d
  <2>9. AtL3'
    <3>1. at' = ".L3" => a0' = 0 /\ n < 2 * a2'
      BY <1>1, <1>3, <1>4, <1>5, <2>3
    <3>2. 0 * d + n = n /\ \E m \in Nat : 0 = 2 * a3' * m
      BY <2>4, <1>4, NothingFound
    <3>3. at' = ".L3" => L3Holds(n, d)'
      BY <3>1, <3>2, <2>4, <2>5, <1>1, <1>2, <1>n DEF L3Holds
    <3> QED BY <3>3, <1>n DEF AtL3, n, d
  <2> QED BY <2>7, <2>8, <2>9, <1>1, <1>2, <1>3 DEF LibInv, InDivision, AtEntry, AtUDiv, AtL5, AtMul, AtDone
<1>7. CASE ~Gtz(a2) /\ a0' = 0 /\ at' = ".L3" /\ a2' = a2 /\ a3' = a3
  <2>1. n < 2 * a2
    BY <1>7, <1>4, <1>5 DEF Gtz, Ltz
  <2>2. RegTypes'
    BY <1>7, <1>1, <1>2, WordFacts, BitFacts DEF RegTypes, Labels
  <2>3. AtL3'
    <3>1. 0 * d + n = n /\ \E m \in Nat : 0 = 2 * a3 * m
      BY <1>1, <1>4, NothingFound
    <3>2. L3Holds(n, d)'
      BY <3>1, <2>1, <1>7, <1>1, <1>2, <1>n DEF L3Holds
    <3> QED BY <3>2, <1>n DEF AtL3, n, d
  <2> QED BY <2>2, <2>3, <1>7, <1>1, <1>2 DEF LibInv, InDivision, AtL1, AtEntry, AtUDiv, AtL5, AtMul, AtDone
<1> QED BY <1>3, <1>6, <1>7

\* One turn of .L3: what is found and what is left, before the bit is halved.
Turned(n, d, b, q, r) == q \in Word /\ r \in Word /\ r < d * b /\ q * d + r = n /\ \E k \in Nat : q = b * k
LEMMA TurnFits ==
  ASSUME NEW n \in Nat, NEW d \in Nat, d # 0, NEW b \in Bits, NEW q \in Nat, NEW r \in Nat, NEW m \in Nat,
         q * d + r = n, r < 2 * (d * b), q = 2 * b * m, n < WORD, r >= d * b
  PROVE  Turned(n, d, b, OrBit(q, b), Wraps(r - d * b))
<1>1. b \in Nat /\ b > 0 /\ d * b \in Nat /\ b * d = d * b /\ WORD \in Nat
  BY BitFacts, WordFacts
<1>2. q = b * (2 * m) /\ 2 * m \in Nat
  BY <1>1
<1>3. q \div b = 2 * m
  BY <1>1, <1>2
<1>4. OrBit(q, b) = q + b
  BY <1>3 DEF OrBit
<1>5. r - d * b \in Nat /\ r - d * b \in Int /\ r - d * b < d * b
  BY <1>1
<1>6. r <= n
  <2>1. q * d \in Nat
    OBVIOUS
  <2> QED BY <2>1
<1>7. r - d * b \in Word
  BY <1>5, <1>6, <1>1 DEF Word
<1>8. Wraps(r - d * b) = r - d * b
  BY <1>5, <1>7, WrapsFacts
<1>9. (q + b) * d = q * d + d * b
  BY <1>1
<1>10. (q + b) * d + (r - d * b) = n
  BY <1>9, <1>1
<1>11. q + b \in Nat /\ q + b = b * (2 * m + 1) /\ 2 * m + 1 \in Nat
  BY <1>1, <1>2
<1>12. q + b <= (q + b) * d /\ (q + b) * d \in Nat
  BY <1>11, Multiple
<1>13. q + b \in Word
  BY <1>5, <1>10, <1>11, <1>12, <1>1 DEF Word
<1> QED BY <1>4, <1>5, <1>7, <1>8, <1>10, <1>11, <1>13 DEF Turned

LEMMA TurnSkips ==
  ASSUME NEW n \in Nat, NEW d \in Nat, d # 0, NEW b \in Bits, NEW q \in Nat, NEW r \in Nat, NEW m \in Nat,
         q * d + r = n, q = 2 * b * m, n < WORD, r < d * b
  PROVE  Turned(n, d, b, q, r)
<1>1. b \in Nat /\ WORD \in Nat
  BY BitFacts, WordFacts
<1>2. q <= q * d /\ q * d \in Nat
  BY Multiple
<1>3. q \in Word /\ r \in Word
  BY <1>1, <1>2 DEF Word
<1>4. q = b * (2 * m) /\ 2 * m \in Nat
  BY <1>1
<1> QED BY <1>3, <1>4 DEF Turned

LEMMA L3Keeps == LibInv /\ L3 => LibInv'
<1> SUFFICES ASSUME LibInv, L3 PROVE LibInv'
  OBVIOUS
<1> DEFINE n == Dividend(call)
           d == Divisor(call)
<1>1. /\ at = ".L3" /\ L3Holds(n, d) /\ call.name # "__mulsi3" /\ ret = Then(call) /\ call \in Calls
      /\ n \in Word /\ d \in Word /\ a0 \in Word /\ a1 \in Word /\ a2 \in Word
  BY OperandTypes DEF LibInv, RegTypes, AtL3, InDivision, L3
<1>2. /\ a1' = (IF GoesIn THEN Wraps(a1 - a2) ELSE a1) /\ a0' = (IF GoesIn THEN OrBit(a0, a3) ELSE a0)
      /\ a3' = a3 \div 2 /\ a2' = a2 \div 2 /\ at' = (IF a3' # 0 THEN ".L3" ELSE ".L5")
      /\ call' = call /\ ret' = ret
  BY DEF L3
<1>n. n' = n /\ d' = d
  BY <1>2 DEF Dividend, Divisor
<1> HIDE DEF n, d
<1>3. /\ n \in Nat /\ d \in Nat /\ a0 \in Nat /\ a1 \in Nat /\ a2 \in Nat /\ n < WORD /\ WORD \in Nat
      /\ d # 0 /\ a3 \in Bits /\ a2 = d * a3 /\ a0 * d + a1 = n /\ a1 < 2 * a2
  BY <1>1, WordFacts DEF L3Holds
<1>4. PICK m \in Nat : a0 = 2 * a3 * m
  BY <1>1 DEF L3Holds
<1>5. Turned(n, d, a3, a0', a1')
  <2>1. a3 \in Nat /\ d * a3 \in Nat
    BY <1>3, BitFacts
  <2>2. CASE GoesIn
    <3>1. a1 >= d * a3 /\ a1 < 2 * (d * a3) /\ a1' = Wraps(a1 - d * a3) /\ a0' = OrBit(a0, a3)
      BY <2>2, <1>2, <1>3 DEF GoesIn
    <3> QED BY <3>1, <1>3, <1>4, TurnFits
  <2>3. CASE ~GoesIn
    <3>1. a1 < d * a3 /\ a1' = a1 /\ a0' = a0
      BY <2>1, <2>3, <1>2, <1>3 DEF GoesIn
    <3> QED BY <3>1, <1>3, <1>4, TurnSkips
  <2> QED BY <2>2, <2>3
<1>t. a0' \in Word /\ a1' \in Word /\ a1' < d * a3 /\ a0' * d + a1' = n
  BY <1>5 DEF Turned
<1>6. PICK k \in Nat : a0' = a3 * k
  BY <1>5 DEF Turned
<1>7. CASE a3 = 1
  <2>1. a3' = 0 /\ at' = ".L5" /\ a1' < d
    BY <1>7, <1>2, <1>3, <1>t
  <2>2. a0' \in Nat /\ a1' \in Nat
    BY <1>t, WordFacts
  <2>3. a0' = n \div d /\ a1' = n % d
    BY <2>1, <2>2, <1>3, <1>t, Euclid
  <2>4. AtL5'
    BY <2>3, <1>3, <1>n DEF AtL5, Divided, n, d
  <2>5. a2' \in Word
    BY <1>1, <1>2, <1>3 DEF Word
  <2>6. RegTypes'
    BY <2>1, <2>5, <1>1, <1>2, <1>t, WordFacts DEF RegTypes, Labels
  <2> QED BY <2>1, <2>4, <2>6, <1>1, <1>2 DEF LibInv, InDivision, AtEntry, AtUDiv, AtL1, AtL3, AtMul, AtDone
<1>8. CASE a3 # 1
  <2>1. PICK h \in Bits : a3 = 2 * h /\ a3' = h
    BY <1>8, <1>2, <1>3, BitFacts
  <2>2. h \in Nat /\ h > 0 /\ h \in Word
    BY <2>1, BitFacts
  <2>3. a2 = 2 * (d * h) /\ d * h \in Nat
    BY <2>1, <2>2, <1>3, Multiple
  <2>4. a2' = d * h /\ a2' \in Word
    BY <2>3, <1>1, <1>2, <1>3 DEF Word
  <2>5. at' = ".L3"
    BY <2>1, <2>2, <1>2
  <2>6. a1' < 2 * a2'
    BY <1>3, <1>t, <2>3, <2>4, <2>1
  <2>7. a0' = 2 * a3' * k
    BY <1>6, <2>1
  <2>8. L3Holds(n, d)'
    BY <2>1, <2>4, <2>6, <2>7, <1>3, <1>t, <1>n DEF L3Holds
  <2>9. AtL3'
    BY <2>8, <1>n DEF AtL3, n, d
  <2>10. RegTypes'
    BY <2>1, <2>2, <2>4, <2>5, <1>1, <1>2, <1>t DEF RegTypes, Labels
  <2> QED BY <2>5, <2>9, <2>10, <1>1, <1>2 DEF LibInv, InDivision, AtEntry, AtUDiv, AtL1, AtL5, AtMul, AtDone
<1> QED BY <1>7, <1>8

(***************************************************************************)
(* What the routines make of quotient and remainder.                       *)
(***************************************************************************)
LEMMA DividedTypes ==
  ASSUME NEW n \in Word, NEW d \in Word, NEW q \in Word, NEW r \in Word, Divided(n, d, q, r), d # 0
  PROVE  q = n \div d /\ r = n % d /\ q \in Word /\ r \in Word
BY DEF Divided

\* The magnitude of a signed word is its unsigned operand.
LEMMA SignedOperand ==
  ASSUME NEW n \in Word
  PROVE  /\ Ltz(n) => SignedValue(n) < 0 /\ AbsValue(SignedValue(n)) = Negw(n)
         /\ ~Ltz(n) => SignedValue(n) >= 0 /\ AbsValue(SignedValue(n)) = n /\ SignedValue(n) = n
         /\ SignedValue(n) \in Int
<1>1. WORD \in Nat /\ WORD > 2 /\ n \in Nat /\ n < WORD
  BY WordFacts
<1>2. CASE Ltz(n)
  <2>1. n # 0
    BY <1>1, <1>2 DEF Ltz
  <2> QED BY <1>1, <1>2, <2>1, NegatedFacts DEF SignedValue, AbsValue
<1>3. CASE ~Ltz(n)
  BY <1>1, <1>3 DEF SignedValue, AbsValue
<1> QED BY <1>2, <1>3

\* What L5 leaves in a0.
Final(c, q, r) ==
    CASE Then(c) = "" -> q [] Then(c) = "neg" -> Negw(q) [] Then(c) = "mod" -> r [] Then(c) = "negmod" -> Negw(r)

LEMMA UnsignedResult ==
  ASSUME NEW c \in Calls, c.name \in {"__udivsi3", "__umodsi3"},
         NEW q \in Word, NEW r \in Word, Divided(Dividend(c), Divisor(c), q, r)
  PROVE  Final(c, q, r) = Returned(c)
<1>1. Dividend(c) = c.x /\ Divisor(c) = c.y
  BY DEF Dividend, Divisor
<1>2. CASE c.name = "__udivsi3"
  BY <1>1, <1>2 DEF Final, Then, Returned, Divided
<1>3. CASE c.name = "__umodsi3"
  BY <1>1, <1>3 DEF Final, Then, Returned, Divided
<1> QED BY <1>2, <1>3

LEMMA SignedDivResult ==
  ASSUME NEW c \in Calls, c.name = "__divsi3",
         NEW q \in Word, NEW r \in Word, Divided(Dividend(c), Divisor(c), q, r)
  PROVE  Final(c, q, r) = Returned(c)
<1> DEFINE x == SignedValue(c.x)
           y == SignedValue(c.y)
<1>1. c.x \in Word /\ c.y \in Word /\ WORD \in Nat /\ WORD > 2
  BY OperandTypes, WordFacts
<1>2. /\ AbsValue(x) = Dividend(c) /\ AbsValue(y) = Divisor(c) /\ (Ltz(c.x) <=> x < 0) /\ (Ltz(c.y) <=> y < 0)
      /\ x \in Int /\ y \in Int
  BY <1>1, SignedOperand DEF Dividend, Divisor
<1>3. Divisor(c) = 0 <=> c.y = 0
  <2>1. Divisor(c) = IF Ltz(c.y) THEN Negw(c.y) ELSE c.y
    BY DEF Divisor
  <2>2. Negw(c.y) = IF c.y = 0 THEN 0 ELSE WORD - c.y
    BY <1>1, NegatedFacts
  <2>3. c.y \in Nat /\ c.y < WORD
    BY <1>1, WordFacts
  <2> QED BY <2>1, <2>2, <2>3, <1>1
<1>4. Returned(c) = IF c.y = 0 THEN WORD - 1 ELSE Wraps(Quotient(x, y))
  BY DEF Returned
<1>5. Final(c, q, r) = IF c.y # 0 /\ ~(x < 0 <=> y < 0) THEN Negw(q) ELSE q
  BY <1>2 DEF Final, Then
<1> HIDE DEF x, y
<1>6. CASE c.y = 0
  BY <1>3, <1>4, <1>5, <1>6 DEF Divided
<1>7. CASE c.y # 0
  <2>1. q = AbsValue(x) \div AbsValue(y)
    BY <1>2, <1>3, <1>7 DEF Divided
  <2>2. Wraps(q) = q /\ Wraps(-q) = Negw(q)
    BY WrapsFacts, NegatedFacts, WordFacts, q \in Nat
  <2>3. Quotient(x, y) = IF (x < 0 <=> y < 0) THEN q ELSE -q
    BY <2>1, <1>2 DEF Quotient
  <2> QED BY <2>2, <2>3, <1>4, <1>5, <1>7
<1> QED BY <1>6, <1>7

LEMMA SignedModResult ==
  ASSUME NEW c \in Calls, c.name = "__modsi3",
         NEW q \in Word, NEW r \in Word, Divided(Dividend(c), Divisor(c), q, r)
  PROVE  Final(c, q, r) = Returned(c)
<1> DEFINE x == SignedValue(c.x)
           y == SignedValue(c.y)
<1>1. c.x \in Word /\ c.y \in Word /\ WORD \in Nat /\ WORD > 2
  BY OperandTypes, WordFacts
<1>2. /\ AbsValue(x) = Dividend(c) /\ AbsValue(y) = Divisor(c) /\ (Ltz(c.x) <=> x < 0)
      /\ (~Ltz(c.x) => x = Dividend(c)) /\ x \in Int /\ y \in Int
  BY <1>1, SignedOperand DEF Dividend, Divisor
<1>3. Divisor(c) = 0 <=> c.y = 0
  <2>1. Divisor(c) = IF Ltz(c.y) THEN Negw(c.y) ELSE c.y
    BY DEF Divisor
  <2>2. Negw(c.y) = IF c.y = 0 THEN 0 ELSE WORD - c.y
    BY <1>1, NegatedFacts
  <2>3. c.y \in Nat /\ c.y < WORD
    BY <1>1, WordFacts
  <2> QED BY <2>1, <2>2, <2>3, <1>1
<1>4. Returned(c) = IF c.y = 0 THEN c.x ELSE Wraps(Remainder(x, y))
  BY DEF Returned
<1>5. Final(c, q, r) = IF x < 0 THEN Negw(r) ELSE r
  BY <1>2 DEF Final, Then
<1>6. CASE c.y = 0
  <2>1. r = Dividend(c)
    BY <1>3, <1>6 DEF Divided
  <2>2. CASE Ltz(c.x)
    <3>1. Dividend(c) = Negw(c.x) /\ c.x # 0 /\ c.x \in Nat /\ c.x < WORD
      BY <2>2, <1>1, WordFacts DEF Dividend, Ltz
    <3>2. r = WORD - c.x /\ r # 0
      BY <2>1, <3>1, <1>1, NegatedFacts
    <3>3. Negw(r) = WORD - r
      BY <3>2, NegatedFacts
    <3> QED BY <3>1, <3>2, <3>3, <2>2, <1>1, <1>2, <1>4, <1>5, <1>6
  <2>3. CASE ~Ltz(c.x)
    BY <2>1, <2>3, <1>2, <1>4, <1>5, <1>6 DEF Dividend
  <2> QED BY <2>2, <2>3
<1> HIDE DEF x, y
<1>7. CASE c.y # 0
  <2>1. r = AbsValue(x) % AbsValue(y)
    BY <1>2, <1>3, <1>7 DEF Divided
  <2>2. Wraps(r) = r /\ Wraps(-r) = Negw(r)
    BY WrapsFacts, NegatedFacts, WordFacts, r \in Nat
  <2>3. Remainder(x, y) = IF x < 0 THEN -r ELSE r
    BY <2>1, <1>2 DEF Remainder
  <2> QED BY <2>2, <2>3, <1>4, <1>5, <1>7
<1> QED BY <1>6, <1>7

LEMMA L5Keeps == LibInv /\ L5 => LibInv'
<1> SUFFICES ASSUME LibInv, L5 PROVE LibInv'
  OBVIOUS
<1>1. /\ at = ".L5" /\ Divided(Dividend(call), Divisor(call), a0, a1) /\ call.name # "__mulsi3" /\ ret = Then(call) /\ call \in Calls
      /\ a0 \in Word /\ a1 \in Word /\ a2 \in Word /\ a3 \in Word
  BY DEF LibInv, RegTypes, AtL5, InDivision, L5
<1>2. /\ at' = "done" /\ call' = call /\ a1' = a1 /\ a2' = a2 /\ a3' = a3
      /\ a0' = Final(call, a0, a1)
  BY <1>1 DEF L5, Final
<1>3. call.name \in {"__udivsi3", "__umodsi3", "__divsi3", "__modsi3"}
  BY <1>1 DEF Calls, npc_routines, ysyxsoc_routines
<1>4. a0' = Returned(call)
  BY <1>1, <1>2, <1>3, UnsignedResult, SignedDivResult, SignedModResult
<1>5. Then(call) \in {"", "neg", "mod", "negmod"}
  BY DEF Then
<1>6. a0' \in Word
  BY <1>1, <1>2, <1>5, NegatedFacts DEF Final
<1>7. RegTypes'
  BY <1>1, <1>2, <1>6 DEF RegTypes, Labels
<1> QED BY <1>2, <1>4, <1>7 DEF LibInv, InDivision, AtEntry, AtUDiv, AtL1, AtL3, AtL5, AtMul, AtDone

(***************************************************************************)
(* Multiplication.                                                         *)
(***************************************************************************)
LEMMA MulKeeps == LibInv /\ Mul => LibInv'
<1> SUFFICES ASSUME LibInv, Mul PROVE LibInv'
  OBVIOUS
<1>1. /\ call.name = "__mulsi3" /\ a0 = call.x /\ a1 = call.y /\ call \in Calls /\ a0 \in Word /\ a1 \in Word /\ a3 \in Word
  BY DEF LibInv, RegTypes, AtEntry, Mul, Called
<1>2. a2' = a0 /\ a0' = 0 /\ at' = "mul" /\ call' = call /\ a1' = a1 /\ a3' = a3
  BY DEF Mul
<1>3. RegTypes'
  BY <1>1, <1>2, WordFacts DEF RegTypes, Labels
<1>4. a0' + a1' * a2' = call.x * call.y + 0 * WORD
  BY <1>1, <1>2, WordFacts
<1>5. MulHolds(call.x, call.y)'
  BY <1>2, <1>4, 0 \in Int DEF MulHolds
<1> QED BY <1>1, <1>2, <1>3, <1>5 DEF LibInv, InDivision, AtEntry, AtUDiv, AtL1, AtL3, AtL5, AtMul, AtDone

\* One turn of the loop keeps the sum, but for multiples of WORD.
LEMMA MulDistributes ==
  ASSUME NEW h \in Int, NEW g \in Int, NEW w \in Int, NEW i \in Int, NEW j \in Int, NEW k \in Int, NEW e \in Int
  PROVE  /\ h * (2 * g - i * w) = 2 * (h * g) - (h * i) * w
         /\ (2 * h + e) * g = 2 * (h * g) + e * g
         /\ k * w - (j * w + (h * i) * w) = (k - (j + h * i)) * w
         /\ k - (j + h * i) \in Int
<1>1. h * (2 * g - i * w) = 2 * (h * g) - (h * i) * w
  OBVIOUS
<1>2. (2 * h + e) * g = 2 * (h * g) + e * g
  OBVIOUS
<1>3. j * w + (h * i) * w = (j + h * i) * w
  OBVIOUS
<1>4. k * w - (j + h * i) * w = (k - (j + h * i)) * w
  OBVIOUS
<1> QED BY <1>1, <1>2, <1>3, <1>4

\* Nothing left to add: the sum is the product.
LEMMA MulEnds ==
  ASSUME NEW p \in Nat, NEW s \in Word, NEW k \in Int, s = p + k * WORD
  PROVE  s = Wraps(p)
<1>1. WORD \in Nat /\ WORD > 0 /\ s \in Nat /\ s < WORD
  BY WordFacts
<1>2. PICK j \in Int : Wraps(p) = p - j * WORD
  BY WrapsFacts
<1>3. Wraps(p) \in Nat /\ Wraps(p) < WORD
  BY WrapsFacts, WordFacts
<1>4. s - Wraps(p) = (k + j) * WORD /\ k + j \in Int
  BY <1>1, <1>2
<1>5. k + j = 0
  <2>1. CASE k + j >= 1
    <3>1. (k + j) * WORD >= WORD
      BY <2>1, <1>1, <1>4
    <3> QED BY <3>1, <1>1, <1>3, <1>4
  <2>2. CASE k + j <= -1
    <3>1. (k + j) * WORD <= -WORD
      BY <2>2, <1>1, <1>4
    <3> QED BY <3>1, <1>1, <1>3, <1>4
  <2> QED BY <2>1, <2>2, <1>4
<1> QED BY <1>1, <1>3, <1>4, <1>5

LEMMA MulStepKeeps == LibInv /\ MulStep => LibInv'
<1> SUFFICES ASSUME LibInv, MulStep PROVE LibInv'
  OBVIOUS
<1>1. /\ call.name = "__mulsi3" /\ MulHolds(call.x, call.y) /\ call \in Calls
      /\ a0 \in Word /\ a1 \in Word /\ a2 \in Word
  BY DEF LibInv, RegTypes, AtMul, MulStep
<1>2. /\ a3' = a1 % 2 /\ a0' = (IF a3' # 0 THEN Wraps(a0 + a2) ELSE a0)
      /\ a1' = a1 \div 2 /\ a2' = Wraps(2 * a2) /\ at' = (IF a1' # 0 THEN "mul" ELSE "done") /\ call' = call
  BY DEF MulStep
<1>3. a0 \in Nat /\ a1 \in Nat /\ a2 \in Nat /\ a1 < WORD /\ WORD \in Nat /\ WORD > 2
  BY <1>1, WordFacts
<1>4. a1' \in Nat /\ a1' \in Word /\ a3' \in {0, 1} /\ a3' \in Word /\ a1 = 2 * a1' + a3'
  <2>1. \A n \in Nat : n \div 2 \in Nat /\ n \div 2 <= n
    OBVIOUS
  <2>2. \A n \in Nat : n % 2 \in Nat /\ n % 2 < 2
    OBVIOUS
  <2>3. a1 = 2 * (a1 \div 2) + (a1 % 2)
    BY <1>3
  <2>4. a1 % 2 = 0 \/ a1 % 2 = 1
    BY <2>2, <1>3
  <2> QED BY <2>1, <2>3, <2>4, <1>2, <1>3 DEF Word
<1>5. call.x \in Nat /\ call.y \in Nat /\ call.x * call.y \in Nat
  <2>1. call.x \in Nat /\ call.y \in Nat
    BY <1>1, OperandTypes, WordFacts
  <2> QED BY <2>1
<1>6. PICK k \in Int : a0 + a1 * a2 = call.x * call.y + k * WORD
  BY <1>1 DEF MulHolds
<1>7. PICK i \in Int : a2' = 2 * a2 - i * WORD
  BY <1>2, <1>3, WrapsFacts, 2 * a2 \in Int
<1>8. \E j \in Int : a0' = (IF a3' = 1 THEN a0 + a2 ELSE a0) - j * WORD
  <2>1. CASE a3' = 1
    <3>1. a0' = Wraps(a0 + a2) /\ a0 + a2 \in Int
      BY <2>1, <1>2, <1>3
    <3> QED BY <3>1, <2>1, WrapsFacts
  <2>2. CASE a3' = 0
    <3>1. a0' = a0 - 0 * WORD /\ 0 \in Int
      BY <2>2, <1>2, <1>3
    <3> QED BY <3>1, <2>2
  <2> QED BY <2>1, <2>2, <1>4
<1>9. PICK j \in Int : a0' = (IF a3' = 1 THEN a0 + a2 ELSE a0) - j * WORD
  BY <1>8
<1>10. a0' \in Word /\ a2' \in Word
  BY <1>1, <1>2, <1>3, WrapsFacts, a0 + a2 \in Int, 2 * a2 \in Int
<1>11. a0' \in Int /\ a2' \in Int
  BY <1>10, WordFacts
<1>12. \E l \in Int : a0' + a1' * a2' = call.x * call.y + l * WORD
  <2>1. /\ a1' * a2' = 2 * (a1' * a2) - (a1' * i) * WORD
        /\ a1 * a2 = 2 * (a1' * a2) + a3' * a2
        /\ k * WORD - (j * WORD + (a1' * i) * WORD) = (k - (j + a1' * i)) * WORD
        /\ k - (j + a1' * i) \in Int
    <3>1. a1' \in Int /\ a2 \in Int /\ WORD \in Int /\ a3' \in Int
      BY <1>3, <1>4
    <3>2. a1' * (2 * a2 - i * WORD) = 2 * (a1' * a2) - (a1' * i) * WORD
      BY <3>1, MulDistributes
    <3>3. (2 * a1' + a3') * a2 = 2 * (a1' * a2) + a3' * a2
      BY <3>1, MulDistributes
    <3>4. k * WORD - (j * WORD + (a1' * i) * WORD) = (k - (j + a1' * i)) * WORD /\ k - (j + a1' * i) \in Int
      BY <3>1, MulDistributes
    <3>5. a1 * a2 = (2 * a1' + a3') * a2 /\ a1' * a2' = a1' * (2 * a2 - i * WORD)
      BY <1>4, <1>7
    <3> QED BY <3>2, <3>3, <3>4, <3>5
  <2>2. a0' = a0 + a3' * a2 - j * WORD
    <3>1. CASE a3' = 1
      BY <3>1, <1>3, <1>9
    <3>2. CASE a3' = 0
      BY <3>2, <1>3, <1>9
    <3> QED BY <3>1, <3>2, <1>4
  <2>3. a0' + a1' * a2' = a0 + a1 * a2 - (j * WORD + (a1' * i) * WORD)
    BY <2>1, <2>2, <1>3, <1>4
  <2>4. a0' + a1' * a2' = call.x * call.y + (k * WORD - (j * WORD + (a1' * i) * WORD))
    BY <2>3, <1>3, <1>4, <1>5, <1>6
  <2>5. a0' + a1' * a2' = call.x * call.y + (k - (j + a1' * i)) * WORD
    BY <2>1, <2>4
  <2> QED BY <2>1, <2>5, Zenon
<1>13. RegTypes'
  BY <1>1, <1>2, <1>4, <1>10 DEF RegTypes, Labels
<1>14. AtMul'
  BY <1>1, <1>2, <1>12 DEF AtMul, MulHolds
<1>15. AtDone'
  <2> SUFFICES ASSUME a1' = 0 PROVE a0' = Wraps(call.x * call.y)
    BY <1>1, <1>2 DEF AtDone, Returned
  <2>1. PICK l \in Int : a0' + a1' * a2' = call.x * call.y + l * WORD
    BY <1>12
  <2>2. a0' = call.x * call.y + l * WORD
    BY <2>1, <1>11
  <2> QED BY <2>2, <1>5, <1>10, MulEnds
<1> QED BY <1>2, <1>13, <1>14, <1>15 DEF LibInv, InDivision, AtEntry, AtUDiv, AtL1, AtL3, AtL5

(***************************************************************************)
(* The theorem.                                                            *)
(***************************************************************************)
LEMMA LibInductive == LibInv /\ [LNext]_lvars => LibInv'
<1> SUFFICES ASSUME LibInv, [LNext]_lvars PROVE LibInv'
  OBVIOUS
<1>1. CASE LNext
  BY <1>1, CallsKeep, UDivEntryKeeps, L1Keeps, L3Keeps, L5Keeps, MulKeeps, MulStepKeeps DEF LNext
<1>2. CASE UNCHANGED lvars
  BY <1>2 DEF lvars, LibInv, RegTypes, AtEntry, InDivision, AtUDiv, AtL1, AtL3, L3Holds, AtL5, AtMul, MulHolds, AtDone
<1> QED BY <1>1, <1>2

\* Every step goes on to a later place, or turns a loop that ends.
LEMMA LibNearer == LibInv /\ LibInv' /\ LNext => Nearer /\ LoopLeft \in Nat
<1> SUFFICES ASSUME LibInv, LibInv', LNext PROVE Nearer /\ LoopLeft \in Nat
  OBVIOUS
<1>1. /\ a1 \in Nat /\ a2 \in Nat /\ a3 \in Nat /\ a1' \in Nat /\ a2' \in Nat /\ a3' \in Nat /\ WORD \in Nat
      /\ a2 < WORD /\ a2' < WORD /\ at \in Labels
  BY WordFacts DEF LibInv, RegTypes
<1>2. LoopLeft \in Nat
  BY <1>1 DEF LoopLeft, Labels
<1>3. CASE UDiv \/ UMod \/ Div \/ Mod
  <2>1. at = "entry" /\ at' = "__udivsi3"
    BY <1>3 DEF UDiv, UMod, Div, Mod, Called, Divide
  <2> QED BY <2>1, <1>2 DEF Nearer, CodeLeft
<1>4. CASE UDivEntry
  <2>1. at = "__udivsi3" /\ at' \in {".L1", ".L3", ".L5"}
    BY <1>4 DEF UDivEntry
  <2> QED BY <2>1, <1>2 DEF Nearer, CodeLeft
<1>5. CASE L1
  <2>1. at = ".L1" /\ (at' = ".L3" \/ (at' = ".L1" /\ Gtz(a2) /\ a2' = Wraps(2 * a2)))
    BY <1>5 DEF L1
  <2>2. at' = ".L1" => a2' > a2
    <3> SUFFICES ASSUME Gtz(a2), a2' = Wraps(2 * a2) PROVE a2' > a2
      BY <2>1
    <3>1. a2 > 0 /\ 2 * a2 < WORD
      BY <1>1 DEF Gtz, Ltz
    <3>2. 2 * a2 \in Word /\ 2 * a2 \in Int
      BY <3>1, <1>1 DEF Word
    <3> QED BY <3>1, <3>2, <1>1, WrapsFacts
  <2>3. at' = ".L1" => LoopLeft' < LoopLeft
    BY <2>1, <2>2, <1>1 DEF LoopLeft
  <2> QED BY <2>1, <2>3, <1>2 DEF Nearer, CodeLeft
<1>6. CASE L3
  <2>1. at = ".L3" /\ a3' = a3 \div 2 /\ at' = (IF a3' # 0 THEN ".L3" ELSE ".L5")
    BY <1>6 DEF L3
  <2>2. a3' # 0 => a3' < a3
    BY <2>1, <1>1
  <2>3. at' = ".L3" => LoopLeft' < LoopLeft
    BY <2>1, <2>2 DEF LoopLeft
  <2> QED BY <2>1, <2>3, <1>2 DEF Nearer, CodeLeft
<1>7. CASE L5
  <2>1. at = ".L5" /\ at' = "done"
    BY <1>7 DEF L5
  <2> QED BY <2>1, <1>2 DEF Nearer, CodeLeft
<1>8. CASE Mul
  <2>1. at = "entry" /\ at' = "mul"
    BY <1>8 DEF Mul, Called
  <2> QED BY <2>1, <1>2 DEF Nearer, CodeLeft
<1>9. CASE MulStep
  <2>1. at = "mul" /\ a1' = a1 \div 2 /\ at' = (IF a1' # 0 THEN "mul" ELSE "done")
    BY <1>9 DEF MulStep
  <2>2. a1' # 0 => a1' < a1
    BY <2>1, <1>1
  <2>3. at' = "mul" => LoopLeft' < LoopLeft
    BY <2>1, <2>2 DEF LoopLeft
  <2> QED BY <2>1, <2>3, <1>2 DEF Nearer, CodeLeft
<1> QED BY <1>3, <1>4, <1>5, <1>6, <1>7, <1>8, <1>9 DEF LNext

\* div.S, muldi3.S: whatever the width of a word and the operands, every routine comes nearer to its end with every step and ends
\* with the quotient, remainder or product that RISC-V defines, the zero divisor and the overflowing quotient included.
THEOREM RoutinesCorrect == LSpec => RoutinesRight
<1>1. LInit => LibInv
  BY LibInitially
<1>2. LibInv /\ [LNext]_lvars => LibInv'
  BY LibInductive
<1>3. LibInv /\ LibInv' /\ [LNext]_lvars => [RoutineStep]_lvars
  <2> SUFFICES ASSUME LibInv, LibInv', LNext PROVE RoutineStep
    OBVIOUS
  <2>1. at' = "done" => a0' = Returned(call')
    BY DEF LibInv, AtDone
  <2>2. call' = call
    BY DEF LNext, UDiv, UMod, Div, Mod, Divide, UDivEntry, L1, L3, L5, Mul, MulStep
  <2> QED BY <2>1, <2>2, LibNearer DEF RoutineStep
<1> QED BY <1>1, <1>2, <1>3, PTL DEF LSpec, RoutinesRight

(***************************************************************************)
(* Synchronisation of the configuration.                                   *)
(***************************************************************************)
\* What conf_sync[<<config, b>>] will put into the headers, b being any auto.conf.
Settles(c, f) == \A b \in AutoFiles : conf_sync[<<c, b>>].tmp = f
InTodo(s) == \E k \in DOMAIN todo : todo[k] = s

\* The types of ConfSync's files.
SyncTypes ==
    /\ config \in ConfigFiles /\ header \in AutoFiles /\ auto \in AutoFiles /\ tmp \in AutoFiles
    /\ todo \in Seq(Names) /\ newer \in SUBSET Names
    /\ pc \in {"idle", "touch", "renamed"}
    /\ DOMAIN built = Names
\* While files are touched, a symbol that changes is touched or will be.
ChangesCovered ==
    pc # "idle" => \A s \in Names : ValueIn(tmp, s) # ValueIn(auto, s) => s \in newer \/ InTodo(s)
\* A torn pair of files is repaired by the same synchronisation, and by no other.
TornSettles == Torn => Settles(config, header)
TmpSettles == pc # "idle" => Settles(config, tmp)
RenamedHeader == pc = "renamed" => header = tmp /\ todo = <<>>
SyncInv == SyncTypes /\ ObjectsCurrent /\ ChangesCovered /\ TornSettles /\ TmpSettles /\ RenamedHeader

LEMMA SyncResult ==
  ASSUME NEW c \in ConfigFiles, NEW a \in AutoFiles
  PROVE  /\ conf_sync[<<c, a>>].config \in ConfigFiles
         /\ conf_sync[<<c, a>>].touch \in Seq(Names)
         /\ conf_sync[<<c, a>>].tmp \in AutoFiles
         /\ Settles(conf_sync[<<c, a>>].config, conf_sync[<<c, a>>].tmp)
         /\ \A s \in Names : ValueIn(conf_sync[<<c, a>>].tmp, s) # ValueIn(a, s) =>
                \E k \in DOMAIN conf_sync[<<c, a>>].touch : conf_sync[<<c, a>>].touch[k] = s
<1> DEFINE r == conf_sync[<<c, a>>]
<1>1. r \in [config : ConfigFiles, touch : Seq(Names), tmp : AutoFiles]
  BY SyncAssumption DEF FilesAssumption
<1>2. r.config \in ConfigFiles /\ r.touch \in Seq(Names) /\ r.tmp \in AutoFiles
  BY <1>1
<1>3. Settles(r.config, r.tmp)
  BY SyncAssumption DEF SettledAssumption, Settles
<1>4. \A s \in Names : ValueIn(r.tmp, s) # ValueIn(a, s) => \E k \in DOMAIN r.touch : r.touch[k] = s
  BY SyncAssumption DEF TouchAssumption
<1> QED BY <1>2, <1>3, <1>4

LEMMA SyncInitially == SInit => SyncInv
<1> SUFFICES ASSUME SInit PROVE SyncInv
  OBVIOUS
<1>1. SyncTypes
  BY SyncAssumption DEF SInit, SyncTypes, FilesAssumption
<1>2. ObjectsCurrent
  BY DEF SInit, ObjectsCurrent
<1>3. ChangesCovered /\ TornSettles /\ TmpSettles /\ RenamedHeader
  BY DEF SInit, ChangesCovered, TornSettles, TmpSettles, RenamedHeader, Torn
<1> QED BY <1>1, <1>2, <1>3 DEF SyncInv

LEMMA EditKeeps == SyncInv /\ EditConfig => SyncInv'
<1> SUFFICES ASSUME SyncInv, EditConfig PROVE SyncInv'
  OBVIOUS
<1>1. SyncTypes'
  BY SyncAssumption DEF SyncInv, SyncTypes, EditConfig, FilesAssumption
<1>2. ObjectsCurrent'
  BY DEF SyncInv, ObjectsCurrent, EditConfig
<1>3. (ChangesCovered /\ TornSettles /\ TmpSettles /\ RenamedHeader)'
  BY DEF EditConfig, ChangesCovered, TornSettles, TmpSettles, RenamedHeader, Torn
<1> QED BY <1>1, <1>2, <1>3 DEF SyncInv

LEMMA StartKeeps == SyncInv /\ StartSync => SyncInv'
<1> SUFFICES ASSUME SyncInv, StartSync PROVE SyncInv'
  OBVIOUS
<1> DEFINE r == conf_sync[<<config, auto>>]
<1>1. config \in ConfigFiles /\ auto \in AutoFiles
  BY DEF SyncInv, SyncTypes
<1>2. /\ config' = r.config /\ todo' = r.touch /\ tmp' = r.tmp /\ pc' = "touch" /\ pc = "idle"
      /\ header' = header /\ auto' = auto /\ newer' = newer /\ built' = built
  BY DEF StartSync
<1>3. /\ r.config \in ConfigFiles /\ r.touch \in Seq(Names) /\ r.tmp \in AutoFiles /\ Settles(r.config, r.tmp)
      /\ \A s \in Names : ValueIn(r.tmp, s) # ValueIn(auto, s) => \E k \in DOMAIN r.touch : r.touch[k] = s
  BY <1>1, SyncResult
<1> HIDE DEF r
<1>4. SyncTypes'
  BY <1>2, <1>3 DEF SyncInv, SyncTypes
<1>5. ObjectsCurrent'
  BY <1>2 DEF SyncInv, ObjectsCurrent
<1>6. ChangesCovered'
  BY <1>2, <1>3 DEF ChangesCovered, InTodo
<1>7. TmpSettles'
  BY <1>2, <1>3 DEF TmpSettles, Settles
<1>8. TornSettles'
  <2>1. Torn => r.tmp = header
    BY <1>1 DEF SyncInv, TornSettles, Settles, r
  <2> QED BY <2>1, <1>2, <1>3 DEF TornSettles, Torn, Settles
<1>9. RenamedHeader'
  BY <1>2 DEF RenamedHeader
<1> QED BY <1>4, <1>5, <1>6, <1>7, <1>8, <1>9 DEF SyncInv

LEMMA TouchKeeps == SyncInv /\ TouchDep => SyncInv'
<1> SUFFICES ASSUME SyncInv, TouchDep PROVE SyncInv'
  OBVIOUS
<1>1. todo \in Seq(Names) /\ todo # <<>>
  BY DEF SyncInv, SyncTypes, TouchDep
<1>2. Head(todo) \in Names /\ Tail(todo) \in Seq(Names)
  BY <1>1, HeadTailProperties
<1>3. \A s : InTodo(s) => s = Head(todo) \/ \E k \in DOMAIN Tail(todo) : Tail(todo)[k] = s
  <2>d. DOMAIN todo = 1 .. Len(todo) /\ DOMAIN Tail(todo) = 1 .. Len(Tail(todo))
    BY <1>1, <1>2
  <2> SUFFICES ASSUME NEW s, NEW k \in DOMAIN todo, todo[k] = s, s # Head(todo)
               PROVE  \E j \in DOMAIN Tail(todo) : Tail(todo)[j] = s
    BY Zenon DEF InTodo
  <2>1. k # 1
    BY <1>1
  <2>2. k - 1 \in DOMAIN Tail(todo) /\ Tail(todo)[k - 1] = todo[k]
    BY <1>1, <2>1, <2>d
  <2> QED BY <2>2
<1>4. SyncTypes'
  BY <1>2 DEF SyncInv, SyncTypes, TouchDep
<1>5. ObjectsCurrent'
  BY DEF SyncInv, ObjectsCurrent, TouchDep
<1>6. ChangesCovered'
  BY <1>3 DEF SyncInv, ChangesCovered, TouchDep, InTodo
<1>7. TmpSettles' /\ TornSettles' /\ RenamedHeader'
  BY DEF SyncInv, TmpSettles, TornSettles, RenamedHeader, TouchDep, Torn, Settles
<1> QED BY <1>4, <1>5, <1>6, <1>7 DEF SyncInv

\* Replacing autoconf.h changes nothing for an object whose files are not newer.
LEMMA FirstRenameKeeps == SyncInv /\ FirstRename => SyncInv'
<1> SUFFICES ASSUME SyncInv, FirstRename PROVE SyncInv'
  OBVIOUS
<1>1. /\ header' = tmp /\ auto' = auto /\ pc = "touch" /\ pc' = "renamed" /\ todo = <<>>
      /\ config' = config /\ todo' = todo /\ tmp' = tmp /\ newer' = newer /\ built' = built
  BY DEF FirstRename, Rename, RenameOrder
<1>2. SyncTypes'
  BY <1>1 DEF SyncInv, SyncTypes
<1>3. \A s \in Names \ newer : ValueIn(tmp, s) = ValueIn(header, s)
  <2>1. CASE Torn
    <3>1. auto \in AutoFiles /\ Settles(config, header) /\ Settles(config, tmp)
      BY <2>1, <1>1 DEF SyncInv, SyncTypes, TornSettles, TmpSettles
    <3>2. conf_sync[<<config, auto>>].tmp = header
      BY <3>1 DEF Settles
    <3>3. conf_sync[<<config, auto>>].tmp = tmp
      BY <3>1 DEF Settles
    <3> QED BY <3>2, <3>3
  <2>2. CASE ~Torn
    <3>1. \A s \in Names : ValueIn(tmp, s) # ValueIn(auto, s) => s \in newer
      BY <1>1 DEF SyncInv, ChangesCovered, InTodo
    <3> QED BY <3>1, <2>2 DEF Torn
  <2> QED BY <2>1, <2>2
<1>4. ObjectsCurrent'
  BY <1>1, <1>3 DEF SyncInv, ObjectsCurrent
<1>5. ChangesCovered'
  BY <1>1 DEF SyncInv, ChangesCovered, InTodo
<1>6. TmpSettles' /\ TornSettles' /\ RenamedHeader'
  BY <1>1 DEF SyncInv, TmpSettles, TornSettles, RenamedHeader, Torn, Settles
<1> QED BY <1>2, <1>4, <1>5, <1>6 DEF SyncInv

LEMMA LastRenameKeeps == SyncInv /\ LastRename => SyncInv'
<1> SUFFICES ASSUME SyncInv, LastRename PROVE SyncInv'
  OBVIOUS
<1>1. /\ header' = header /\ auto' = tmp /\ pc = "renamed" /\ pc' = "idle"
      /\ config' = config /\ todo' = todo /\ tmp' = tmp /\ newer' = newer /\ built' = built
  BY DEF LastRename, Rename, RenameOrder
<1>2. SyncTypes'
  BY <1>1 DEF SyncInv, SyncTypes
<1>3. ObjectsCurrent'
  BY <1>1 DEF SyncInv, ObjectsCurrent
<1>4. (ChangesCovered /\ TmpSettles /\ TornSettles /\ RenamedHeader)'
  BY <1>1 DEF SyncInv, ChangesCovered, TmpSettles, TornSettles, RenamedHeader, Torn
<1> QED BY <1>2, <1>3, <1>4 DEF SyncInv

LEMMA StoppedKeeps == SyncInv /\ Stopped => SyncInv'
<1> SUFFICES ASSUME SyncInv, Stopped PROVE SyncInv'
  OBVIOUS
<1>1. SyncTypes'
  BY DEF SyncInv, SyncTypes, Stopped
<1>2. ObjectsCurrent'
  BY DEF SyncInv, ObjectsCurrent, Stopped
<1>3. (ChangesCovered /\ TmpSettles /\ TornSettles /\ RenamedHeader)'
  BY DEF SyncInv, ChangesCovered, TmpSettles, TornSettles, RenamedHeader, Torn, Settles, Stopped
<1> QED BY <1>1, <1>2, <1>3 DEF SyncInv

LEMMA CompileKeeps == ASSUME NEW s \in Names, SyncInv, Compile(s) PROVE SyncInv'
<1>1. SyncTypes'
  BY DEF SyncInv, SyncTypes, Compile
<1>2. ObjectsCurrent'
  BY DEF SyncInv, SyncTypes, ObjectsCurrent, Compile
<1>3. (ChangesCovered /\ TmpSettles /\ TornSettles /\ RenamedHeader)'
  BY DEF SyncInv, ChangesCovered, TmpSettles, TornSettles, RenamedHeader, Torn, Settles, Compile
<1> QED BY <1>1, <1>2, <1>3 DEF SyncInv

LEMMA SyncUnchanged == SyncInv /\ UNCHANGED svars => SyncInv'
BY DEF SyncInv, SyncTypes, ObjectsCurrent, ChangesCovered, TmpSettles, TornSettles, RenamedHeader, Torn, Settles, InTodo, svars

\* confdata.c: an object that make takes for current is current, for any Kconfig files, any number of symbols and objects, wherever
\* conf --syncconfig was stopped and however often.
THEOREM ObjectsStayCurrent == SSpec => []ObjectsCurrent
<1>1. SInit => SyncInv
  BY SyncInitially
<1>2. SyncInv /\ [SNext]_svars => SyncInv'
  BY EditKeeps, StartKeeps, TouchKeeps, FirstRenameKeeps, LastRenameKeeps, StoppedKeeps, CompileKeeps, SyncUnchanged DEF SNext
<1>3. SyncInv => ObjectsCurrent
  BY DEF SyncInv
<1> QED BY <1>1, <1>2, <1>3, PTL DEF SSpec

(***************************************************************************)
(* Decoding: a word that two patterns match has the same fields in both,   *)
(* and no two patterns of a list have.                                     *)
(***************************************************************************)
\* What a pattern says of a word.
LEMMA OpMatches ==
    ASSUME NEW i \in InstWord, NEW a, Matches(i, Op(a)) PROVE i.lo = 3 /\ i.op = a
BY DEF Matches, Op

LEMMA OpF3Matches ==
    ASSUME NEW i \in InstWord, NEW a, NEW b, Matches(i, OpF3(a, b)) PROVE i.lo = 3 /\ i.op = a /\ i.f3 = b
BY DEF Matches, OpF3

LEMMA OpF7Matches ==
    ASSUME NEW i \in InstWord, NEW a, NEW b, NEW c, Matches(i, OpF7(a, b, c)) PROVE i.lo = 3 /\ i.op = a /\ i.f3 = b /\ i.f7 = c
BY DEF Matches, OpF7

LEMMA ExactMatches ==
    ASSUME NEW i \in InstWord, NEW a, NEW b, Matches(i, Exact(a, b))
    PROVE  i.lo = 3 /\ i.f7 = a /\ i.rs2 = b /\ i.rs1 = 0 /\ i.f3 = 0 /\ i.rd = 0 /\ i.op = 28
BY DEF Matches, Exact

\* The fields the patterns of NEMU with one opcode differ in.
Funct3Of24 == [beq |-> 0, bne |-> 1, blt |-> 4, bge |-> 5, bltu |-> 6, bgeu |-> 7]
Funct3Of0 == [lb |-> 0, lh |-> 1, lw |-> 2, lbu |-> 4, lhu |-> 5]
Funct3Of8 == [sb |-> 0, sh |-> 1, sw |-> 2]
Funct3Of3 == [fence |-> 0, fence_i |-> 1]
Funct3Of4 == [addi |-> 0, slti |-> 2, sltiu |-> 3, xori |-> 4, ori |-> 6, andi |-> 7, slli |-> 1, srli |-> 5, srai |-> 5]
Funct7Of4 == [slli |-> 0, srli |-> 0, srai |-> 32]
Funct3Of12 == [add |-> 0, sub |-> 0, sll |-> 1, slt |-> 2, sltu |-> 3, xor |-> 4, srl |-> 5, sra |-> 5, or |-> 6, and |-> 7,
               mul |-> 0, mulh |-> 1, mulhsu |-> 2, mulhu |-> 3, div |-> 4, divu |-> 5, rem |-> 6, remu |-> 7]
Funct7Of12 == [add |-> 0, sub |-> 32, sll |-> 0, slt |-> 0, sltu |-> 0, xor |-> 0, srl |-> 0, sra |-> 32, or |-> 0, and |-> 0,
               mul |-> 1, mulh |-> 1, mulhsu |-> 1, mulhu |-> 1, div |-> 1, divu |-> 1, rem |-> 1, remu |-> 1]
Funct3Of28 == [ecall |-> 0, ebreak |-> 0, mret |-> 0, csrrw |-> 1, csrrs |-> 2, csrrc |-> 3, csrrwi |-> 5, csrrsi |-> 6, csrrci |-> 7]
Rs2Of28 == [ecall |-> 0, ebreak |-> 1, mret |-> 2]

\* No word matches two patterns of decode_exec: a common word would give both patterns one opcode, and within an opcode one
\* value of the fields the patterns differ in.
LEMMA NemuUnique ==
    ASSUME NEW i \in InstWord, NEW m \in Tried(i, nemu_patterns), NEW n \in Tried(i, nemu_patterns)
    PROVE  m = n
<1> DEFINE Hit(k) == k \in DOMAIN nemu_patterns /\ Matches(i, nemu_patterns[k].pat)
<1>0. Hit(m) /\ Hit(n)
  BY DEF Tried
<1> HIDE DEF Hit
<1>24. \A k \in DOMAIN Funct3Of24 : Hit(k) => i.op = 24 /\ i.f3 = Funct3Of24[k]
  <2>1. \A k \in DOMAIN Funct3Of24 : nemu_patterns[k].pat = OpF3(24, Funct3Of24[k])
    BY DEF nemu_patterns, P, Funct3Of24
  <2> QED BY <2>1, OpF3Matches DEF Hit
<1>0a. \A k \in DOMAIN Funct3Of0 : Hit(k) => i.op = 0 /\ i.f3 = Funct3Of0[k]
  <2>1. \A k \in DOMAIN Funct3Of0 : nemu_patterns[k].pat = OpF3(0, Funct3Of0[k])
    BY DEF nemu_patterns, P, Funct3Of0
  <2> QED BY <2>1, OpF3Matches DEF Hit
<1>8. \A k \in DOMAIN Funct3Of8 : Hit(k) => i.op = 8 /\ i.f3 = Funct3Of8[k]
  <2>1. \A k \in DOMAIN Funct3Of8 : nemu_patterns[k].pat = OpF3(8, Funct3Of8[k])
    BY DEF nemu_patterns, P, Funct3Of8
  <2> QED BY <2>1, OpF3Matches DEF Hit
<1>3. \A k \in DOMAIN Funct3Of3 : Hit(k) => i.op = 3 /\ i.f3 = Funct3Of3[k]
  <2>1. \A k \in DOMAIN Funct3Of3 : nemu_patterns[k].pat = OpF3(3, Funct3Of3[k])
    BY DEF nemu_patterns, P, Funct3Of3
  <2> QED BY <2>1, OpF3Matches DEF Hit
<1>4. \A k \in DOMAIN Funct3Of4 : Hit(k) => i.op = 4 /\ i.f3 = Funct3Of4[k] /\ (k \in DOMAIN Funct7Of4 => i.f7 = Funct7Of4[k])
  <2>1. \A k \in DOMAIN Funct3Of4 \ DOMAIN Funct7Of4 : nemu_patterns[k].pat = OpF3(4, Funct3Of4[k])
    BY DEF nemu_patterns, P, Funct3Of4, Funct7Of4
  <2>2. \A k \in DOMAIN Funct7Of4 : nemu_patterns[k].pat = OpF7(4, Funct3Of4[k], Funct7Of4[k])
    BY DEF nemu_patterns, P, Funct3Of4, Funct7Of4
  <2>3. ASSUME NEW k \in DOMAIN Funct3Of4 \ DOMAIN Funct7Of4, Hit(k) PROVE i.op = 4 /\ i.f3 = Funct3Of4[k]
    BY <2>1, <2>3, OpF3Matches DEF Hit
  <2>4. ASSUME NEW k \in DOMAIN Funct7Of4, Hit(k) PROVE i.op = 4 /\ i.f3 = Funct3Of4[k] /\ i.f7 = Funct7Of4[k]
    BY <2>2, <2>4, OpF7Matches DEF Hit
  <2> QED BY <2>3, <2>4
<1>12. \A k \in DOMAIN Funct3Of12 : Hit(k) => i.op = 12 /\ i.f3 = Funct3Of12[k] /\ i.f7 = Funct7Of12[k]
  <2>1. \A k \in DOMAIN Funct3Of12 : nemu_patterns[k].pat = OpF7(12, Funct3Of12[k], Funct7Of12[k])
    BY DEF nemu_patterns, P, Funct3Of12, Funct7Of12
  <2> QED BY <2>1, OpF7Matches DEF Hit
<1>28. \A k \in DOMAIN Funct3Of28 : Hit(k) => i.op = 28 /\ i.f3 = Funct3Of28[k] /\ (k \in DOMAIN Rs2Of28 => i.rs2 = Rs2Of28[k])
  <2>1. \A k \in DOMAIN Funct3Of28 \ DOMAIN Rs2Of28 : nemu_patterns[k].pat = OpF3(28, Funct3Of28[k])
    BY DEF nemu_patterns, P, Funct3Of28, Rs2Of28
  <2>2. \A k \in DOMAIN Rs2Of28 : Funct3Of28[k] = 0 /\ nemu_patterns[k].pat = Exact(IF k = "mret" THEN 24 ELSE 0, Rs2Of28[k])
    BY DEF nemu_patterns, P, Funct3Of28, Rs2Of28
  <2>3. ASSUME NEW k \in DOMAIN Funct3Of28 \ DOMAIN Rs2Of28, Hit(k) PROVE i.op = 28 /\ i.f3 = Funct3Of28[k]
    BY <2>1, <2>3, OpF3Matches DEF Hit
  <2>4. ASSUME NEW k \in DOMAIN Rs2Of28, Hit(k) PROVE i.op = 28 /\ i.f3 = 0 /\ i.rs2 = Rs2Of28[k]
    BY <2>2, <2>4, ExactMatches DEF Hit
  <2> QED BY <2>2, <2>3, <2>4
<1>1. /\ Hit("lui") => i.op = 13 
      /\ Hit("auipc") => i.op = 5
      /\ Hit("jal") => i.op = 27
      /\ Hit("jalr") => i.op = 25
  <2>1. /\ nemu_patterns["lui"].pat = Op(13) /\ nemu_patterns["auipc"].pat = Op(5) /\ nemu_patterns["jal"].pat = Op(27)
        /\ nemu_patterns["jalr"].pat = OpF3(25, 0)
    BY DEF nemu_patterns, P
  <2> QED BY <2>1, OpMatches, OpF3Matches DEF Hit
<1>2. \A k : Hit(k) => k \in {"lui", "auipc", "jal", "jalr"} \cup DOMAIN Funct3Of24 \cup DOMAIN Funct3Of0 \cup DOMAIN Funct3Of8
                         \cup DOMAIN Funct3Of3 \cup DOMAIN Funct3Of4 \cup DOMAIN Funct3Of12 \cup DOMAIN Funct3Of28
  BY DEF Hit, nemu_patterns, Funct3Of24, Funct3Of0, Funct3Of8, Funct3Of3, Funct3Of4, Funct3Of12, Funct3Of28
<1>5. CASE i.op \in {13, 5, 27, 25}
  BY <1>0, <1>1, <1>2, <1>24, <1>0a, <1>8, <1>3, <1>4, <1>12, <1>28, <1>5
<1>6. CASE i.op = 24
  BY <1>0, <1>1, <1>2, <1>24, <1>0a, <1>8, <1>3, <1>4, <1>12, <1>28, <1>6 DEF Funct3Of24
<1>7. CASE i.op \in {0, 8, 3}
  BY <1>0, <1>1, <1>2, <1>24, <1>0a, <1>8, <1>3, <1>4, <1>12, <1>28, <1>7 DEF Funct3Of0, Funct3Of8, Funct3Of3
<1>9. CASE i.op = 4
  BY <1>0, <1>1, <1>2, <1>24, <1>0a, <1>8, <1>3, <1>4, <1>12, <1>28, <1>9 DEF Funct3Of4, Funct7Of4
<1>10. CASE i.op = 12
  BY <1>0, <1>1, <1>2, <1>24, <1>0a, <1>8, <1>3, <1>4, <1>12, <1>28, <1>10 DEF Funct3Of12, Funct7Of12
<1>11. CASE i.op = 28
  BY <1>0, <1>1, <1>2, <1>24, <1>0a, <1>8, <1>3, <1>4, <1>12, <1>28, <1>11 DEF Funct3Of28, Rs2Of28
<1> QED BY <1>0, <1>1, <1>2, <1>24, <1>0a, <1>8, <1>3, <1>4, <1>12, <1>28, <1>5, <1>6, <1>7, <1>9, <1>10, <1>11

\* Every integer gives a word.
LEMMA WordTypes ==
    ASSUME NEW n \in Int
    PROVE  WordOf(n) \in DataWord
BY DEF WordOf, DataWord, Bytes, Byte, ByteAt
\* A sum of two bytes and a carry is a byte and a carry.
LEMMA CarryOut ==
    ASSUME NEW s \in 0 .. 511
    PROVE  s \div 256 \in {0, 1} /\ s % 256 \in 0 .. 255 /\ s % 256 = s - 256 * (s \div 256)
OBVIOUS

\* The bytes of a sum: each takes the carry of the one below.
LEMMA SumBytes ==
    ASSUME NEW a \in DataWord, NEW b \in DataWord
    PROVE  /\ AddW(a, b) \in DataWord
           /\ \E c1, c2, c3, c4 \in {0, 1} :
                 /\ AddW(a, b)[0] = a[0] + b[0] - 256 * c1
                 /\ AddW(a, b)[1] = a[1] + b[1] + c1 - 256 * c2
                 /\ AddW(a, b)[2] = a[2] + b[2] + c2 - 256 * c3
                 /\ AddW(a, b)[3] = a[3] + b[3] + c3 - 256 * c4
<1> DEFINE w0 == a[0]  w1 == a[1]  w2 == a[2]  w3 == a[3]  b0 == b[0]  b1 == b[1]  b2 == b[2]  b3 == b[3]
           s0 == w0 + b0
           c1 == s0 \div 256
           s1 == w1 + b1 + c1
           c2 == s1 \div 256
           s2 == w2 + b2 + c2
           c3 == s2 \div 256
           s3 == w3 + b3 + c3
           c4 == s3 \div 256
<1>1. /\ w0 \in 0 .. 255 /\ w1 \in 0 .. 255 /\ w2 \in 0 .. 255 /\ w3 \in 0 .. 255
      /\ b0 \in 0 .. 255 /\ b1 \in 0 .. 255 /\ b2 \in 0 .. 255 /\ b3 \in 0 .. 255
  BY DEF DataWord, Bytes, Byte
<1>2. AddW(a, b) = [k \in Bytes |-> (CASE k = 0 -> s0 [] k = 1 -> s1 [] k = 2 -> s2 [] k = 3 -> s3) % 256]
  BY DEF AddW
<1> HIDE DEF w0, w1, w2, w3, b0, b1, b2, b3
<1>30. s0 \in 0 .. 511
  BY <1>1
<1> HIDE DEF s0
<1>3. c1 \in {0, 1} /\ s0 % 256 \in 0 .. 255 /\ s0 % 256 = s0 - 256 * c1
  BY <1>30, CarryOut
<1> HIDE DEF c1
<1>40. s1 \in 0 .. 511
  BY <1>1, <1>3
<1> HIDE DEF s1
<1>4. c2 \in {0, 1} /\ s1 % 256 \in 0 .. 255 /\ s1 % 256 = s1 - 256 * c2
  BY <1>40, CarryOut
<1> HIDE DEF c2
<1>50. s2 \in 0 .. 511
  BY <1>1, <1>4
<1> HIDE DEF s2
<1>5. c3 \in {0, 1} /\ s2 % 256 \in 0 .. 255 /\ s2 % 256 = s2 - 256 * c3
  BY <1>50, CarryOut
<1> HIDE DEF c3
<1>60. s3 \in 0 .. 511
  BY <1>1, <1>5
<1> HIDE DEF s3
<1>6. c4 \in {0, 1} /\ s3 % 256 \in 0 .. 255 /\ s3 % 256 = s3 - 256 * c4
  BY <1>60, CarryOut
<1> HIDE DEF c4
<1>7. /\ AddW(a, b)[0] = s0 % 256 /\ AddW(a, b)[1] = s1 % 256 /\ AddW(a, b)[2] = s2 % 256 /\ AddW(a, b)[3] = s3 % 256
  BY <1>2 DEF Bytes
<1>8. AddW(a, b) \in DataWord
  <2>1. DOMAIN AddW(a, b) = Bytes /\ AddW(a, b) = [k \in Bytes |-> AddW(a, b)[k]]
    BY <1>2
  <2>2. ASSUME NEW k \in Bytes PROVE AddW(a, b)[k] \in Byte
    BY <1>3, <1>4, <1>5, <1>6, <1>7 DEF Bytes, Byte
  <2> QED BY <2>1, <2>2 DEF DataWord
<1>9. /\ s0 = w0 + b0 /\ s1 = w1 + b1 + c1 /\ s2 = w2 + b2 + c2 /\ s3 = w3 + b3 + c3
  BY DEF s0, s1, s2, s3
<1>10. \E d1, d2, d3, d4 \in {0, 1} :
          /\ AddW(a, b)[0] = w0 + b0 - 256 * d1 /\ AddW(a, b)[1] = w1 + b1 + d1 - 256 * d2
          /\ AddW(a, b)[2] = w2 + b2 + d2 - 256 * d3 /\ AddW(a, b)[3] = w3 + b3 + d3 - 256 * d4
  <2> c1 \in {0, 1} /\ c2 \in {0, 1} /\ c3 \in {0, 1} /\ c4 \in {0, 1}
    BY <1>3, <1>4, <1>5, <1>6
  <2> WITNESS c1 \in {0, 1}, c2 \in {0, 1}, c3 \in {0, 1}, c4 \in {0, 1}
  <2>2. AddW(a, b)[0] = w0 + b0 - 256 * c1
    BY <1>1, <1>3, <1>4, <1>5, <1>6, <1>7, <1>9, <1>30
  <2>3. AddW(a, b)[1] = w1 + b1 + c1 - 256 * c2
    BY <1>1, <1>3, <1>4, <1>5, <1>6, <1>7, <1>9, <1>40
  <2>4. AddW(a, b)[2] = w2 + b2 + c2 - 256 * c3
    BY <1>1, <1>3, <1>4, <1>5, <1>6, <1>7, <1>9, <1>50
  <2>5. AddW(a, b)[3] = w3 + b3 + c3 - 256 * c4
    BY <1>1, <1>3, <1>4, <1>5, <1>6, <1>7, <1>9, <1>60
  <2> QED BY <2>2, <2>3, <2>4, <2>5
<1> QED BY <1>8, <1>10 DEF w0, w1, w2, w3, b0, b1, b2, b3

\* Complement and negation give words.
LEMMA NotType ==
    ASSUME NEW a \in DataWord
    PROVE  NotW(a) \in DataWord
BY DEF NotW, DataWord, Bytes, Byte

LEMMA NegType ==
    ASSUME NEW a \in DataWord
    PROVE  NegW(a) \in DataWord
BY WordTypes, SumBytes, NotType DEF NegW

\* The bytes of 0 and of 1.
LEMMA ZeroBytes == Zero = [k \in Bytes |-> 0] /\ WordOf(1) = [k \in Bytes |-> IF k = 0 THEN 1 ELSE 0]
BY DEF Zero, WordOf, ByteAt, Bytes

\* Two words with the same bytes are the same word.
LEMMA SameBytes ==
    ASSUME NEW a \in DataWord, NEW b \in DataWord
    PROVE  a = b <=> a[0] = b[0] /\ a[1] = b[1] /\ a[2] = b[2] /\ a[3] = b[3]
BY DEF DataWord, Bytes

\* Adding 0 changes nothing: the core computes lui as imm + 0.
LEMMA PlusZero == ASSUME NEW a \in DataWord PROVE AddW(a, Zero) = a
<1> DEFINE r == AddW(a, Zero)
           w0 == a[0]  w1 == a[1]  w2 == a[2]  w3 == a[3]
           r0 == r[0]  r1 == r[1]  r2 == r[2]  r3 == r[3]
<1>1. Zero \in DataWord /\ r \in DataWord /\ Zero[0] = 0 /\ Zero[1] = 0 /\ Zero[2] = 0 /\ Zero[3] = 0
  BY WordTypes, SumBytes, ZeroBytes DEF Zero, Bytes
<1>2. \E c1, c2, c3, c4 \in {0, 1} :
        r0 = w0 + 0 - 256 * c1 /\ r1 = w1 + 0 + c1 - 256 * c2 /\ r2 = w2 + 0 + c2 - 256 * c3 /\ r3 = w3 + 0 + c3 - 256 * c4
  BY <1>1, SumBytes
<1>3. /\ w0 \in 0 .. 255 /\ w1 \in 0 .. 255 /\ w2 \in 0 .. 255 /\ w3 \in 0 .. 255
      /\ r0 \in 0 .. 255 /\ r1 \in 0 .. 255 /\ r2 \in 0 .. 255 /\ r3 \in 0 .. 255
  BY <1>1 DEF DataWord, Bytes, Byte
<1>4. r0 = w0 /\ r1 = w1 /\ r2 = w2 /\ r3 = w3
  <2> HIDE DEF w0, w1, w2, w3, r0, r1, r2, r3
  <2> QED BY <1>2, <1>3
<1> QED BY <1>1, <1>4, SameBytes

\* A difference is 0 just where the operands are equal: the core decides beq and bne by a subtraction, NEMU by ==.
LEMMA DifferenceZero ==
    ASSUME NEW a \in DataWord, NEW b \in DataWord PROVE AddW(a, NegW(b)) = Zero <=> a = b
<1> DEFINE n == NotW(b)  m == NegW(b)  r == AddW(a, m)
           w0 == a[0]  w1 == a[1]  w2 == a[2]  w3 == a[3]
           b0 == b[0]  b1 == b[1]  b2 == b[2]  b3 == b[3]
           m0 == m[0]  m1 == m[1]  m2 == m[2]  m3 == m[3]
           n0 == n[0]  n1 == n[1]  n2 == n[2]  n3 == n[3]
           u0 == WordOf(1)[0]  u1 == WordOf(1)[1]  u2 == WordOf(1)[2]  u3 == WordOf(1)[3]
           r0 == r[0]  r1 == r[1]  r2 == r[2]  r3 == r[3]
<1>1. n \in DataWord /\ m \in DataWord /\ r \in DataWord /\ WordOf(1) \in DataWord /\ Zero \in DataWord /\ m = AddW(n, WordOf(1))
  BY NotType, NegType, WordTypes, SumBytes DEF NegW, Zero
<1>2. n0 = 255 - b0 /\ n1 = 255 - b1 /\ n2 = 255 - b2 /\ n3 = 255 - b3
  BY DEF NotW, Bytes
<1>3. /\ u0 = 1 /\ u1 = 0 /\ u2 = 0 /\ u3 = 0
      /\ Zero[0] = 0 /\ Zero[1] = 0 /\ Zero[2] = 0 /\ Zero[3] = 0
  BY ZeroBytes DEF Bytes
<1>4. \E c1, c2, c3, c4 \in {0, 1} :
        /\ m0 = n0 + u0 - 256 * c1 /\ m1 = n1 + u1 + c1 - 256 * c2
        /\ m2 = n2 + u2 + c2 - 256 * c3 /\ m3 = n3 + u3 + c3 - 256 * c4
  BY <1>1, SumBytes
<1>6. \E c1, c2, c3, c4 \in {0, 1} :
        /\ r0 = w0 + m0 - 256 * c1 /\ r1 = w1 + m1 + c1 - 256 * c2 /\ r2 = w2 + m2 + c2 - 256 * c3 /\ r3 = w3 + m3 + c3 - 256 * c4
  BY <1>1, SumBytes
<1>7. /\ w0 \in 0 .. 255 /\ w1 \in 0 .. 255 /\ w2 \in 0 .. 255 /\ w3 \in 0 .. 255
      /\ b0 \in 0 .. 255 /\ b1 \in 0 .. 255 /\ b2 \in 0 .. 255 /\ b3 \in 0 .. 255
      /\ m0 \in 0 .. 255 /\ m1 \in 0 .. 255 /\ m2 \in 0 .. 255 /\ m3 \in 0 .. 255
      /\ r0 \in 0 .. 255 /\ r1 \in 0 .. 255 /\ r2 \in 0 .. 255 /\ r3 \in 0 .. 255
  <2> HIDE DEF m, r
  <2> QED BY <1>1 DEF DataWord, Bytes, Byte
<1>8. r0 = 0 /\ r1 = 0 /\ r2 = 0 /\ r3 = 0 <=> w0 = b0 /\ w1 = b1 /\ w2 = b2 /\ w3 = b3
  <2> HIDE DEF w0, w1, w2, w3, b0, b1, b2, b3, m0, m1, m2, m3, n0, n1, n2, n3, u0, u1, u2, u3, r0, r1, r2, r3
  <2>0. PICK c1, c2, c3, c4 \in {0, 1} :
          /\ m0 = n0 + u0 - 256 * c1 /\ m1 = n1 + u1 + c1 - 256 * c2
          /\ m2 = n2 + u2 + c2 - 256 * c3 /\ m3 = n3 + u3 + c3 - 256 * c4
    BY <1>4
  <2>1. /\ m0 = (255 - b0) + 1 - 256 * c1 /\ m1 = (255 - b1) + 0 + c1 - 256 * c2
        /\ m2 = (255 - b2) + 0 + c2 - 256 * c3 /\ m3 = (255 - b3) + 0 + c3 - 256 * c4
    BY <1>2, <1>3, <2>0
  <2>2. PICK d1, d2, d3, d4 \in {0, 1} :
          /\ r0 = w0 + m0 - 256 * d1 /\ r1 = w1 + m1 + d1 - 256 * d2 /\ r2 = w2 + m2 + d2 - 256 * d3 /\ r3 = w3 + m3 + d3 - 256 * d4
    BY <1>6
  <2>3. (r0 = 0 <=> w0 = b0) /\ (r0 = 0 => c1 + d1 = 1)
    BY <1>7, <2>1, <2>2
  <2>4. c1 + d1 = 1 => (r1 = 0 <=> w1 = b1) /\ (r1 = 0 => c2 + d2 = 1)
    BY <1>7, <2>1, <2>2
  <2>5. c2 + d2 = 1 => (r2 = 0 <=> w2 = b2) /\ (r2 = 0 => c3 + d3 = 1)
    BY <1>7, <2>1, <2>2
  <2>6. c3 + d3 = 1 => (r3 = 0 <=> w3 = b3)
    BY <1>7, <2>1, <2>2
  <2> QED BY <2>3, <2>4, <2>5, <2>6
<1>9. r = Zero <=> r0 = 0 /\ r1 = 0 /\ r2 = 0 /\ r3 = 0
  <2> HIDE DEF r
  <2> QED BY <1>1, <1>3, SameBytes
<1> QED BY <1>8, <1>9, SameBytes

\* The lowest bit of a comparison's result: the core decides blt and bge by it.
LEMMA LsbBit == BIT(Lsb(TRUE), 0) = 1 /\ BIT(Lsb(FALSE), 0) # 1
BY DEF BIT, Lsb, WordOf, ByteAt, Bytes, BitValue

\* Sign extension gives an integer.
LEMMA SextInt == ASSUME NEW x \in Int, NEW top \in Int PROVE SEXT(x, top) \in Int
BY SMT DEF SEXT

\* Both decoders give every type an integer as the immediate.
LEMMA ImmTypes == ASSUME NEW i \in InstWord, NEW fmt PROVE imm(i, fmt) \in Int /\ nemu_imm(i, fmt) \in Int
<1> DEFINE f7 == i.f7  r2 == i.rs2  r1 == i.rs1  f3 == i.f3  d == i.rd
<1>1. /\ f7 \in 0 .. 127 /\ r2 \in 0 .. 31 /\ r1 \in 0 .. 31 /\ f3 \in 0 .. 7 /\ d \in 0 .. 31
  BY DEF InstWord
<1>10. BITS(i, 31, 20) = 32 * f7 + r2
  BY SMT DEF BITS
<1>11. BITS(i, 31, 25) = f7
  BY SMT DEF BITS
<1>12. BITS(i, 11, 7) = d
  BY SMT DEF BITS
<1>13. BITS(i, 31, 12) = 8192 * f7 + 256 * r2 + 8 * r1 + f3
  BY SMT DEF BITS
<1>14. BITS(i, 31, 31) = f7 \div 64
  BY SMT DEF BITS
<1>15. BITS(i, 7, 7) = d % 2
  BY SMT DEF BITS
<1>16. BITS(i, 30, 25) = f7 % 64
  BY SMT DEF BITS
<1>17. BITS(i, 11, 8) = d \div 2
  BY SMT DEF BITS
<1>18. BITS(i, 19, 12) = 8 * r1 + f3
  BY SMT DEF BITS
<1>19. BITS(i, 20, 20) = r2 % 2
  BY SMT DEF BITS
<1>20. BITS(i, 30, 21) = 16 * (f7 % 64) + (r2 \div 2)
  BY SMT DEF BITS
<1>21. BITS(i, 19, 15) = r1
  BY SMT DEF BITS
<1> HIDE DEF f7, r2, r1, f3, d
<1>2. /\ BITS(i, 31, 20) \in Int
      /\ BITS(i, 31, 25) \in Int
      /\ BITS(i, 11, 7) \in Int
      /\ BITS(i, 31, 12) \in Int
      /\ BITS(i, 31, 31) \in Int
      /\ BITS(i, 7, 7) \in Int
      /\ BITS(i, 30, 25) \in Int
      /\ BITS(i, 11, 8) \in Int
      /\ BITS(i, 19, 12) \in Int
      /\ BITS(i, 20, 20) \in Int
      /\ BITS(i, 30, 21) \in Int
      /\ BITS(i, 19, 15) \in Int
  BY SMT, <1>1, <1>10, <1>11, <1>12, <1>13, <1>14, <1>15, <1>16, <1>17, <1>18, <1>19, <1>20, <1>21
<1>31. imm(i, "I") \in Int /\ nemu_imm(i, "I") \in Int
  <2> DEFINE x == BITS(i, 31, 20)
  <2>1. imm(i, "I") = SEXT(x, 2048) /\ nemu_imm(i, "I") = SEXT(x, 2048)
    BY SMT DEF imm, nemu_imm
  <2>2. x \in Int
    BY SMT, <1>2
  <2> HIDE DEF x
  <2>3. SEXT(x, 2048) \in Int
    BY SMT, <2>2, SextInt
  <2> QED BY SMT, <2>1, <2>2, <2>3, SextInt
<1>32. imm(i, "S") \in Int /\ nemu_imm(i, "S") \in Int
  <2> DEFINE x == BITS(i, 31, 25)  y == BITS(i, 11, 7)
  <2>1. imm(i, "S") = SEXT(x * 32 + y, 2048) /\ nemu_imm(i, "S") = SEXT(x, 64) * 32 + y
    BY SMT DEF imm, nemu_imm
  <2>2. x \in Int /\ y \in Int
    BY SMT, <1>2
  <2> HIDE DEF x, y
  <2> DEFINE q == SEXT(x, 64)
  <2>3. q \in Int /\ x * 32 + y \in Int
    BY SMT, <2>2, SextInt
  <2>6. nemu_imm(i, "S") = q * 32 + y
    BY SMT, <2>1
  <2> HIDE DEF q
  <2>4. imm(i, "S") \in Int
    BY SMT, <2>1, <2>3, SextInt
  <2>5. nemu_imm(i, "S") \in Int
    BY SMT, <2>6, <2>2, <2>3
  <2> QED BY <2>4, <2>5
<1>33. imm(i, "U") \in Int /\ nemu_imm(i, "U") \in Int
  <2> DEFINE x == BITS(i, 31, 12)
  <2>1. imm(i, "U") = SEXT(x, 524288) * 4096 /\ nemu_imm(i, "U") = SEXT(x, 524288) * 4096
    BY SMT DEF imm, nemu_imm
  <2>2. x \in Int
    BY SMT, <1>2
  <2> HIDE DEF x
  <2>3. SEXT(x, 524288) \in Int
    BY SMT, <2>2, SextInt
  <2> QED BY SMT, <2>1, <2>2, <2>3, SextInt
<1>34. imm(i, "B") \in Int /\ nemu_imm(i, "B") \in Int
  <2> DEFINE x == BITS(i, 31, 31)  y == BITS(i, 7, 7)  z == BITS(i, 30, 25)  v == BITS(i, 11, 8)
  <2>1. imm(i, "B") = SEXT(x * 4096 + y * 2048 + z * 32 + v * 2, 4096) /\ nemu_imm(i, "B") = SEXT(x, 1) * 4096 + y * 2048 + z * 32 + v * 2
    BY SMT DEF imm, nemu_imm
  <2>2. x \in Int /\ y \in Int /\ z \in Int /\ v \in Int
    BY SMT, <1>2
  <2> HIDE DEF x, y, z, v
  <2> DEFINE q == SEXT(x, 1)
  <2>3. q \in Int /\ x * 4096 + y * 2048 + z * 32 + v * 2 \in Int
    BY SMT, <2>2, SextInt
  <2>6. nemu_imm(i, "B") = q * 4096 + y * 2048 + z * 32 + v * 2
    BY SMT, <2>1
  <2> HIDE DEF q
  <2>4. imm(i, "B") \in Int
    BY SMT, <2>1, <2>3, SextInt
  <2>5. nemu_imm(i, "B") \in Int
    BY SMT, <2>6, <2>2, <2>3
  <2> QED BY <2>4, <2>5
<1>35. imm(i, "J") \in Int /\ nemu_imm(i, "J") \in Int
  <2> DEFINE x == BITS(i, 31, 31)  y == BITS(i, 19, 12)  z == BITS(i, 20, 20)  v == BITS(i, 30, 21)
  <2>1. imm(i, "J") = SEXT(x * 1048576 + y * 4096 + z * 2048 + v * 2, 1048576) /\ nemu_imm(i, "J") = SEXT(x, 1) * 1048576 + y * 4096 + z * 2048 + v * 2
    BY SMT DEF imm, nemu_imm
  <2>2. x \in Int /\ y \in Int /\ z \in Int /\ v \in Int
    BY SMT, <1>2
  <2> HIDE DEF x, y, z, v
  <2> DEFINE q == SEXT(x, 1)
  <2>3. q \in Int /\ x * 1048576 + y * 4096 + z * 2048 + v * 2 \in Int
    BY SMT, <2>2, SextInt
  <2>6. nemu_imm(i, "J") = q * 1048576 + y * 4096 + z * 2048 + v * 2
    BY SMT, <2>1
  <2> HIDE DEF q
  <2>4. imm(i, "J") \in Int
    BY SMT, <2>1, <2>3, SextInt
  <2>5. nemu_imm(i, "J") \in Int
    BY SMT, <2>6, <2>2, <2>3
  <2> QED BY <2>4, <2>5
<1>36. ASSUME fmt \notin {"I", "S", "U", "B", "J"} PROVE imm(i, fmt) \in Int /\ nemu_imm(i, fmt) \in Int
  BY SMT, <1>36, <1>2 DEF imm, nemu_imm
<1> QED BY SMT, <1>31, <1>32, <1>33, <1>34, <1>35, <1>36

\* The immediates of IDU and of inst.c, whose macros sign extend the upper part only, are the same numbers.
LEMMA ImmediatesAgree ==
    ASSUME NEW i \in InstWord
    PROVE  /\ \A fmt \in {"I", "S", "B", "U", "J"} : imm(i, fmt) = nemu_imm(i, fmt)
           /\ imm(i, "C") = nemu_imm(i, "CSR_IMM")
<1>1. /\ i.f7 \in 0 .. 127 /\ i.rs2 \in 0 .. 31 /\ i.rs1 \in 0 .. 31 /\ i.f3 \in 0 .. 7 /\ i.rd \in 0 .. 31
  BY SMT DEF InstWord
<1>2. imm(i, "I") = nemu_imm(i, "I") /\ imm(i, "U") = nemu_imm(i, "U") /\ imm(i, "C") = nemu_imm(i, "CSR_IMM")
  BY SMT DEF imm, nemu_imm
<1>3. imm(i, "S") = nemu_imm(i, "S")
  BY SMT, <1>1 DEF imm, nemu_imm, BITS, SEXT
<1>4. imm(i, "B") = nemu_imm(i, "B")
  BY SMT, <1>1 DEF imm, nemu_imm, BITS, SEXT
<1>5. imm(i, "J") = nemu_imm(i, "J")
  BY SMT, <1>1 DEF imm, nemu_imm, BITS, SEXT
<1> QED BY SMT, <1>2, <1>3, <1>4, <1>5

\* NEMU's name of an instruction of the decode table, and back.
NemuName ==
    [LUI |-> "lui", AUIPC |-> "auipc", JAL |-> "jal", JALR |-> "jalr", BEQ |-> "beq", BNE |-> "bne",
     BLT |-> "blt", BGE |-> "bge", BLTU |-> "bltu", BGEU |-> "bgeu", LB |-> "lb", LH |-> "lh", LW |-> "lw",
     LBU |-> "lbu", LHU |-> "lhu", SB |-> "sb", SH |-> "sh", SW |-> "sw", ADDI |-> "addi", SLTI |-> "slti",
     SLTIU |-> "sltiu", XORI |-> "xori", ORI |-> "ori", ANDI |-> "andi", SLLI |-> "slli", SRLI |-> "srli",
     SRAI |-> "srai", ADD |-> "add", SUB |-> "sub", SLL |-> "sll", SLT |-> "slt", SLTU |-> "sltu", XOR |-> "xor",
     SRL |-> "srl", SRA |-> "sra", OR |-> "or", AND |-> "and", ECALL |-> "ecall", EBREAK |-> "ebreak",
     MRET |-> "mret", CSRRW |-> "csrrw", CSRRS |-> "csrrs", CSRRC |-> "csrrc", CSRRWI |-> "csrrwi",
     CSRRSI |-> "csrrsi", CSRRCI |-> "csrrci", FENCE_I |-> "fence_i"]
TableName ==
    [lui |-> "LUI", auipc |-> "AUIPC", jal |-> "JAL", jalr |-> "JALR", beq |-> "BEQ", bne |-> "BNE",
     blt |-> "BLT", bge |-> "BGE", bltu |-> "BLTU", bgeu |-> "BGEU", lb |-> "LB", lh |-> "LH", lw |-> "LW",
     lbu |-> "LBU", lhu |-> "LHU", sb |-> "SB", sh |-> "SH", sw |-> "SW", addi |-> "ADDI", slti |-> "SLTI",
     sltiu |-> "SLTIU", xori |-> "XORI", ori |-> "ORI", andi |-> "ANDI", slli |-> "SLLI", srli |-> "SRLI",
     srai |-> "SRAI", add |-> "ADD", sub |-> "SUB", sll |-> "SLL", slt |-> "SLT", sltu |-> "SLTU", xor |-> "XOR",
     srl |-> "SRL", sra |-> "SRA", or |-> "OR", and |-> "AND", ecall |-> "ECALL", ebreak |-> "EBREAK",
     mret |-> "MRET", csrrw |-> "CSRRW", csrrs |-> "CSRRS", csrrc |-> "CSRRC", csrrwi |-> "CSRRWI",
     csrrsi |-> "CSRRSI", csrrci |-> "CSRRCI", fence_i |-> "FENCE_I"]

\* The two tables of names undo each other, and leave out what only NEMU has.
LEMMA SameNames ==
    /\ DOMAIN NemuName = DOMAIN InstPat
    /\ \A n \in DOMAIN InstPat : NemuName[n] \in DOMAIN nemu_patterns /\ NemuName[n] \notin NemuOnly \cup {"inv"}
    /\ \A n \in DOMAIN InstPat : TableName[NemuName[n]] = n
    /\ \A k \in DOMAIN nemu_patterns \ NemuOnly : k \in DOMAIN TableName
    /\ \A k \in DOMAIN TableName : TableName[k] \in DOMAIN InstPat /\ NemuName[TableName[k]] = k
<1>1. DOMAIN NemuName = DOMAIN InstPat
  BY DEF NemuName, InstPat
<1>2. \A n \in DOMAIN NemuName : NemuName[n] \in DOMAIN TableName /\ TableName[NemuName[n]] = n
  BY DEF NemuName, TableName
<1>3. \A k \in DOMAIN TableName : TableName[k] \in DOMAIN NemuName /\ NemuName[TableName[k]] = k
  BY DEF NemuName, TableName
<1>4. \A k \in DOMAIN TableName : k \in DOMAIN nemu_patterns /\ k \notin NemuOnly \cup {"inv"}
  BY DEF TableName, nemu_patterns, NemuOnly
<1>5. \A k \in DOMAIN nemu_patterns : k \in NemuOnly \/ k \in DOMAIN TableName
  BY DEF TableName, nemu_patterns, NemuOnly
<1> QED BY <1>1, <1>2, <1>3, <1>4, <1>5

\* The core and NEMU look for the same pattern under the two names of an instruction.
LEMMA SamePatterns == \A n \in DOMAIN InstPat : nemu_patterns[NemuName[n]].pat = InstPat[n]
<1>1. \A n \in {"LUI", "AUIPC", "JAL", "JALR", "BEQ", "BNE", "BLT", "BGE", "BLTU", "BGEU"} :
        nemu_patterns[NemuName[n]].pat = InstPat[n]
  BY DEF NemuName, InstPat, nemu_patterns, P
<1>2. \A n \in Loads \cup Stores : nemu_patterns[NemuName[n]].pat = InstPat[n]
  BY DEF NemuName, InstPat, nemu_patterns, P, Loads, Stores
<1>3. \A n \in {"ADDI", "SLTI", "SLTIU", "XORI", "ORI", "ANDI", "SLLI", "SRLI", "SRAI"} : nemu_patterns[NemuName[n]].pat = InstPat[n]
  BY DEF NemuName, InstPat, nemu_patterns, P
<1>4. \A n \in RegRegs : nemu_patterns[NemuName[n]].pat = InstPat[n]
  BY DEF NemuName, InstPat, nemu_patterns, P, RegRegs
<1>5. \A n \in CsrRegs \cup CsrImms \cup {"ECALL", "EBREAK", "MRET", "FENCE_I"} : nemu_patterns[NemuName[n]].pat = InstPat[n]
  BY DEF NemuName, InstPat, nemu_patterns, P, CsrRegs, CsrImms
<1>6. DOMAIN InstPat \subseteq
        {"LUI", "AUIPC", "JAL", "JALR", "BEQ", "BNE", "BLT", "BGE", "BLTU", "BGEU"} \cup (Loads \cup Stores)
        \cup {"ADDI", "SLTI", "SLTIU", "XORI", "ORI", "ANDI", "SLLI", "SRLI", "SRAI"} \cup RegRegs
        \cup (CsrRegs \cup CsrImms \cup {"ECALL", "EBREAK", "MRET", "FENCE_I"})
  BY DEF InstPat, Loads, Stores, RegRegs, CsrRegs, CsrImms
<1> QED BY <1>1, <1>2, <1>3, <1>4, <1>5, <1>6

\* The pattern a list has for a word, when it has exactly one.
LEMMA FirstIs ==
    ASSUME NEW i, NEW pats, NEW k, Tried(i, pats) = {k}
    PROVE  First(i, pats) = [name |-> k, type |-> pats[k].type]
BY DEF First

LEMMA FirstNone ==
    ASSUME NEW i, NEW pats, Tried(i, pats) = {}
    PROVE  First(i, pats) = Invalid
BY DEF First

LEMMA LookupIs ==
    ASSUME NEW i, NEW n, Selected(i) = {n} PROVE ListLookup(i) = table(n)
BY DEF ListLookup

LEMMA LookupNone ==
    ASSUME NEW i, Selected(i) = {} PROVE ListLookup(i) = default
BY DEF ListLookup

\* A word is an instruction of both lists, of NEMU's alone, or of neither.
LEMMA Decoded ==
    ASSUME NEW i \in InstWord
    PROVE  \/ \E n \in DOMAIN InstPat : Selected(i) = {n} /\ Tried(i, nemu_patterns) = {NemuName[n]}
           \/ Selected(i) = {} /\ \E k \in NemuOnly : Tried(i, nemu_patterns) = {k}
           \/ Selected(i) = {} /\ Tried(i, nemu_patterns) = {}
<1>1. \A n \in DOMAIN InstPat : n \in Selected(i) <=> NemuName[n] \in Tried(i, nemu_patterns)
  BY SameNames, SamePatterns DEF Selected, Tried
<1>2. \A k \in Tried(i, nemu_patterns) : Tried(i, nemu_patterns) = {k}
  BY NemuUnique
<1>3. Selected(i) \subseteq DOMAIN InstPat /\ Tried(i, nemu_patterns) \subseteq DOMAIN nemu_patterns
  BY DEF Selected, Tried
<1>4. ASSUME NEW n \in Selected(i) PROVE Selected(i) = {n} /\ Tried(i, nemu_patterns) = {NemuName[n]}
  <2>1. Tried(i, nemu_patterns) = {NemuName[n]}
    BY <1>1, <1>2, <1>3
  <2>2. ASSUME NEW m \in Selected(i) PROVE m = n
    <3>1. NemuName[m] = NemuName[n]
      BY <1>1, <1>3, <2>1
    <3> QED BY <1>3, <3>1, SameNames
  <2> QED BY <2>1, <2>2
<1>5. ASSUME Selected(i) = {} PROVE \A k \in Tried(i, nemu_patterns) : k \in NemuOnly
  <2> SUFFICES ASSUME NEW k \in Tried(i, nemu_patterns), k \notin NemuOnly PROVE FALSE
    OBVIOUS
  <2>1. TableName[k] \in DOMAIN InstPat /\ NemuName[TableName[k]] = k
    BY <1>3, SameNames
  <2> QED BY <1>1, <1>5, <2>1
<1>6. CASE Selected(i) = {}
  BY <1>2, <1>5, <1>6
<1>7. CASE Selected(i) # {}
  BY <1>3, <1>4, <1>7
<1> QED BY <1>6, <1>7

\* The shorter lists of NEMU's trace functions are parts of its decode table.
LEMMA PartOf ==
    ASSUME NEW i \in InstWord, NEW pats \in {ldstr_patterns, branch_patterns}
    PROVE  Tried(i, pats) = Tried(i, nemu_patterns) \cap DOMAIN pats /\ \A k \in DOMAIN pats : pats[k] = nemu_patterns[k]
<1>1. \A k \in DOMAIN pats : k \in DOMAIN nemu_patterns /\ pats[k] = nemu_patterns[k]
  <2>1. CASE pats = ldstr_patterns
    BY <2>1 DEF ldstr_patterns, nemu_patterns
  <2>2. CASE pats = branch_patterns
    BY <2>2 DEF branch_patterns, nemu_patterns
  <2> QED BY <2>1, <2>2
<1> QED BY <1>1 DEF Tried

\* The operands of an instruction.
Source == [pc : DataWord, rs1 : DataWord, rs2 : DataWord, csr : DataWord, mem : DataWord]

(***************************************************************************)
(* What the core does with a row of the decode table.                      *)
(***************************************************************************)
\* An arithmetic row: the result of the ALU, and the next instruction.
LEMMA ExuAlu ==
    ASSUME NEW i, NEW s, NEW fmt, NEW op1, NEW op2, NEW alu, ListLookup(i) = AluRow(fmt, op1, op2, alu), fmt # "E"
    PROVE  EXU(i, s) = Outcome(IF i.rd # 0 THEN ALU(alu, Oper(op1, s, WordOf(imm(i, fmt))), Oper(op2, s, WordOf(imm(i, fmt)))) ELSE None,
                               AddW(s.pc, Word4), None, None, NoExcp)
BY DEF EXU, AluRow, Row, br_taken, csr_rd_data, NoExcp, Jumps

\* A row of format E: the illegal instruction exception.
LEMMA ExuIllegal ==
    ASSUME NEW i, NEW s, ListLookup(i) = default
    PROVE  EXU(i, s) = Outcome(None, None, None, None, "illegal")
BY DEF EXU, default, AluRow, Row, NoExcp

\* ECALL, EBREAK and MRET: an exception of their name.
LEMMA ExuSystem ==
    ASSUME NEW i, NEW s, NEW exec \in {"ECall", "EBreak", "MRet"}, ListLookup(i) = SystemRow(exec)
    PROVE  EXU(i, s) = Outcome(None, None, None, None, exec)
BY DEF EXU, SystemRow, Row, NoExcp

\* FENCE_I: nothing is written.
LEMMA ExuFence ==
    ASSUME NEW i, NEW s, ListLookup(i) = SystemRow("FenceI")
    PROVE  EXU(i, s) = Outcome(None, AddW(s.pc, Word4), None, None, NoExcp)
BY DEF EXU, SystemRow, Row, NoExcp, br_taken, csr_rd_data, Jumps

\* A CSR row: the register gets the old value, the CSR the new one.
LEMMA ExuCsr ==
    ASSUME NEW i, NEW s, NEW op2, NEW op, ListLookup(i) = Row("C", "CSR", op2, TRUE, "Add", "Nop", "Nop", op, "CSR")
    PROVE  EXU(i, s) = Outcome(IF i.rd # 0 THEN s.csr ELSE None, AddW(s.pc, Word4), None,
                               csr_rd_data(op, s.csr, Oper(op2, s, WordOf(imm(i, "C")))), NoExcp)
BY DEF EXU, Row, NoExcp, br_taken, Jumps

\* JAL: the return address, and the target from the pc.
LEMMA ExuJal ==
    ASSUME NEW i, NEW s, ListLookup(i) = Row("J", "PC", "Four", TRUE, "Add", "JAL", "Nop", "Nop", "ALU")
    PROVE  LET im == WordOf(imm(i, "J")) IN
           EXU(i, s) = Outcome(IF i.rd # 0 THEN AddW(s.pc, Word4) ELSE None, AddW(s.pc, im), None, None, NoExcp)
<1> DEFINE im == WordOf(imm(i, "J"))
<1>1. EXU(i, s) = Outcome(IF i.rd # 0 THEN ALU("Add", Oper("PC", s, im), Oper("Four", s, im)) ELSE None, AddW(s.pc, im), None, None, NoExcp)
  BY DEF EXU, Row, br_taken, csr_rd_data, NoExcp, Jumps
<1>2. ALU("Add", Oper("PC", s, im), Oper("Four", s, im)) = AddW(s.pc, Word4)
  BY DEF ALU, Oper
<1> QED BY <1>1, <1>2

\* JALR: the return address, and the target from rs1 without its lowest bit.
LEMMA ExuJalr ==
    ASSUME NEW i, NEW s, ListLookup(i) = Row("I", "PC", "Four", TRUE, "Add", "JALR", "Nop", "Nop", "ALU")
    PROVE  LET im == WordOf(imm(i, "I")) IN
           EXU(i, s) = Outcome(IF i.rd # 0 THEN AddW(s.pc, Word4) ELSE None, ClearLow(AddW(s.rs1, im)), None, None, NoExcp)
<1> DEFINE im == WordOf(imm(i, "I"))
<1>1. EXU(i, s) = Outcome(IF i.rd # 0 THEN ALU("Add", Oper("PC", s, im), Oper("Four", s, im)) ELSE None, ClearLow(AddW(s.rs1, im)), None, None, NoExcp)
  BY DEF EXU, Row, br_taken, csr_rd_data, NoExcp, Jumps
<1>2. ALU("Add", Oper("PC", s, im), Oper("Four", s, im)) = AddW(s.pc, Word4)
  BY DEF ALU, Oper
<1> QED BY <1>1, <1>2

\* A branch: nothing is written, and the ALU's result decides where the program goes on.
LEMMA ExuBranch ==
    ASSUME NEW i, NEW s, NEW alu, NEW br \in Branches,
           ListLookup(i) = Row("B", "Rs1", "Rs2", FALSE, alu, br, "Nop", "Nop", "ALU")
    PROVE  EXU(i, s) = Outcome(None,
                               IF br_taken(br, ALU(alu, s.rs1, s.rs2)) THEN AddW(s.pc, WordOf(imm(i, "B"))) ELSE AddW(s.pc, Word4),
                               None, None, NoExcp)
<1>1. br # "JALR"
  BY DEF Branches
<1> QED BY <1>1 DEF EXU, Row, NoExcp, csr_rd_data, Oper

\* A load: the request at rs1 + imm.
LEMMA ExuLoad ==
    ASSUME NEW i, NEW s, NEW n \in Loads, ListLookup(i) = Row("I", "Rs1", "Imm", TRUE, "Add", "Nop", n, "Nop", "LSU")
    PROVE  EXU(i, s) = Outcome(None, AddW(s.pc, Word4), <<n, AddW(s.rs1, WordOf(imm(i, "I"))), None>>, None, NoExcp)
<1>1. n \notin Stores
  BY DEF Loads, Stores
<1> QED BY <1>1 DEF EXU, Row, NoExcp, csr_rd_data, Oper, ALU, br_taken, Jumps

\* A store: the request at rs1 + imm with rs2.
LEMMA ExuStore ==
    ASSUME NEW i, NEW s, NEW n \in Stores, ListLookup(i) = Row("S", "Rs1", "Imm", FALSE, "Add", "Nop", n, "Nop", "LSU")
    PROVE  EXU(i, s) = Outcome(None, AddW(s.pc, Word4), <<n, AddW(s.rs1, WordOf(imm(i, "S"))), s.rs2>>, None, NoExcp)
BY DEF EXU, Row, NoExcp, csr_rd_data, Oper, ALU, br_taken, Jumps

(***************************************************************************)
(* What NEMU does once a pattern matches.                                  *)
(***************************************************************************)
\* The patterns without operands.
LEMMA NemuSpecial ==
    ASSUME NEW i, NEW s, NEW k \in DOMAIN nemu_special, First(i, nemu_patterns).name = k
    PROVE  decode_exec(i, s) = Outcome(None, None, None, None, nemu_special[k])
BY DEF decode_exec

\* Every other pattern.
LEMMA NemuOrdinary ==
    ASSUME NEW i, NEW s, NEW k, k \notin DOMAIN nemu_special, NEW type, First(i, nemu_patterns) = [name |-> k, type |-> type]
    PROVE  LET im == WordOf(nemu_imm(i, type)) IN
           decode_exec(i, s) = Outcome(IF i.rd # 0 THEN nemu_value(k, s, im) ELSE None,
                     CASE k = "jal" \/ nemu_taken(k, s.rs1, s.rs2) -> AddW(s.pc, im)
                       [] k = "jalr" -> ClearLow(AddW(s.rs1, im))
                       [] OTHER -> AddW(s.pc, Word4),
                     CASE k \in NemuLoads -> <<k, AddW(s.rs1, im), None>>
                       [] k \in NemuStores -> <<k, AddW(s.rs1, im), s.rs2>>
                       [] OTHER -> None,
                     nemu_csr(k, s, im), NoExcp)
BY DEF decode_exec

NemuBranches == {"beq", "bne", "blt", "bge", "bltu", "bgeu"}

\* A pattern that neither jumps, branches nor accesses memory.
LEMMA NemuPlain ==
    ASSUME NEW i, NEW s, NEW k, k \notin DOMAIN nemu_special, NEW type, First(i, nemu_patterns) = [name |-> k, type |-> type],
           k \notin {"jal", "jalr"} \cup NemuBranches \cup NemuLoads \cup NemuStores
    PROVE  LET im == WordOf(nemu_imm(i, type)) IN
           decode_exec(i, s) = Outcome(IF i.rd # 0 THEN nemu_value(k, s, im) ELSE None, AddW(s.pc, Word4), None, nemu_csr(k, s, im), NoExcp)
<1>1. nemu_taken(k, s.rs1, s.rs2) = FALSE
  BY DEF nemu_taken, NemuBranches
<1> QED BY <1>1, NemuOrdinary

(***************************************************************************)
(* Both, instruction by instruction.                                       *)
(***************************************************************************)
\* The instructions that neither jump, branch nor access memory.
Plain == DOMAIN InstPat \ (Branches \cup Jumps \cup Loads \cup Stores)

\* Both do the same with one of them.
PlainOutcome(i, s) ==
    /\ EXU(i, s) = decode_exec(i, s)
    /\ decode_exec(i, s).mem = None
    /\ decode_exec(i, s).excp = NoExcp => decode_exec(i, s).dnpc = AddW(s.pc, Word4)

\* Two equal outcomes without memory access and jump.
LEMMA PlainIs ==
    ASSUME NEW i, NEW s, NEW d, NEW c, EXU(i, s) = Outcome(d, AddW(s.pc, Word4), None, c, NoExcp), decode_exec(i, s) = EXU(i, s)
    PROVE  PlainOutcome(i, s)
BY DEF PlainOutcome, Outcome

\* ecall, ebreak and mret.
LEMMA SpecialOutcome ==
    ASSUME NEW i \in InstWord, NEW s, NEW n \in {"ECALL", "EBREAK", "MRET"}, Selected(i) = {n},
           Tried(i, nemu_patterns) = {NemuName[n]}
    PROVE  PlainOutcome(i, s)
<1>1. table(n) = SystemRow(CASE n = "ECALL" -> "ECall" [] n = "EBREAK" -> "EBreak" [] n = "MRET" -> "MRet")
  BY DEF table, Branches, Loads, Stores, RegRegs, CsrRegs, CsrImms
<1>2. NemuName[n] \in DOMAIN nemu_special /\ nemu_special[NemuName[n]] = (CASE n = "ECALL" -> "ECall" [] n = "EBREAK" -> "EBreak" [] n = "MRET" -> "MRet")
  BY DEF NemuName, nemu_special
<1>3. First(i, nemu_patterns).name = NemuName[n]
  BY FirstIs
<1>4. decode_exec(i, s) = Outcome(None, None, None, None, nemu_special[NemuName[n]])
  BY <1>2, <1>3, NemuSpecial
<1>5. nemu_special[NemuName[n]] \in {"ECall", "EBreak", "MRet"}
  BY <1>2
<1>6. EXU(i, s) = Outcome(None, None, None, None, nemu_special[NemuName[n]])
  BY <1>1, <1>2, <1>5, LookupIs, ExuSystem
<1> QED BY <1>4, <1>5, <1>6 DEF PlainOutcome, Outcome, NoExcp

\* fence.i.
LEMMA FenceOutcome ==
    ASSUME NEW i \in InstWord, NEW s, Selected(i) = {"FENCE_I"}, Tried(i, nemu_patterns) = {"fence_i"}
    PROVE  PlainOutcome(i, s)
<1>1. table("FENCE_I") = SystemRow("FenceI")
  BY DEF table, Branches, Loads, Stores, RegRegs, CsrRegs, CsrImms
<1>2. First(i, nemu_patterns) = [name |-> "fence_i", type |-> nemu_patterns["fence_i"].type]
  BY FirstIs
<1>3. /\ "fence_i" \notin DOMAIN nemu_special
      /\ "fence_i" \notin {"jal", "jalr"} \cup NemuBranches \cup NemuLoads \cup NemuStores
  BY DEF nemu_special, NemuBranches, NemuLoads, NemuStores
<1>4. ASSUME NEW im PROVE nemu_value("fence_i", s, im) = None /\ nemu_csr("fence_i", s, im) = None
  BY DEF nemu_value, nemu_csr
<1>5. decode_exec(i, s) = Outcome(None, AddW(s.pc, Word4), None, None, NoExcp)
  BY <1>2, <1>3, <1>4, NemuPlain
<1> QED BY <1>1, <1>5, LookupIs, ExuFence, PlainIs

\* The values of the arithmetic instructions; im stands for the immediate of either side.
LEMMA AluValue ==
    ASSUME NEW s, NEW im, NEW n \in RegRegs
    PROVE  nemu_value(NemuName[n], s, im) = ALU(AluOf[n], s.rs1, s.rs2)
BY DEF RegRegs, NemuName, AluOf, nemu_value, ALU

AluImms == {"ADDI", "SLTI", "SLTIU", "XORI", "ORI", "ANDI", "SLLI", "SRLI", "SRAI"}

\* The same with an immediate.
LEMMA AluImmValue ==
    ASSUME NEW s, NEW im, NEW n \in AluImms
    PROVE  nemu_value(NemuName[n], s, im) = ALU(AluOf[n], s.rs1, im)
BY DEF AluImms, NemuName, AluOf, nemu_value, ALU

\* The new value of the CSR.
LEMMA CsrValue ==
    ASSUME NEW s, NEW im, NEW n \in CsrRegs \cup CsrImms
    PROVE  /\ nemu_value(NemuName[n], s, im) = s.csr
           /\ nemu_csr(NemuName[n], s, im) = csr_rd_data(CsrOpOf(n), s.csr, IF n \in CsrRegs THEN s.rs1 ELSE im)
BY DEF CsrRegs, CsrImms, NemuName, CsrOpOf, nemu_value, nemu_csr, csr_rd_data

\* Arithmetic of two registers.
LEMMA RegRegOutcome ==
    ASSUME NEW i \in InstWord, NEW s, NEW n \in RegRegs, Selected(i) = {n}, Tried(i, nemu_patterns) = {NemuName[n]}
    PROVE  PlainOutcome(i, s)
<1>1. table(n) = AluRow("R", "Rs1", "Rs2", AluOf[n])
  BY DEF table, Branches, Loads, Stores, RegRegs, CsrRegs, CsrImms
<1>2. First(i, nemu_patterns) = [name |-> NemuName[n], type |-> nemu_patterns[NemuName[n]].type]
  BY FirstIs
<1>3. /\ NemuName[n] \notin DOMAIN nemu_special
      /\ NemuName[n] \notin {"jal", "jalr"} \cup NemuBranches \cup NemuLoads \cup NemuStores
  BY DEF RegRegs, NemuName, nemu_special, NemuBranches, NemuLoads, NemuStores
<1>4. ASSUME NEW im PROVE nemu_csr(NemuName[n], s, im) = None /\ nemu_value(NemuName[n], s, im) = ALU(AluOf[n], s.rs1, s.rs2)
  <2>1. nemu_csr(NemuName[n], s, im) = None
    BY DEF RegRegs, NemuName, nemu_csr
  <2> QED BY <2>1, AluValue
<1>5. decode_exec(i, s) = Outcome(IF i.rd # 0 THEN ALU(AluOf[n], s.rs1, s.rs2) ELSE None, AddW(s.pc, Word4), None, None, NoExcp)
  BY <1>2, <1>3, <1>4, NemuPlain
<1>6. ASSUME NEW im PROVE Oper("Rs1", s, im) = s.rs1 /\ Oper("Rs2", s, im) = s.rs2
  BY DEF Oper
<1>7. EXU(i, s) = Outcome(IF i.rd # 0 THEN ALU(AluOf[n], s.rs1, s.rs2) ELSE None, AddW(s.pc, Word4), None, None, NoExcp)
  BY <1>1, <1>6, LookupIs, ExuAlu
<1> QED BY <1>5, <1>7, PlainIs

\* The types NEMU gives its patterns are the formats of the core's table.
LEMMA NemuTypes ==
    /\ \A n \in {"LUI", "AUIPC"} : nemu_patterns[NemuName[n]].type = "U"
    /\ nemu_patterns[NemuName["JAL"]].type = "J" /\ nemu_patterns[NemuName["JALR"]].type = "I"
    /\ \A n \in Branches : nemu_patterns[NemuName[n]].type = "B"
    /\ \A n \in Loads : nemu_patterns[NemuName[n]].type = "I"
    /\ \A n \in Stores : nemu_patterns[NemuName[n]].type = "S"
    /\ \A n \in AluImms : nemu_patterns[NemuName[n]].type = "I"
    /\ \A n \in CsrRegs : nemu_patterns[NemuName[n]].type = "CSR"
    /\ \A n \in CsrImms : nemu_patterns[NemuName[n]].type = "CSR_IMM"
    /\ \A n \in RegRegs : nemu_patterns[NemuName[n]].type = "R"
    /\ \A n \in {"ECALL", "EBREAK", "MRET", "FENCE_I"} : nemu_patterns[NemuName[n]].type = "N"
<1>1. \A n \in {"LUI", "AUIPC"} : nemu_patterns[NemuName[n]].type = "U"
  BY DEF NemuName, nemu_patterns, P
<1>2. nemu_patterns[NemuName["JAL"]].type = "J" /\ nemu_patterns[NemuName["JALR"]].type = "I"
  BY DEF NemuName, nemu_patterns, P
<1>3. \A n \in Branches : nemu_patterns[NemuName[n]].type = "B"
  BY DEF NemuName, nemu_patterns, P, Branches
<1>4. \A n \in Loads : nemu_patterns[NemuName[n]].type = "I"
  BY DEF NemuName, nemu_patterns, P, Loads
<1>5. \A n \in Stores : nemu_patterns[NemuName[n]].type = "S"
  BY DEF NemuName, nemu_patterns, P, Stores
<1>6. \A n \in AluImms : nemu_patterns[NemuName[n]].type = "I"
  BY DEF NemuName, nemu_patterns, P, AluImms
<1>7. \A n \in CsrRegs : nemu_patterns[NemuName[n]].type = "CSR"
  BY DEF NemuName, nemu_patterns, P, CsrRegs
<1>8. \A n \in CsrImms : nemu_patterns[NemuName[n]].type = "CSR_IMM"
  BY DEF NemuName, nemu_patterns, P, CsrImms
<1>9. \A n \in RegRegs : nemu_patterns[NemuName[n]].type = "R"
  BY DEF NemuName, nemu_patterns, P, RegRegs
<1>10. \A n \in {"ECALL", "EBREAK", "MRET", "FENCE_I"} : nemu_patterns[NemuName[n]].type = "N"
  BY DEF NemuName, nemu_patterns, P
<1> QED BY <1>1, <1>2, <1>3, <1>4, <1>5, <1>6, <1>7, <1>8, <1>9, <1>10

\* Arithmetic with an immediate.
LEMMA AluImmOutcome ==
    ASSUME NEW i \in InstWord, NEW s, NEW n \in AluImms, Selected(i) = {n}, Tried(i, nemu_patterns) = {NemuName[n]}
    PROVE  PlainOutcome(i, s)
<1>1. table(n) = AluRow("I", "Rs1", "Imm", AluOf[n])
  BY DEF table, Branches, Loads, Stores, RegRegs, CsrRegs, CsrImms, AluImms
<1>2. nemu_patterns[NemuName[n]].type = "I"
  BY NemuTypes
<1>3. First(i, nemu_patterns) = [name |-> NemuName[n], type |-> "I"]
  BY <1>2, FirstIs
<1>4. /\ NemuName[n] \notin DOMAIN nemu_special
      /\ NemuName[n] \notin {"jal", "jalr"} \cup NemuBranches \cup NemuLoads \cup NemuStores
  BY DEF AluImms, NemuName, nemu_special, NemuBranches, NemuLoads, NemuStores
<1> DEFINE im == WordOf(imm(i, "I"))
<1>5. nemu_csr(NemuName[n], s, im) = None /\ nemu_value(NemuName[n], s, im) = ALU(AluOf[n], s.rs1, im)
  <2> HIDE DEF im
  <2>1. nemu_csr(NemuName[n], s, im) = None
    BY DEF AluImms, NemuName, nemu_csr
  <2> QED BY <2>1, AluImmValue
<1>6. im = WordOf(nemu_imm(i, "I"))
  BY ImmediatesAgree
<1>7. Oper("Rs1", s, im) = s.rs1 /\ Oper("Imm", s, im) = im
  BY DEF Oper
<1>8. EXU(i, s) = Outcome(IF i.rd # 0 THEN ALU(AluOf[n], s.rs1, im) ELSE None, AddW(s.pc, Word4), None, None, NoExcp)
  BY <1>1, <1>7, LookupIs, ExuAlu
<1>9. decode_exec(i, s) = Outcome(IF i.rd # 0 THEN ALU(AluOf[n], s.rs1, im) ELSE None, AddW(s.pc, Word4), None, None, NoExcp)
  BY <1>3, <1>4, <1>5, <1>6, NemuPlain
<1> QED BY <1>8, <1>9, PlainIs

\* The CSR instructions.
LEMMA CsrOutcome ==
    ASSUME NEW i \in InstWord, NEW s, NEW n \in CsrRegs \cup CsrImms, Selected(i) = {n}, Tried(i, nemu_patterns) = {NemuName[n]}
    PROVE  PlainOutcome(i, s)
<1> DEFINE op2 == IF n \in CsrRegs THEN "Rs1" ELSE "Imm"
           type == IF n \in CsrRegs THEN "CSR" ELSE "CSR_IMM"
           im == WordOf(imm(i, "C"))
           nim == WordOf(nemu_imm(i, type))
<1>1. table(n) = Row("C", "CSR", op2, TRUE, "Add", "Nop", "Nop", CsrOpOf(n), "CSR")
  BY DEF table, Branches, Loads, Stores, RegRegs, CsrRegs, CsrImms
<1>2. nemu_patterns[NemuName[n]].type = type
  BY NemuTypes
<1>3. First(i, nemu_patterns) = [name |-> NemuName[n], type |-> type]
  BY <1>2, FirstIs
<1>4. /\ NemuName[n] \notin DOMAIN nemu_special
      /\ NemuName[n] \notin {"jal", "jalr"} \cup NemuBranches \cup NemuLoads \cup NemuStores
  BY DEF CsrRegs, CsrImms, NemuName, nemu_special, NemuBranches, NemuLoads, NemuStores
<1>5. n \notin CsrRegs => nim = im
  BY ImmediatesAgree
<1>6. Oper(op2, s, im) = IF n \in CsrRegs THEN s.rs1 ELSE nim
  <2> HIDE DEF im, nim
  <2> QED BY <1>5 DEF Oper
<1> DEFINE c == csr_rd_data(CsrOpOf(n), s.csr, IF n \in CsrRegs THEN s.rs1 ELSE nim)
<1>7. nemu_value(NemuName[n], s, nim) = s.csr /\ nemu_csr(NemuName[n], s, nim) = c
  <2> HIDE DEF nim
  <2> QED BY CsrValue
<1>8. EXU(i, s) = Outcome(IF i.rd # 0 THEN s.csr ELSE None, AddW(s.pc, Word4), None, c, NoExcp)
  <2> HIDE DEF op2, nim
  <2>1. ListLookup(i) = Row("C", "CSR", op2, TRUE, "Add", "Nop", "Nop", CsrOpOf(n), "CSR")
    BY <1>1, LookupIs
  <2>2. EXU(i, s) = Outcome(IF i.rd # 0 THEN s.csr ELSE None, AddW(s.pc, Word4), None,
                            csr_rd_data(CsrOpOf(n), s.csr, Oper(op2, s, im)), NoExcp)
    BY <2>1, ExuCsr
  <2> QED BY <1>6, <2>2
<1>9. decode_exec(i, s) = Outcome(IF i.rd # 0 THEN s.csr ELSE None, AddW(s.pc, Word4), None, c, NoExcp)
  <2> HIDE DEF c, type
  <2> QED BY <1>3, <1>4, <1>7, NemuPlain
<1> QED BY <1>8, <1>9, PlainIs

\* lui and auipc.
LEMMA UpperOutcome ==
    ASSUME NEW i \in InstWord, NEW s \in Source, NEW n \in {"LUI", "AUIPC"}, Selected(i) = {n}, Tried(i, nemu_patterns) = {NemuName[n]}
    PROVE  PlainOutcome(i, s)
<1> DEFINE im == WordOf(imm(i, "U"))
           op1 == IF n = "LUI" THEN "Imm" ELSE "PC"
           op2 == IF n = "LUI" THEN "Zero" ELSE "Imm"
           value == IF n = "LUI" THEN im ELSE AddW(s.pc, im)
<1>1. table(n) = AluRow("U", op1, op2, "Add")
  <2>1. table("LUI") = AluRow("U", "Imm", "Zero", "Add") /\ table("AUIPC") = AluRow("U", "PC", "Imm", "Add")
    BY DEF table, Branches, Loads, Stores, RegRegs, CsrRegs, CsrImms
  <2> QED BY <2>1
<1>2. nemu_patterns[NemuName[n]].type = "U"
  BY NemuTypes
<1>3. First(i, nemu_patterns) = [name |-> NemuName[n], type |-> "U"]
  <2>1. First(i, nemu_patterns) = [name |-> NemuName[n], type |-> nemu_patterns[NemuName[n]].type]
    BY FirstIs
  <2> QED BY <1>2, <2>1
<1>4. /\ NemuName[n] \notin DOMAIN nemu_special
      /\ NemuName[n] \notin {"jal", "jalr"} \cup NemuBranches \cup NemuLoads \cup NemuStores
  BY DEF NemuName, nemu_special, NemuBranches, NemuLoads, NemuStores
<1>5. im = WordOf(nemu_imm(i, "U")) /\ im \in DataWord
  BY ImmediatesAgree, ImmTypes, WordTypes
<1>6. nemu_csr(NemuName[n], s, im) = None /\ nemu_value(NemuName[n], s, im) = value
  <2> HIDE DEF im
  <2> QED BY DEF NemuName, nemu_csr, nemu_value
<1>7. ALU("Add", Oper(op1, s, im), Oper(op2, s, im)) = value
  <2> HIDE DEF im
  <2>1. CASE n = "LUI"
    BY <1>5, <2>1, PlusZero DEF ALU, Oper
  <2>2. CASE n = "AUIPC"
    BY <2>2 DEF ALU, Oper
  <2> QED BY <2>1, <2>2
<1>8. EXU(i, s) = Outcome(IF i.rd # 0 THEN value ELSE None, AddW(s.pc, Word4), None, None, NoExcp)
  <2> HIDE DEF value, op1, op2
  <2> QED BY <1>1, <1>7, LookupIs, ExuAlu
<1>9. decode_exec(i, s) = Outcome(IF i.rd # 0 THEN value ELSE None, AddW(s.pc, Word4), None, None, NoExcp)
  <2> HIDE DEF value
  <2> QED BY <1>3, <1>4, <1>5, <1>6, NemuPlain
<1> QED BY <1>8, <1>9, PlainIs

\* Every instruction that neither jumps, branches nor accesses memory.
LEMMA PlainAgree ==
    ASSUME NEW i \in InstWord, NEW s \in Source, NEW n \in Plain, Selected(i) = {n}, Tried(i, nemu_patterns) = {NemuName[n]}
    PROVE  PlainOutcome(i, s)
<1>1. Plain \subseteq {"ECALL", "EBREAK", "MRET", "FENCE_I", "LUI", "AUIPC"} \cup RegRegs \cup AluImms \cup CsrRegs \cup CsrImms
  BY DEF Plain, InstPat, RegRegs, AluImms, CsrRegs, CsrImms, Branches, Jumps, Loads, Stores
<1>2. NemuName["FENCE_I"] = "fence_i"
  BY DEF NemuName
<1> QED BY <1>1, <1>2, SpecialOutcome, FenceOutcome, UpperOutcome, RegRegOutcome, AluImmOutcome, CsrOutcome

\* Both write the same and go on at t.
MovesTo(i, s, t) ==
    /\ EXU(i, s) = decode_exec(i, s)
    /\ decode_exec(i, s).mem = None /\ decode_exec(i, s).excp = NoExcp /\ decode_exec(i, s).dnpc = t

\* Two equal outcomes that only write rd and move to t.
LEMMA MovesToIs ==
    ASSUME NEW i, NEW s, NEW d, NEW t, EXU(i, s) = Outcome(d, t, None, None, NoExcp), decode_exec(i, s) = EXU(i, s)
    PROVE  MovesTo(i, s, t)
BY DEF MovesTo, Outcome

\* jal.
LEMMA JalOutcome ==
    ASSUME NEW i \in InstWord, NEW s, Selected(i) = {"JAL"}, Tried(i, nemu_patterns) = {"jal"}
    PROVE  MovesTo(i, s, AddW(s.pc, WordOf(nemu_imm(i, "J"))))
<1> DEFINE im == WordOf(nemu_imm(i, "J"))
           k == "jal"
<1>1. ListLookup(i) = Row("J", "PC", "Four", TRUE, "Add", "JAL", "Nop", "Nop", "ALU")
  <2>1. table("JAL") = Row("J", "PC", "Four", TRUE, "Add", "JAL", "Nop", "Nop", "ALU")
    BY DEF table, Branches, Loads, Stores, RegRegs, CsrRegs, CsrImms
  <2> QED BY <2>1, LookupIs
<1>2. First(i, nemu_patterns) = [name |-> k, type |-> "J"]
  <2>1. nemu_patterns["jal"].type = "J"
    BY DEF nemu_patterns, P
  <2> QED BY <2>1, FirstIs
<1>3. im = WordOf(imm(i, "J"))
  BY ImmediatesAgree
<1>4. EXU(i, s) = Outcome(IF i.rd # 0 THEN AddW(s.pc, Word4) ELSE None, AddW(s.pc, im), None, None, NoExcp)
  BY <1>1, <1>3, ExuJal
<1>5. nemu_value("jal", s, im) = AddW(s.pc, Word4) /\ nemu_csr("jal", s, im) = None
  <2> HIDE DEF im
  <2> QED BY DEF nemu_value, nemu_csr
<1>6. k \notin NemuLoads \cup NemuStores \cup DOMAIN nemu_special
  BY DEF nemu_special, NemuLoads, NemuStores
<1>7. decode_exec(i, s) = Outcome(IF i.rd # 0 THEN AddW(s.pc, Word4) ELSE None, AddW(s.pc, im), None, None, NoExcp)
  <2>1. decode_exec(i, s) = Outcome(IF i.rd # 0 THEN nemu_value(k, s, im) ELSE None,
                     CASE k = "jal" \/ nemu_taken(k, s.rs1, s.rs2) -> AddW(s.pc, im)
                       [] k = "jalr" -> ClearLow(AddW(s.rs1, im))
                       [] OTHER -> AddW(s.pc, Word4),
                     CASE k \in NemuLoads -> <<k, AddW(s.rs1, im), None>>
                       [] k \in NemuStores -> <<k, AddW(s.rs1, im), s.rs2>>
                       [] OTHER -> None,
                     nemu_csr(k, s, im), NoExcp)
    <3>1. k \notin DOMAIN nemu_special
      BY <1>6
    <3> HIDE DEF k
    <3> QED BY <1>2, <3>1, NemuOrdinary
  <2> HIDE DEF im
  <2> QED BY <1>5, <1>6, <2>1
<1> QED BY <1>4, <1>7, MovesToIs

\* jalr.
LEMMA JalrOutcome ==
    ASSUME NEW i \in InstWord, NEW s, Selected(i) = {"JALR"}, Tried(i, nemu_patterns) = {"jalr"}
    PROVE  MovesTo(i, s, ClearLow(AddW(s.rs1, WordOf(nemu_imm(i, "I")))))
<1> DEFINE im == WordOf(nemu_imm(i, "I"))
           k == "jalr"
<1>1. ListLookup(i) = Row("I", "PC", "Four", TRUE, "Add", "JALR", "Nop", "Nop", "ALU")
  <2>1. table("JALR") = Row("I", "PC", "Four", TRUE, "Add", "JALR", "Nop", "Nop", "ALU")
    BY DEF table, Branches, Loads, Stores, RegRegs, CsrRegs, CsrImms
  <2> QED BY <2>1, LookupIs
<1>2. First(i, nemu_patterns) = [name |-> k, type |-> "I"]
  <2>1. nemu_patterns["jalr"].type = "I"
    BY DEF nemu_patterns, P
  <2> QED BY <2>1, FirstIs
<1>3. im = WordOf(imm(i, "I"))
  BY ImmediatesAgree
<1>4. EXU(i, s) = Outcome(IF i.rd # 0 THEN AddW(s.pc, Word4) ELSE None, ClearLow(AddW(s.rs1, im)), None, None, NoExcp)
  BY <1>1, <1>3, ExuJalr
<1>5. nemu_value("jalr", s, im) = AddW(s.pc, Word4) /\ nemu_csr("jalr", s, im) = None /\ nemu_taken("jalr", s.rs1, s.rs2) = FALSE
  <2> HIDE DEF im
  <2> QED BY DEF nemu_value, nemu_csr, nemu_taken
<1>6. k \notin NemuLoads \cup NemuStores \cup DOMAIN nemu_special
  BY DEF nemu_special, NemuLoads, NemuStores
<1>7. decode_exec(i, s) = Outcome(IF i.rd # 0 THEN AddW(s.pc, Word4) ELSE None, ClearLow(AddW(s.rs1, im)), None, None, NoExcp)
  <2>1. decode_exec(i, s) = Outcome(IF i.rd # 0 THEN nemu_value(k, s, im) ELSE None,
                     CASE k = "jal" \/ nemu_taken(k, s.rs1, s.rs2) -> AddW(s.pc, im)
                       [] k = "jalr" -> ClearLow(AddW(s.rs1, im))
                       [] OTHER -> AddW(s.pc, Word4),
                     CASE k \in NemuLoads -> <<k, AddW(s.rs1, im), None>>
                       [] k \in NemuStores -> <<k, AddW(s.rs1, im), s.rs2>>
                       [] OTHER -> None,
                     nemu_csr(k, s, im), NoExcp)
    <3>1. k \notin DOMAIN nemu_special
      BY <1>6
    <3> HIDE DEF k
    <3> QED BY <1>2, <3>1, NemuOrdinary
  <2> HIDE DEF im
  <2> QED BY <1>5, <1>6, <2>1
<1> QED BY <1>4, <1>7, MovesToIs

\* The core decides a branch from the ALU's result, NEMU from the comparison.
LEMMA TakenAgrees ==
    ASSUME NEW a \in DataWord, NEW b \in DataWord, NEW n \in Branches
    PROVE  br_taken(n, ALU(AluOf[n], a, b)) <=> nemu_taken(NemuName[n], a, b)
<1>1. CASE n = "BEQ"
  <2>1. nemu_taken(NemuName[n], a, b) <=> a = b
    BY <1>1 DEF NemuName, nemu_taken
  <2>2. ALU(AluOf[n], a, b) = AddW(a, NegW(b))
    BY <1>1 DEF AluOf, ALU
  <2> DEFINE r == AddW(a, NegW(b))
  <2>3. br_taken(n, r) <=> r = Zero
    <3> HIDE DEF r
    <3> QED BY <1>1 DEF br_taken, Jumps
  <2> QED BY <2>1, <2>2, <2>3, DifferenceZero
<1>2. CASE n = "BNE"
  <2>1. nemu_taken(NemuName[n], a, b) <=> a # b
    BY <1>2 DEF NemuName, nemu_taken
  <2>2. ALU(AluOf[n], a, b) = AddW(a, NegW(b))
    BY <1>2 DEF AluOf, ALU
  <2> DEFINE r == AddW(a, NegW(b))
  <2>3. br_taken(n, r) <=> r # Zero
    <3> HIDE DEF r
    <3> QED BY <1>2 DEF br_taken, Jumps
  <2> QED BY <2>1, <2>2, <2>3, DifferenceZero
<1>3. CASE n \in {"BLT", "BLTU", "BGE", "BGEU"}
  <2> DEFINE less == IF n \in {"BLT", "BGE"} THEN Lt(a, b) ELSE Ltu(a, b)
             r == ALU(AluOf[n], a, b)
  <2>1. (less => r = Lsb(TRUE)) /\ (~less => r = Lsb(FALSE))
    <3>1. CASE n \in {"BLT", "BGE"}
      <4>1. r = Lsb(Lt(a, b))
        BY <3>1 DEF AluOf, ALU
      <4> QED BY <3>1, <4>1 DEF Lsb
    <3>2. CASE n \in {"BLTU", "BGEU"}
      <4>1. r = Lsb(Ltu(a, b))
        BY <3>2 DEF AluOf, ALU
      <4> QED BY <3>2, <4>1 DEF Lsb
    <3> QED BY <1>3, <3>1, <3>2
  <2>2. BIT(r, 0) = 1 <=> less
    BY <2>1, LsbBit
  <2> HIDE DEF r
  <2>3. br_taken(n, r) <=> IF n \in {"BLT", "BLTU"} THEN BIT(r, 0) = 1 ELSE BIT(r, 0) # 1
    BY <1>3 DEF br_taken, Jumps
  <2>4. nemu_taken(NemuName[n], a, b) <=> IF n \in {"BLT", "BLTU"} THEN less ELSE ~less
    BY <1>3 DEF NemuName, nemu_taken
  <2> QED BY <1>3, <2>2, <2>3, <2>4 DEF r
<1> QED BY <1>1, <1>2, <1>3 DEF Branches

\* The six branches.
LEMMA BranchOutcome ==
    ASSUME NEW i \in InstWord, NEW s \in Source, NEW n \in Branches, Selected(i) = {n}, Tried(i, nemu_patterns) = {NemuName[n]}
    PROVE  MovesTo(i, s, IF nemu_taken(NemuName[n], s.rs1, s.rs2) THEN AddW(s.pc, WordOf(nemu_imm(i, "B"))) ELSE AddW(s.pc, Word4))
<1> DEFINE im == WordOf(nemu_imm(i, "B"))
           taken == nemu_taken(NemuName[n], s.rs1, s.rs2)
           t == IF taken THEN AddW(s.pc, im) ELSE AddW(s.pc, Word4)
<1>1. ListLookup(i) = Row("B", "Rs1", "Rs2", FALSE, AluOf[n], n, "Nop", "Nop", "ALU")
  <2>1. table(n) = Row("B", "Rs1", "Rs2", FALSE, AluOf[n], n, "Nop", "Nop", "ALU")
    BY DEF table, Branches, Loads, Stores, RegRegs, CsrRegs, CsrImms
  <2> QED BY <2>1, LookupIs
<1>2. First(i, nemu_patterns) = [name |-> NemuName[n], type |-> "B"]
  <2>1. First(i, nemu_patterns) = [name |-> NemuName[n], type |-> nemu_patterns[NemuName[n]].type]
    BY FirstIs
  <2> QED BY <2>1, NemuTypes
<1>3. im = WordOf(imm(i, "B"))
  BY ImmediatesAgree
<1>4. br_taken(n, ALU(AluOf[n], s.rs1, s.rs2)) <=> taken
  BY TakenAgrees DEF Source
<1>5. EXU(i, s) = Outcome(None, t, None, None, NoExcp)
  <2>1. EXU(i, s) = Outcome(None,
                            IF br_taken(n, ALU(AluOf[n], s.rs1, s.rs2)) THEN AddW(s.pc, WordOf(imm(i, "B"))) ELSE AddW(s.pc, Word4),
                            None, None, NoExcp)
    BY <1>1, ExuBranch
  <2> HIDE DEF taken, im
  <2> QED BY <1>3, <1>4, <2>1
<1>6. /\ NemuName[n] \notin {"jal", "jalr"} \cup NemuLoads \cup NemuStores \cup DOMAIN nemu_special
      /\ nemu_value(NemuName[n], s, im) = None /\ nemu_csr(NemuName[n], s, im) = None
  <2> HIDE DEF im
  <2>1. NemuName[n] \in NemuBranches
    BY DEF NemuName, Branches, NemuBranches
  <2>2. NemuName[n] \notin {"jal", "jalr"} \cup NemuLoads \cup NemuStores \cup DOMAIN nemu_special
    BY <2>1 DEF NemuBranches, NemuLoads, NemuStores, nemu_special
  <2>3. nemu_value(NemuName[n], s, im) = None
    BY <2>1 DEF NemuBranches, nemu_value
  <2>4. nemu_csr(NemuName[n], s, im) = None
    BY <2>1 DEF NemuBranches, nemu_csr
  <2> QED BY <2>2, <2>3, <2>4
<1>7. decode_exec(i, s) = Outcome(None, t, None, None, NoExcp)
  <2>1. decode_exec(i, s) = Outcome(IF i.rd # 0 THEN nemu_value(NemuName[n], s, im) ELSE None,
                     CASE NemuName[n] = "jal" \/ nemu_taken(NemuName[n], s.rs1, s.rs2) -> AddW(s.pc, im)
                       [] NemuName[n] = "jalr" -> ClearLow(AddW(s.rs1, im))
                       [] OTHER -> AddW(s.pc, Word4),
                     CASE NemuName[n] \in NemuLoads -> <<NemuName[n], AddW(s.rs1, im), None>>
                       [] NemuName[n] \in NemuStores -> <<NemuName[n], AddW(s.rs1, im), s.rs2>>
                       [] OTHER -> None,
                     nemu_csr(NemuName[n], s, im), NoExcp)
    BY <1>2, <1>6, NemuOrdinary
  <2> HIDE DEF im
  <2> QED BY <1>6, <2>1
<1> QED BY <1>5, <1>7, MovesToIs

\* Loads and stores: both ask for the same access at the same address.
Asks(i, s, n, a, v) ==
    /\ EXU(i, s) = Outcome(None, AddW(s.pc, Word4), <<n, a, v>>, None, NoExcp)
    /\ decode_exec(i, s) = Outcome(None, AddW(s.pc, Word4), <<NemuName[n], a, v>>, None, NoExcp)

\* The five loads.
LEMMA LoadOutcome ==
    ASSUME NEW i \in InstWord, NEW s, NEW n \in Loads, Selected(i) = {n}, Tried(i, nemu_patterns) = {NemuName[n]}
    PROVE  Asks(i, s, n, AddW(s.rs1, WordOf(nemu_imm(i, "I"))), None)
<1> DEFINE im == WordOf(nemu_imm(i, "I"))
           k == NemuName[n]
<1>1. ListLookup(i) = Row("I", "Rs1", "Imm", TRUE, "Add", "Nop", n, "Nop", "LSU")
  <2>1. table(n) = Row("I", "Rs1", "Imm", TRUE, "Add", "Nop", n, "Nop", "LSU")
    BY DEF table, Branches, Loads, Stores, RegRegs, CsrRegs, CsrImms
  <2> QED BY <2>1, LookupIs
<1>2. First(i, nemu_patterns) = [name |-> k, type |-> "I"]
  <2>1. First(i, nemu_patterns) = [name |-> k, type |-> nemu_patterns[k].type]
    BY FirstIs
  <2> QED BY <2>1, NemuTypes
<1>3. im = WordOf(imm(i, "I"))
  BY ImmediatesAgree
<1>4. EXU(i, s) = Outcome(None, AddW(s.pc, Word4), <<n, AddW(s.rs1, im), None>>, None, NoExcp)
  BY <1>1, <1>3, ExuLoad
<1>5. k \in NemuLoads
  BY DEF NemuName, Loads, NemuLoads
<1>6. /\ k \notin {"jal", "jalr"} \cup DOMAIN nemu_special /\ nemu_taken(k, s.rs1, s.rs2) = FALSE
      /\ nemu_value(k, s, im) = None /\ nemu_csr(k, s, im) = None
  <2> HIDE DEF im, k
  <2>1. k \notin {"jal", "jalr"} \cup DOMAIN nemu_special /\ nemu_taken(k, s.rs1, s.rs2) = FALSE
    BY <1>5 DEF NemuLoads, nemu_special, nemu_taken
  <2>2. nemu_value(k, s, im) = None
    BY <1>5 DEF NemuLoads, nemu_value
  <2>3. nemu_csr(k, s, im) = None
    BY <1>5 DEF NemuLoads, nemu_csr
  <2> QED BY <2>1, <2>2, <2>3
<1>7. decode_exec(i, s) = Outcome(None, AddW(s.pc, Word4), <<k, AddW(s.rs1, im), None>>, None, NoExcp)
  <2>1. decode_exec(i, s) = Outcome(IF i.rd # 0 THEN nemu_value(k, s, im) ELSE None,
                     CASE k = "jal" \/ nemu_taken(k, s.rs1, s.rs2) -> AddW(s.pc, im)
                       [] k = "jalr" -> ClearLow(AddW(s.rs1, im))
                       [] OTHER -> AddW(s.pc, Word4),
                     CASE k \in NemuLoads -> <<k, AddW(s.rs1, im), None>>
                       [] k \in NemuStores -> <<k, AddW(s.rs1, im), s.rs2>>
                       [] OTHER -> None,
                     nemu_csr(k, s, im), NoExcp)
    <3> HIDE DEF k
    <3> QED BY <1>2, <1>6, NemuOrdinary
  <2>2. k \notin NemuStores
    BY <1>5 DEF NemuLoads, NemuStores
  <2> HIDE DEF im, k
  <2> QED BY <1>5, <1>6, <2>1, <2>2
<1> QED BY <1>4, <1>7 DEF Asks

\* The three stores.
LEMMA StoreOutcome ==
    ASSUME NEW i \in InstWord, NEW s, NEW n \in Stores, Selected(i) = {n}, Tried(i, nemu_patterns) = {NemuName[n]}
    PROVE  Asks(i, s, n, AddW(s.rs1, WordOf(nemu_imm(i, "S"))), s.rs2)
<1> DEFINE im == WordOf(nemu_imm(i, "S"))
           k == NemuName[n]
<1>1. ListLookup(i) = Row("S", "Rs1", "Imm", FALSE, "Add", "Nop", n, "Nop", "LSU")
  <2>1. table(n) = Row("S", "Rs1", "Imm", FALSE, "Add", "Nop", n, "Nop", "LSU")
    BY DEF table, Branches, Loads, Stores, RegRegs, CsrRegs, CsrImms
  <2> QED BY <2>1, LookupIs
<1>2. First(i, nemu_patterns) = [name |-> k, type |-> "S"]
  <2>1. First(i, nemu_patterns) = [name |-> k, type |-> nemu_patterns[k].type]
    BY FirstIs
  <2> QED BY <2>1, NemuTypes
<1>3. im = WordOf(imm(i, "S"))
  BY ImmediatesAgree
<1>4. EXU(i, s) = Outcome(None, AddW(s.pc, Word4), <<n, AddW(s.rs1, im), s.rs2>>, None, NoExcp)
  BY <1>1, <1>3, ExuStore
<1>5. k \in NemuStores
  BY DEF NemuName, Stores, NemuStores
<1>6. /\ k \notin {"jal", "jalr"} \cup DOMAIN nemu_special /\ nemu_taken(k, s.rs1, s.rs2) = FALSE
      /\ nemu_value(k, s, im) = None /\ nemu_csr(k, s, im) = None
  <2> HIDE DEF im, k
  <2>1. k \notin {"jal", "jalr"} \cup DOMAIN nemu_special /\ nemu_taken(k, s.rs1, s.rs2) = FALSE
    BY <1>5 DEF NemuStores, nemu_special, nemu_taken
  <2>2. nemu_value(k, s, im) = None
    BY <1>5 DEF NemuStores, nemu_value
  <2>3. nemu_csr(k, s, im) = None
    BY <1>5 DEF NemuStores, nemu_csr
  <2> QED BY <2>1, <2>2, <2>3
<1>7. decode_exec(i, s) = Outcome(None, AddW(s.pc, Word4), <<k, AddW(s.rs1, im), s.rs2>>, None, NoExcp)
  <2>1. decode_exec(i, s) = Outcome(IF i.rd # 0 THEN nemu_value(k, s, im) ELSE None,
                     CASE k = "jal" \/ nemu_taken(k, s.rs1, s.rs2) -> AddW(s.pc, im)
                       [] k = "jalr" -> ClearLow(AddW(s.rs1, im))
                       [] OTHER -> AddW(s.pc, Word4),
                     CASE k \in NemuLoads -> <<k, AddW(s.rs1, im), None>>
                       [] k \in NemuStores -> <<k, AddW(s.rs1, im), s.rs2>>
                       [] OTHER -> None,
                     nemu_csr(k, s, im), NoExcp)
    <3> HIDE DEF k
    <3> QED BY <1>2, <1>6, NemuOrdinary
  <2>2. k \notin NemuLoads
    BY <1>5 DEF NemuLoads, NemuStores
  <2> HIDE DEF im, k
  <2> QED BY <1>5, <1>6, <2>1, <2>2
<1> QED BY <1>4, <1>7 DEF Asks

\* What the trace functions look for.
LEMMA TraceLists == DOMAIN ldstr_patterns = NemuLoads \cup NemuStores /\ DOMAIN branch_patterns = NemuBranches \cup {"jal", "jalr"}
BY DEF ldstr_patterns, branch_patterns, NemuLoads, NemuStores, NemuBranches

\* isa_decode_ldstr records nothing of an instruction that is no load or store.
LEMMA NotTraced ==
    ASSUME NEW i \in InstWord, NEW s,
           \A k \in Tried(i, nemu_patterns) : k \notin NemuLoads \cup NemuStores
    PROVE  isa_decode_ldstr(i, s) = None
<1>1. Tried(i, ldstr_patterns) = {}
  BY PartOf, TraceLists
<1>2. First(i, ldstr_patterns) = Invalid
  BY <1>1, FirstNone
<1> QED BY <1>2 DEF isa_decode_ldstr

\* isa_decode_branch records nothing of an instruction that does not jump or branch.
LEMMA NotBranching ==
    ASSUME NEW i \in InstWord, NEW s,
           \A k \in Tried(i, nemu_patterns) : k \notin NemuBranches \cup {"jal", "jalr"}
    PROVE  isa_decode_branch(i, s) = None
<1>1. Tried(i, branch_patterns) = {}
  BY PartOf, TraceLists
<1>2. First(i, branch_patterns) = Invalid
  BY <1>1, FirstNone
<1> QED BY <1>2 DEF isa_decode_branch

\* The record of a load or store.
LEMMA Traced ==
    ASSUME NEW i \in InstWord, NEW s, NEW k \in NemuLoads \cup NemuStores, Tried(i, nemu_patterns) = {k}
    PROVE  LET t == nemu_patterns[k].type
           IN  isa_decode_ldstr(i, s) = [read |-> t = "I", addr |-> AddW(s.rs1, WordOf(nemu_imm(i, t)))]
<1> DEFINE t == nemu_patterns[k].type
<1>1. Tried(i, ldstr_patterns) = {k} /\ ldstr_patterns[k] = nemu_patterns[k]
  BY PartOf, TraceLists
<1>2. First(i, ldstr_patterns) = [name |-> k, type |-> t]
  BY <1>1, FirstIs
<1>3. First(i, ldstr_patterns) # Invalid
  BY <1>2 DEF NemuLoads, NemuStores, Invalid
<1> HIDE DEF t
<1>4. isa_decode_ldstr(i, s) = [read |-> t = "I", addr |-> AddW(s.rs1, WordOf(nemu_imm(i, t)))]
  BY <1>2, <1>3 DEF isa_decode_ldstr
<1> QED BY <1>4 DEF t

\* The record of a jump or branch.
LEMMA Branching ==
    ASSUME NEW i \in InstWord, NEW s, NEW k \in NemuBranches \cup {"jal", "jalr"}, Tried(i, nemu_patterns) = {k}
    PROVE  LET im == WordOf(nemu_imm(i, nemu_patterns[k].type))
           IN  isa_decode_branch(i, s) =
                   [uncond |-> k \in {"jal", "jalr"}, taken |-> k \in {"jal", "jalr"} \/ nemu_taken(k, s.rs1, s.rs2),
                    target |-> IF k = "jalr" THEN ClearLow(AddW(s.rs1, im)) ELSE AddW(s.pc, im)]
<1> DEFINE t == nemu_patterns[k].type
           im == WordOf(nemu_imm(i, t))
<1>1. Tried(i, branch_patterns) = {k} /\ branch_patterns[k] = nemu_patterns[k]
  BY PartOf, TraceLists
<1>2. First(i, branch_patterns) = [name |-> k, type |-> t]
  BY <1>1, FirstIs
<1>3. First(i, branch_patterns) # Invalid
  BY <1>2 DEF NemuBranches, Invalid
<1> HIDE DEF t
<1>4. isa_decode_branch(i, s) =
                   [uncond |-> k \in {"jal", "jalr"}, taken |-> k \in {"jal", "jalr"} \/ nemu_taken(k, s.rs1, s.rs2),
                    target |-> IF k = "jalr" THEN ClearLow(AddW(s.rs1, im)) ELSE AddW(s.pc, im)]
  BY <1>2, <1>3 DEF isa_decode_branch
<1> QED BY <1>4 DEF t

\* None is neither a record, a word nor a triple.
LEMMA NotNone ==
    /\ \A x, y, z : <<x, y, z>> # None
    /\ \A w \in DataWord : w # None
    /\ \A x, y : [read |-> x, addr |-> y] # None
    /\ \A x, y, z : [uncond |-> x, taken |-> y, target |-> z] # None
<1>1. DOMAIN None = {}
  BY DEF None
<1>2. \A w \in DataWord : 0 \in DOMAIN w
  BY DEF DataWord, Bytes
<1>3. \A x, y : "read" \in DOMAIN [read |-> x, addr |-> y]
  OBVIOUS
<1>4. \A x, y, z : "taken" \in DOMAIN [uncond |-> x, taken |-> y, target |-> z]
  OBVIOUS
<1>5. \A x, y, z : 1 \in DOMAIN <<x, y, z>>
  OBVIOUS
<1> QED BY <1>1, <1>2, <1>3, <1>4, <1>5

\* The formats of the core and the types of NEMU, instruction by instruction.
LEMMA TypesAre ==
    ASSUME NEW n \in DOMAIN InstPat
    PROVE  decode_operand(nemu_patterns[NemuName[n]].type) \subseteq reads(table(n))
<1>1. CASE n \in {"LUI", "AUIPC", "JAL", "ECALL", "EBREAK", "MRET", "FENCE_I"} \cup CsrImms
  <2>1. nemu_patterns[NemuName[n]].type \in {"U", "J", "N", "CSR_IMM"}
    BY <1>1, NemuTypes
  <2> QED BY <2>1 DEF decode_operand
<1>2. CASE n \in {"JALR"} \cup Loads \cup AluImms
  <2>1. nemu_patterns[NemuName[n]].type = "I"
    BY <1>2, NemuTypes
  <2>2. table(n).fmt = "I"
    BY <1>2 DEF table, AluRow, Row, Branches, Loads, Stores, RegRegs, CsrRegs, CsrImms, AluImms
  <2> QED BY <2>1, <2>2 DEF decode_operand, reads
<1>3. CASE n \in Stores
  <2>1. nemu_patterns[NemuName[n]].type = "S"
    BY <1>3, NemuTypes
  <2>2. table(n).fmt = "S"
    BY <1>3 DEF table, AluRow, Row, Branches, Loads, Stores, RegRegs, CsrRegs, CsrImms
  <2> QED BY <2>1, <2>2 DEF decode_operand, reads
<1>4. CASE n \in Branches
  <2>1. nemu_patterns[NemuName[n]].type = "B"
    BY <1>4, NemuTypes
  <2>2. table(n).fmt = "B"
    BY <1>4 DEF table, AluRow, Row, Branches, Loads, Stores, RegRegs, CsrRegs, CsrImms
  <2> QED BY <2>1, <2>2 DEF decode_operand, reads
<1>5. CASE n \in RegRegs
  <2>1. nemu_patterns[NemuName[n]].type = "R"
    BY <1>5, NemuTypes
  <2>2. table(n).fmt = "R"
    BY <1>5 DEF table, AluRow, Row, Branches, Loads, Stores, RegRegs, CsrRegs, CsrImms
  <2> QED BY <2>1, <2>2 DEF decode_operand, reads
<1>6. CASE n \in CsrRegs
  <2>1. nemu_patterns[NemuName[n]].type = "CSR"
    BY <1>6, NemuTypes
  <2>2. table(n).fmt = "C" /\ table(n).op2 = "Rs1"
    BY <1>6 DEF table, AluRow, Row, Branches, Loads, Stores, RegRegs, CsrRegs, CsrImms
  <2> QED BY <2>1, <2>2 DEF decode_operand, reads
<1>7. DOMAIN InstPat \subseteq {"LUI", "AUIPC", "JAL", "ECALL", "EBREAK", "MRET", "FENCE_I"} \cup CsrImms \cup {"JALR"} \cup Loads \cup AluImms
                               \cup Stores \cup Branches \cup RegRegs \cup CsrRegs
  BY DEF InstPat, RegRegs, AluImms, CsrRegs, CsrImms, Branches, Loads, Stores
<1> QED BY <1>1, <1>2, <1>3, <1>4, <1>5, <1>6, <1>7

\* One row at most, one pattern at most, both or neither, and the operands NEMU reads are those the core waits for.
LEMMA InstructionAgrees == ASSUME NEW i \in InstWord PROVE SameInstruction(i)
<1>1. \A pats \in {nemu_patterns, ldstr_patterns, branch_patterns} : \A m, n \in Tried(i, pats) : m = n
  <2>1. \A m, n \in Tried(i, nemu_patterns) : m = n
    BY NemuUnique
  <2>2. ASSUME NEW pats \in {ldstr_patterns, branch_patterns} PROVE \A m, n \in Tried(i, pats) : m = n
    BY <2>1, PartOf
  <2> QED BY <2>1, <2>2
<1>2. CASE \E n \in DOMAIN InstPat : Selected(i) = {n} /\ Tried(i, nemu_patterns) = {NemuName[n]}
  <2> PICK n \in DOMAIN InstPat : Selected(i) = {n} /\ Tried(i, nemu_patterns) = {NemuName[n]}
    BY <1>2
  <2>1. First(i, nemu_patterns) = [name |-> NemuName[n], type |-> nemu_patterns[NemuName[n]].type]
    BY FirstIs
  <2>2. NemuName[n] \notin NemuOnly \cup {"inv"}
    BY SameNames
  <2>3. decode_operand(First(i, nemu_patterns).type) \subseteq reads(ListLookup(i))
    BY <2>1, TypesAre, LookupIs
  <2>4. (Selected(i) = {}) = (First(i, nemu_patterns).name \in NemuOnly \cup {"inv"})
    BY <2>1, <2>2
  <2>5. \A m, l \in Selected(i) : m = l
    OBVIOUS
  <2> QED BY <1>1, <2>3, <2>4, <2>5 DEF SameInstruction
<1>3. CASE Selected(i) = {} /\ \E k \in NemuOnly : Tried(i, nemu_patterns) = {k}
  <2> PICK k \in NemuOnly : Tried(i, nemu_patterns) = {k}
    BY <1>3
  <2>1. First(i, nemu_patterns).name = k
    BY FirstIs
  <2>2. ListLookup(i).fmt = "E"
    BY <1>3, LookupNone DEF default, AluRow, Row
  <2>3. (Selected(i) = {}) = (First(i, nemu_patterns).name \in NemuOnly \cup {"inv"})
    BY <1>3, <2>1
  <2> QED BY <1>1, <1>3, <2>2, <2>3 DEF SameInstruction
<1>4. CASE Selected(i) = {} /\ Tried(i, nemu_patterns) = {}
  <2>1. First(i, nemu_patterns).name = "inv"
    BY <1>4, FirstNone DEF Invalid
  <2>2. ListLookup(i).fmt = "E"
    BY <1>4, LookupNone DEF default, AluRow, Row
  <2>3. (Selected(i) = {}) = (First(i, nemu_patterns).name \in NemuOnly \cup {"inv"})
    BY <1>4, <2>1
  <2> QED BY <1>1, <1>4, <2>2, <2>3 DEF SameInstruction
<1> QED BY <1>2, <1>3, <1>4, Decoded

\* An outcome is the record of its fields.
LEMMA IsOutcome ==
    ASSUME NEW i, NEW s
    PROVE  \E d, t, m, c, x : decode_exec(i, s) = Outcome(d, t, m, c, x)
<1>1. CASE First(i, nemu_patterns).name \in DOMAIN nemu_special
  BY <1>1, NemuSpecial
<1>2. CASE First(i, nemu_patterns).name \notin DOMAIN nemu_special
  BY Zenon, <1>2 DEF decode_exec
<1> QED BY <1>1, <1>2

\* Without a memory request the two outcomes are to be equal as they are.
LEMMA SameWithoutMem ==
    ASSUME NEW i, NEW s, EXU(i, s) = decode_exec(i, s), decode_exec(i, s).mem = None
    PROVE  SameOutcome(i, EXU(i, s), decode_exec(i, s))
<1>1. PICK d, t, m, c, x : decode_exec(i, s) = Outcome(d, t, m, c, x)
  BY IsOutcome
<1>2. decode_exec(i, s) = [decode_exec(i, s) EXCEPT !.mem = None]
  BY <1>1 DEF Outcome
<1> QED BY <1>2 DEF SameOutcome

\* What holds of an instruction, whoever decodes it.
Agreed(i, s) ==
    /\ SameOutcome(i, EXU(i, s), decode_exec(i, s))
    /\ TraceRight(i, s, decode_exec(i, s))
    /\ EXU(i, s).mem # None => EXU(i, s).mem[1] \in Loads \cup Stores /\ EXU(i, s).mem[2] \in DataWord

\* Plain instructions.
LEMMA AgreedPlain ==
    ASSUME NEW i \in InstWord, NEW s \in Source, NEW n \in Plain, Selected(i) = {n}, Tried(i, nemu_patterns) = {NemuName[n]}
    PROVE  Agreed(i, s)
<1>1. PlainOutcome(i, s)
  BY PlainAgree
<1>2. NemuName[n] \notin NemuLoads \cup NemuStores \cup NemuBranches \cup {"jal", "jalr"}
  <2>1. \A k \in NemuLoads \cup NemuStores \cup NemuBranches \cup {"jal", "jalr"} :
          TableName[k] \in Loads \cup Stores \cup Branches \cup Jumps
    BY DEF NemuLoads, NemuStores, NemuBranches, TableName, Loads, Stores, Branches, Jumps
  <2> QED BY <2>1, SameNames DEF Plain
<1>3. isa_decode_ldstr(i, s) = None /\ isa_decode_branch(i, s) = None
  BY <1>2, NotTraced, NotBranching
<1>4. TraceRight(i, s, decode_exec(i, s))
  BY <1>1, <1>3 DEF TraceRight, PlainOutcome
<1>5. SameOutcome(i, EXU(i, s), decode_exec(i, s))
  BY <1>1, SameWithoutMem DEF PlainOutcome
<1> QED BY <1>1, <1>4, <1>5 DEF Agreed, PlainOutcome

\* Jumps and branches.
LEMMA AgreedMoves ==
    ASSUME NEW i \in InstWord, NEW s \in Source, NEW n \in Branches \cup Jumps, Selected(i) = {n}, Tried(i, nemu_patterns) = {NemuName[n]}
    PROVE  Agreed(i, s)
<1> DEFINE k == NemuName[n]
           im == WordOf(nemu_imm(i, nemu_patterns[k].type))
           taken == k \in {"jal", "jalr"} \/ nemu_taken(k, s.rs1, s.rs2)
           target == IF k = "jalr" THEN ClearLow(AddW(s.rs1, im)) ELSE AddW(s.pc, im)
           t == IF taken THEN target ELSE AddW(s.pc, Word4)
           b == isa_decode_branch(i, s)
<1>1. k \in NemuBranches \cup {"jal", "jalr"} /\ k \notin NemuLoads \cup NemuStores
  BY DEF NemuName, Branches, Jumps, NemuBranches, NemuLoads, NemuStores
<1>2. MovesTo(i, s, t)
  <2>1. CASE n = "JAL"
    <3>1. k = "jal" /\ nemu_patterns[k].type = "J"
      BY <2>1, NemuTypes DEF NemuName
    <3>2. MovesTo(i, s, AddW(s.pc, WordOf(nemu_imm(i, "J"))))
      BY <2>1, <3>1, JalOutcome
    <3> HIDE DEF k
    <3> QED BY <3>1, <3>2
  <2>2. CASE n = "JALR"
    <3>1. k = "jalr" /\ nemu_patterns[k].type = "I"
      BY <2>2, NemuTypes DEF NemuName
    <3>2. MovesTo(i, s, ClearLow(AddW(s.rs1, WordOf(nemu_imm(i, "I")))))
      BY <2>2, <3>1, JalrOutcome
    <3> HIDE DEF k
    <3> QED BY <3>1, <3>2
  <2>3. CASE n \in Branches
    <3>1. k \notin {"jal", "jalr"} /\ nemu_patterns[k].type = "B"
      <4>1. k \notin {"jal", "jalr"}
        BY <2>3 DEF NemuName, Branches
      <4> QED BY <2>3, <4>1, NemuTypes
    <3>2. MovesTo(i, s, IF nemu_taken(k, s.rs1, s.rs2) THEN AddW(s.pc, WordOf(nemu_imm(i, "B"))) ELSE AddW(s.pc, Word4))
      BY <2>3, BranchOutcome
    <3> HIDE DEF k
    <3> QED BY <3>1, <3>2
  <2> QED BY <2>1, <2>2, <2>3 DEF Jumps
<1>3. isa_decode_ldstr(i, s) = None
  BY <1>1, NotTraced
<1>4. b = [uncond |-> k \in {"jal", "jalr"}, taken |-> taken, target |-> target]
  BY <1>1, Branching
<1>5. b # None
  BY <1>4, NotNone
<1>6. t = IF b.taken THEN b.target ELSE AddW(s.pc, Word4)
  <2> HIDE DEF b, target, taken
  <2> QED BY <1>4
<1>7. TraceRight(i, s, decode_exec(i, s))
  <2> HIDE DEF t
  <2> QED BY <1>2, <1>3, <1>5, <1>6 DEF TraceRight, MovesTo
<1>8. SameOutcome(i, EXU(i, s), decode_exec(i, s))
  BY <1>2, SameWithoutMem DEF MovesTo
<1> QED BY <1>2, <1>7, <1>8 DEF Agreed, MovesTo

\* Loads and stores.
LEMMA AgreedAccess ==
    ASSUME NEW i \in InstWord, NEW s \in Source, NEW n \in Loads \cup Stores, Selected(i) = {n}, Tried(i, nemu_patterns) = {NemuName[n]}
    PROVE  Agreed(i, s)
<1> DEFINE k == NemuName[n]
           type == nemu_patterns[k].type
           a == AddW(s.rs1, WordOf(nemu_imm(i, type)))
           v == IF n \in Stores THEN s.rs2 ELSE None
           l == isa_decode_ldstr(i, s)
           e == EXU(i, s)
           d == decode_exec(i, s)
<1>1. k \in NemuLoads \cup NemuStores /\ k \notin NemuBranches \cup {"jal", "jalr"} /\ RtlName[k] = n
  BY DEF NemuName, Loads, Stores, NemuBranches, NemuLoads, NemuStores, RtlName
<1>2. Asks(i, s, n, a, v) /\ (type = "I" <=> v = None)
  <2>1. CASE n \in Loads
    <3>1. type = "I" /\ n \notin Stores
      BY <2>1, NemuTypes DEF Loads, Stores
    <3> HIDE DEF type
    <3> QED BY <2>1, <3>1, LoadOutcome
  <2>2. CASE n \in Stores
    <3>1. type = "S"
      BY <2>2, NemuTypes
    <3>2. s.rs2 # None
      BY NotNone DEF Source
    <3> HIDE DEF type
    <3> QED BY <2>2, <3>1, <3>2, StoreOutcome
  <2> QED BY <2>1, <2>2
<1>3. isa_decode_branch(i, s) = None
  BY <1>1, NotBranching
<1>4. l = [read |-> type = "I", addr |-> a]
  BY <1>1, Traced
<1>5. l # None
  BY <1>4, NotNone
<1> HIDE DEF k, type, a, v, l, e, d
<1>6. /\ e = Outcome(None, AddW(s.pc, Word4), <<n, a, v>>, None, NoExcp)
      /\ d = Outcome(None, AddW(s.pc, Word4), <<k, a, v>>, None, NoExcp)
  BY <1>2 DEF Asks, e, d, k
<1>7. e.mem = <<n, a, v>> /\ d.mem = <<k, a, v>> /\ d.mem # None /\ d.dnpc = AddW(s.pc, Word4)
  BY <1>6, NotNone DEF Outcome
<1>8. TraceRight(i, s, d)
  <2>1. l.addr = d.mem[2]
    BY <1>4, <1>7
  <2>2. l.read = (d.mem[3] = None)
    <3>1. d.mem[3] = v
      BY <1>7
    <3>2. l.read = (type = "I")
      BY <1>4
    <3>3. (type = "I") = (v = None)
      BY <1>2
    <3> QED BY <3>1, <3>2, <3>3
  <2> QED BY <1>3, <1>5, <1>7, <2>1, <2>2 DEF TraceRight, l
<1>9. SameOutcome(i, e, d)
  <2>1. <<RtlName[d.mem[1]], d.mem[2], d.mem[3]>> = <<n, a, v>>
    BY <1>1, <1>7
  <2>2. e = [d EXCEPT !.mem = <<n, a, v>>]
    BY <1>6 DEF Outcome
  <2> QED BY <1>7, <2>1, <2>2 DEF SameOutcome
<1>10. a \in DataWord
  BY ImmTypes, WordTypes, SumBytes DEF a, Source
<1> QED BY <1>7, <1>8, <1>9, <1>10 DEF Agreed, e, d

\* An instruction that only NEMU has, or nobody: the core takes an illegal instruction.
LEMMA AgreedIllegal ==
    ASSUME NEW i \in InstWord, NEW s \in Source, Selected(i) = {},
           Tried(i, nemu_patterns) = {} \/ \E k \in NemuOnly : Tried(i, nemu_patterns) = {k}
    PROVE  Agreed(i, s)
<1>1. EXU(i, s) = Outcome(None, None, None, None, "illegal")
  BY LookupNone, ExuIllegal
<1>2. EXU(i, s).mem = None
  BY <1>1 DEF Outcome
<1>3. CASE Tried(i, nemu_patterns) = {}
  <2>1. First(i, nemu_patterns).name = "inv"
    BY <1>3, FirstNone DEF Invalid
  <2>2. decode_exec(i, s) = EXU(i, s)
    BY <1>1, <2>1, NemuSpecial DEF nemu_special
  <2>3. decode_exec(i, s).excp # NoExcp
    BY <1>1, <2>2 DEF Outcome, NoExcp
  <2>4. isa_decode_ldstr(i, s) = None /\ isa_decode_branch(i, s) = None
    BY <1>3, NotTraced, NotBranching
  <2>5. TraceRight(i, s, decode_exec(i, s))
    BY <1>2, <2>2, <2>3, <2>4 DEF TraceRight
  <2> QED BY <1>2, <2>2, <2>5, SameWithoutMem DEF Agreed
<1>4. ASSUME NEW k \in NemuOnly, Tried(i, nemu_patterns) = {k} PROVE Agreed(i, s)
  <2>1. First(i, nemu_patterns) = [name |-> k, type |-> nemu_patterns[k].type]
    BY <1>4, FirstIs
  <2>2. SameOutcome(i, EXU(i, s), decode_exec(i, s))
    BY <2>1 DEF SameOutcome
  <2>3. k \notin NemuLoads \cup NemuStores \cup NemuBranches \cup {"jal", "jalr"}
    BY DEF NemuOnly, NemuLoads, NemuStores, NemuBranches
  <2>4. isa_decode_ldstr(i, s) = None /\ isa_decode_branch(i, s) = None
    BY <1>4, <2>3, NotTraced, NotBranching
  <2>5. decode_exec(i, s).mem = None /\ (decode_exec(i, s).excp = NoExcp => decode_exec(i, s).dnpc = AddW(s.pc, Word4))
    <3>1. CASE k = "fence"
      <4>1. decode_exec(i, s) = Outcome(None, None, None, None, "todo")
        BY <2>1, <3>1, NemuSpecial DEF nemu_special
      <4> QED BY <4>1 DEF Outcome, NoExcp
    <3>2. CASE k # "fence"
      <4>1. k \notin DOMAIN nemu_special
        BY <3>2 DEF NemuOnly, nemu_special
      <4> DEFINE im == WordOf(nemu_imm(i, nemu_patterns[k].type))
      <4>2. decode_exec(i, s) = Outcome(IF i.rd # 0 THEN nemu_value(k, s, im) ELSE None, AddW(s.pc, Word4), None, nemu_csr(k, s, im), NoExcp)
        BY <2>1, <2>3, <4>1, NemuPlain
      <4> HIDE DEF im
      <4> QED BY <4>2 DEF Outcome
    <3> QED BY <3>1, <3>2
  <2>6. TraceRight(i, s, decode_exec(i, s))
    BY <2>4, <2>5 DEF TraceRight
  <2> QED BY <1>2, <2>2, <2>6 DEF Agreed
<1> QED BY <1>3, <1>4

\* All of them.
LEMMA OutcomeAgrees == ASSUME NEW i \in InstWord, NEW s \in Source PROVE Agreed(i, s)
<1>1. ASSUME NEW n \in DOMAIN InstPat, Selected(i) = {n}, Tried(i, nemu_patterns) = {NemuName[n]} PROVE Agreed(i, s)
  BY <1>1, AgreedPlain, AgreedMoves, AgreedAccess DEF Plain
<1> QED BY <1>1, AgreedIllegal, Decoded

(***************************************************************************)
(* Byte lanes.                                                             *)
(***************************************************************************)
\* A byte is the sum of its bits.
LEMMA BitsOfByte ==
    ASSUME NEW x \in 0 .. 255
    PROVE  ((x \div 1) % 2) + 2 * ((x \div 2) % 2) + 4 * ((x \div 4) % 2) + 8 * ((x \div 8) % 2) + 16 * ((x \div 16) % 2)
           + 32 * ((x \div 32) % 2) + 64 * ((x \div 64) % 2) + 128 * ((x \div 128) % 2) = x
OBVIOUS

\* The bits of a word, byte by byte.
LEMMA BitIs ==
    ASSUME NEW w, NEW m \in 0 .. 3, NEW j \in 0 .. 7
    PROVE  BIT(w, 8 * m + j) = (w[m] \div BitValue[j + 1]) % 2
<1>1. (8 * m + j) \div 8 = m /\ (8 * m + j) % 8 = j
  OBVIOUS
<1> QED BY <1>1 DEF BIT

\* Shifting by whole bytes moves each bit to the same place of another byte.
LEMMA ShiftedBit ==
    ASSUME NEW w, NEW off \in 0 .. 3, NEW k \in off .. 3, NEW j \in 0 .. 7
    PROVE  (IF 8 * k + j < 8 * off THEN 0 ELSE BIT(w, 8 * k + j - 8 * off)) = (w[k - off] \div BitValue[j + 1]) % 2
<1>1. ~(8 * k + j < 8 * off) /\ 8 * k + j - 8 * off = 8 * (k - off) + j /\ k - off \in 0 .. 3
  OBVIOUS
<1> QED BY <1>1, BitIs

\* Shifting by whole bytes moves the bytes: what LSU does to the data of a store.
LEMMA ShiftedByte ==
    ASSUME NEW w \in DataWord, NEW off \in 0 .. 3, NEW k \in off .. 3
    PROVE  Sll(w, 8 * off)[k] = w[k - off]
<1> DEFINE B(j) == IF 8 * k + j < 8 * off THEN 0 ELSE BIT(w, 8 * k + j - 8 * off)
           x == w[k - off]
<1>1. Sll(w, 8 * off)[k] = (IF 8 * k < 8 * off THEN 0 ELSE BIT(w, 8 * k - 8 * off)) + 2 * B(1) + 4 * B(2) + 8 * B(3) + 16 * B(4)
                           + 32 * B(5) + 64 * B(6) + 128 * B(7)
  BY DEF Sll, OfBits, Bytes
<1>2. 8 * k + 0 = 8 * k
  OBVIOUS
<1>3. x \in 0 .. 255
  <2>1. k - off \in Bytes
    BY DEF Bytes
  <2> QED BY <2>1 DEF DataWord, Byte
<1>4. /\ B(0) = (x \div 1) % 2 /\ B(1) = (x \div 2) % 2 /\ B(2) = (x \div 4) % 2 /\ B(3) = (x \div 8) % 2
      /\ B(4) = (x \div 16) % 2 /\ B(5) = (x \div 32) % 2 /\ B(6) = (x \div 64) % 2 /\ B(7) = (x \div 128) % 2
  <2>1. /\ BitValue[1] = 1 /\ BitValue[2] = 2 /\ BitValue[3] = 4 /\ BitValue[4] = 8
        /\ BitValue[5] = 16 /\ BitValue[6] = 32 /\ BitValue[7] = 64 /\ BitValue[8] = 128
    BY DEF BitValue
  <2>2. \A j \in 0 .. 7 : B(j) = (x \div BitValue[j + 1]) % 2
    BY ShiftedBit
  <2> HIDE DEF B, x
  <2> QED BY <2>1, <2>2
<1>5. Sll(w, 8 * off)[k] = B(0) + 2 * B(1) + 4 * B(2) + 8 * B(3) + 16 * B(4) + 32 * B(5) + 64 * B(6) + 128 * B(7)
  BY <1>1, <1>2
<1> HIDE DEF B
<1>6. Sll(w, 8 * off)[k] = ((x \div 1) % 2) + 2 * ((x \div 2) % 2) + 4 * ((x \div 4) % 2) + 8 * ((x \div 8) % 2) + 16 * ((x \div 16) % 2)
                           + 32 * ((x \div 32) % 2) + 64 * ((x \div 64) % 2) + 128 * ((x \div 128) % 2)
  BY <1>4, <1>5
<1> QED BY <1>3, <1>6, BitsOfByte

\* The lane LSU selects holds the bytes host_read reads.
LEMMA LoadLanes ==
    ASSUME NEW w \in DataWord, NEW off \in 0 .. 3, NEW op \in Loads, off % LenOf(op) = 0
    PROVE  selected_loaded_data(op, w, off) = Extend(host_read(w, off, LenOf(op)), op \in {"LB", "LH"})
<1>1. host_read(w, off, 1) = <<w[off]>>
  BY DEF host_read
<1>2. host_read(w, off, 2) = <<w[off], w[off + 1]>>
  BY DEF host_read
<1>3. off = 0 => host_read(w, off, 4) = <<w[0], w[1], w[2], w[3]>>
  BY DEF host_read
<1>4. CASE op \in {"LB", "LBU"}
  <2>1. LenOf(op) = 1
    BY <1>4 DEF LenOf
  <2> QED BY <1>1, <1>4, <2>1 DEF selected_loaded_data, lb_sel, Extend
<1>5. CASE op \in {"LH", "LHU"}
  <2>1. LenOf(op) = 2
    BY <1>5 DEF LenOf
  <2>2. off \in {0, 2}
    BY <2>1
  <2> QED BY <1>2, <1>5, <2>1, <2>2 DEF selected_loaded_data, lh_sel, Extend
<1>6. CASE op = "LW"
  <2>1. LenOf(op) = 4
    BY <1>6 DEF LenOf
  <2>2. off = 0
    BY <2>1
  <2>3. w = [k \in Bytes |-> <<w[0], w[1], w[2], w[3]>>[k + 1]]
    BY DEF DataWord, Bytes
  <2>4. selected_loaded_data(op, w, off) = w
    BY <1>6 DEF selected_loaded_data
  <2>5. Extend(<<w[0], w[1], w[2], w[3]>>, FALSE) = [k \in Bytes |-> <<w[0], w[1], w[2], w[3]>>[k + 1]]
    BY DEF Extend, Bytes
  <2>6. (op \in {"LB", "LH"}) = FALSE
    BY <1>6
  <2> QED BY <1>3, <2>1, <2>2, <2>3, <2>4, <2>5, <2>6
<1> QED BY <1>4, <1>5, <1>6 DEF Loads

\* The strobes and shifted data of LSU write the bytes host_write writes.
LEMMA StoreLanes ==
    ASSUME NEW w \in DataWord, NEW data \in DataWord, NEW off \in 0 .. 3, NEW op \in Stores, off % LenOf(op) = 0
    PROVE  pmem_write(w, selected_store_data(op, data, off), write_mask(op, off)) = host_write(w, off, LenOf(op), data)
<1>1. CASE op = "SB"
  <2>1. LenOf(op) = 1 /\ write_mask(op, off) = {off} /\ selected_store_data(op, data, off) = Sll(data, 8 * off)
    BY <1>1 DEF LenOf, write_mask, selected_store_data
  <2>2. Sll(data, 8 * off)[off] = data[off - off]
    BY ShiftedByte
  <2> QED BY <2>1, <2>2 DEF pmem_write, host_write, Bytes
<1>2. CASE op = "SH"
  <2>1. LenOf(op) = 2 /\ selected_store_data(op, data, off) = Sll(data, 8 * off)
    BY <1>2 DEF LenOf, selected_store_data
  <2>2. off \in {0, 2}
    BY <2>1
  <2>3. write_mask(op, off) = {off, off + 1}
    BY <1>2, <2>2 DEF write_mask
  <2>4. Sll(data, 8 * off)[off] = data[off - off] /\ Sll(data, 8 * off)[off + 1] = data[(off + 1) - off]
    BY <2>2, ShiftedByte
  <2> QED BY <2>1, <2>2, <2>3, <2>4 DEF pmem_write, host_write, Bytes
<1>3. CASE op = "SW"
  <2>1. LenOf(op) = 4 /\ selected_store_data(op, data, off) = data /\ write_mask(op, off) = 0 .. 3
    BY <1>3 DEF LenOf, selected_store_data, write_mask
  <2>2. off = 0
    BY <2>1
  <2> QED BY <2>1, <2>2 DEF pmem_write, host_write, Bytes
<1> QED BY <1>1, <1>2, <1>3 DEF Stores

\* Every aligned load and store.
LEMMA LanesAgree ==
    ASSUME NEW w \in DataWord, NEW data \in DataWord, NEW off \in 0 .. 3, NEW op \in Loads \cup Stores
    PROVE  LanesRight(w, data, off, op)
<1>1. op \in Stores => op \notin Loads
  BY DEF Loads, Stores
<1> QED BY <1>1, LoadLanes, StoreLanes DEF LanesRight

(***************************************************************************)
(* The address of the SDRAM chips.                                         *)
(***************************************************************************)
\* convert_sdram_addr undoes what the controller did to an address of the SDRAM, for both halves.
LEMMA SdramAgrees ==
    ASSUME NEW addr \in Int, 0 <= addr, addr < 67108864, NEW high \in BOOLEAN
    PROVE  SdramRight(addr, high)
<1> DEFINE A == addr \div 8192
           B == (addr % 8192) \div 4096
           C == (addr % 4096) \div 4
           h == IF high THEN 1 ELSE 0
           ca == A * 4096 + C * 4
           id == 2 * B + h
<1>1. A \in Int /\ 0 <= A /\ A < 8192 /\ B \in {0, 1} /\ C \in Int /\ 0 <= C /\ C < 1024 /\ h \in {0, 1}
  BY SMT
<1>2. (addr \div 4) * 4 = A * 8192 + B * 4096 + C * 4
  BY SMT
<1>3. SdramController(addr, high) = [addr |-> ca, id |-> id]
  <2>1. addr % 67108864 = addr
    BY SMT
  <2> QED BY SMT, <2>1 DEF SdramController, Field
<1> HIDE DEF A, B, C, h
<1>4. ca \in Int /\ 0 <= ca /\ ca < 33554432 /\ ca \div 4096 = A /\ ca % 4096 = C * 4
  BY SMT, <1>1
<1>5. id \div 2 = B /\ id % 2 = h
  BY SMT, <1>1
<1>6. (C * 4) \div 4 = C
  BY SMT, <1>1
<1>7. Field(ca, 4096, 33554432) = A /\ Field(ca, 4, 4096) = C
  <2> HIDE DEF ca
  <2>1. ca % 33554432 = ca
    BY SMT, <1>4
  <2> QED BY SMT, <1>4, <1>6, <2>1 DEF Field
<1> HIDE DEF ca, id
<1>8. convert_sdram_addr(ca, id) = A * 8192 + B * 4096 + C * 4 + h * 2
  BY SMT, <1>5, <1>7 DEF convert_sdram_addr
<1>9. convert_sdram_addr(ca, id) = (addr \div 4) * 4 + (IF high THEN 2 ELSE 0)
  BY SMT, <1>1, <1>2, <1>8 DEF h
<1> QED BY SMT, <1>3, <1>9 DEF SdramRight

\* An access of the core reaches the bytes it names, on chip and on the SDRAM.
LEMMA AccessAgrees ==
    ASSUME NEW s \in Source, NEW mem, mem[1] \in Loads \cup Stores, mem[2] \in DataWord
    PROVE  AccessRight(s, mem)
<1> DEFINE a == mem[2]  w0 == a[0]  w1 == a[1]  w2 == a[2]  w3 == a[3]
<1>1. w0 \in 0 .. 255 /\ w1 \in 0 .. 255 /\ w2 \in 0 .. 255 /\ w3 \in 0 .. 255
  BY DEF DataWord, Bytes, Byte
<1>2. LanesRight(s.mem, s.rs2, w0 % 4, mem[1])
  <2>1. w0 % 4 \in 0 .. 3
    <3> HIDE DEF w0
    <3> QED BY <1>1
  <2> QED BY <2>1, LanesAgree DEF Source
<1> DEFINE n == Lo24(a) + 16777216 * (w3 % 4)
<1>3. n \in Int /\ 0 <= n /\ n < 67108864
  <2>1. Lo24(a) = w0 + 256 * w1 + 65536 * w2
    BY SMT DEF Lo24
  <2> HIDE DEF w0, w1, w2, w3
  <2> QED BY SMT, <1>1, <2>1
<1>4. \A high \in BOOLEAN : SdramRight(n, high)
  <2> HIDE DEF n
  <2> QED BY SMT, <1>3, SdramAgrees
<1> QED BY SMT, <1>2, <1>4 DEF AccessRight

(***************************************************************************)
(* The specification.                                                      *)
(***************************************************************************)
\* The words and operands stay what they are.
DatapathInv == inst \in InstWord /\ src \in Source

\* For every set of instruction words and of operands, thus for every word there is: IDU, EXU, LSU and dpic.cpp do with it what
\* inst.c and host.h do.  The core selects at most one row and NEMU at most one pattern, in the same cases; results, next pc,
\* CSR value, exception and memory request agree; the bytes an access moves are the same; and the trace records are right.
THEOREM InstructionsAgree == DSpec => DatapathAgrees
<1>1. DInit => DatapathInv
  BY DatapathAssumption DEF DInit, DatapathInv, Source
<1>2. DatapathInv /\ [DNext]_dvars => DatapathInv'
  BY DEF DatapathInv, DNext, Execute, dvars
<1>3. DatapathInv /\ [DNext]_dvars => [DatapathStep]_dvars
  <2> SUFFICES ASSUME DatapathInv, Execute PROVE DatapathStep
    BY DEF DNext
  <2>1. core' = EXU(inst, src) /\ nemu' = decode_exec(inst, src)
    BY DEF Execute
  <2>2. SameInstruction(inst)
    BY InstructionAgrees DEF DatapathInv
  <2>3. Agreed(inst, src)
    BY OutcomeAgrees DEF DatapathInv
  <2>4. core'.mem # None => AccessRight(src, core'.mem)
    BY <2>1, <2>3, AccessAgrees DEF Agreed, DatapathInv
  <2> QED BY <2>1, <2>2, <2>3, <2>4 DEF DatapathStep, Agreed
<1> QED BY <1>1, <1>2, <1>3, PTL DEF DSpec, DatapathAgrees
=============================================================================
