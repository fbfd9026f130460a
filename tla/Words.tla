------------------------------- MODULE Words -------------------------------
(***************************************************************************)
(* Words of 32 bits as functions from byte number to byte: adding is a     *)
(* carry chain, loads and stores pick bytes, and shifts and logic go bit   *)
(* by bit.                                                                 *)
(***************************************************************************)
LOCAL INSTANCE Integers

Bytes == 0 .. 3
Byte == 0 .. 255
DataWord == [Bytes -> Byte]
BitValue == <<1, 2, 4, 8, 16, 32, 64, 128>>
BIT(w, i) == (w[i \div 8] \div BitValue[(i % 8) + 1]) % 2
OfBits(bit(_)) ==
    [k \in Bytes |-> bit(8 * k) + 2 * bit(8 * k + 1) + 4 * bit(8 * k + 2) + 8 * bit(8 * k + 3)
                     + 16 * bit(8 * k + 4) + 32 * bit(8 * k + 5) + 64 * bit(8 * k + 6) + 128 * bit(8 * k + 7)]
ByteAt(n, k) == CASE k = 0 -> n % 256 [] k = 1 -> (n \div 256) % 256 [] k = 2 -> (n \div 65536) % 256 [] k = 3 -> (n \div 16777216) % 256
WordOf(n) == [k \in Bytes |-> ByteAt(n, k)]
Zero == WordOf(0)
Lo24(w) == w[0] + 256 * w[1] + 65536 * w[2]
AddW(a, b) ==
    LET s0 == a[0] + b[0]
        s1 == a[1] + b[1] + (s0 \div 256)
        s2 == a[2] + b[2] + (s1 \div 256)
        s3 == a[3] + b[3] + (s2 \div 256)
    IN  [k \in Bytes |-> (CASE k = 0 -> s0 [] k = 1 -> s1 [] k = 2 -> s2 [] k = 3 -> s3) % 256]
NotW(a) == [k \in Bytes |-> 255 - a[k]]
NegW(a) == AddW(NotW(a), WordOf(1))
AndW(a, b) == OfBits(LAMBDA i : BIT(a, i) * BIT(b, i))
OrW(a, b) == OfBits(LAMBDA i : IF BIT(a, i) + BIT(b, i) = 0 THEN 0 ELSE 1)
XorW(a, b) == OfBits(LAMBDA i : IF BIT(a, i) = BIT(b, i) THEN 0 ELSE 1)
Sll(a, n) == OfBits(LAMBDA i : IF i < n THEN 0 ELSE BIT(a, i - n))
Srl(a, n) == OfBits(LAMBDA i : IF i + n > 31 THEN 0 ELSE BIT(a, i + n))
Sra(a, n) == OfBits(LAMBDA i : BIT(a, IF i + n > 31 THEN 31 ELSE i + n))
Ltu(a, b) == \E k \in Bytes : a[k] < b[k] /\ \A j \in k + 1 .. 3 : a[j] = b[j]
Lt(a, b) == IF BIT(a, 31) # BIT(b, 31) THEN BIT(a, 31) = 1 ELSE Ltu(a, b)
=============================================================================
