------------------------------- MODULE Klib -------------------------------
(***************************************************************************)
(* klib, the C library of the programs: string.c, stdio.c and stdlib.c.    *)
(* A byte is a number and 0 the terminator; memory is a function from      *)
(* addresses to bytes, and a routine that stores returns the new memory.   *)
(* Formatting works on sequences of one-character strings.                 *)
(***************************************************************************)
LOCAL INSTANCE Integers
LOCAL INSTANCE Sequences
LOCAL INSTANCE SequencesExt
LOCAL INSTANCE FiniteSetsExt

CONSTANTS ABITS,      \* bits of an address and of size_t (32 in the code)
          BUF_SZ      \* printf's buffer (1024 in the code)
ASSUME KlibAssumption == ABITS \in Nat /\ ABITS > 3 /\ BUF_SZ \in Nat \ {0}

(***************************************************************************)
(* string.c.  Loops that walk two pointers are recursive on the index.     *)
(***************************************************************************)
RECURSIVE StrlenFrom(_, _, _)
StrlenFrom(m, s, p) == IF m[p] = 0 THEN p - s ELSE StrlenFrom(m, s, p + 1)
strlen(m, s) == StrlenFrom(m, s, s)
RECURSIVE strcpy(_, _, _)
strcpy(m, dst, src) ==
    LET m1 == [m EXCEPT ![dst] = m[src]] IN IF m[src] = 0 THEN m1 ELSE strcpy(m1, dst + 1, src + 1)
strcat(m, dst, src) == strcpy(m, StrlenFrom(m, 0, dst), src)
RECURSIVE StrncpyFrom(_, _, _, _, _)
StrncpyFrom(m, dst, src, i, n) ==
    CASE i < n /\ m[src + i] # 0 -> StrncpyFrom([m EXCEPT ![dst + i] = m[src + i]], dst, src, i + 1, n)
      [] OTHER -> [a \in DOMAIN m |-> IF a \in dst + i .. dst + n - 1 THEN 0 ELSE m[a]]
strncpy(m, dst, src, n) == StrncpyFrom(m, dst, src, 0, n)
RECURSIVE strcmp(_, _, _)
strcmp(m, s1, s2) ==
    IF m[s1] # 0 /\ m[s1] = m[s2] THEN strcmp(m, s1 + 1, s2 + 1) ELSE m[s1] - m[s2]
RECURSIVE StrncmpFrom(_, _, _, _, _)
StrncmpFrom(m, s1, s2, i, n) ==
    CASE i < n /\ m[s1] # 0 /\ m[s1] = m[s2] -> StrncmpFrom(m, s1 + 1, s2 + 1, i + 1, n)
      [] i = n -> 0
      [] OTHER -> m[s1] - m[s2]
strncmp(m, s1, s2, n) == IF n = 0 THEN 0 ELSE StrncmpFrom(m, s1, s2, 0, n)
memset(m, s, c, n) == [a \in DOMAIN m |-> IF a \in s .. s + n - 1 THEN c ELSE m[a]]
CopyByte(m, d, s) == [m EXCEPT ![d] = m[s]]
memcpy(m, d, s, n) == FoldLeft(LAMBDA x, i : CopyByte(x, d + i - 1, s + i - 1), m, [i \in 1 .. n |-> i])
\* Variant: always forward.
MemmoveForward(m, d, s, n) == memcpy(m, d, s, n)
memmove(m, d, s, n) ==
    CASE d = s \/ n = 0 -> m
      [] d < s /\ n # 0 -> memcpy(m, d, s, n)
      [] OTHER -> FoldLeft(LAMBDA x, i : CopyByte(x, d + i - 1, s + i - 1), m, [i \in 1 .. n |-> n + 1 - i])
RECURSIVE MemcmpFrom(_, _, _, _, _)
MemcmpFrom(m, a, b, i, n) ==
    CASE i = n -> 0
      [] i < n /\ m[a + i] # m[b + i] -> m[a + i] - m[b + i]
      [] OTHER -> MemcmpFrom(m, a, b, i + 1, n)
memcmp(m, s1, s2, n) == MemcmpFrom(m, s1, s2, 0, n)

(***************************************************************************)
(* stdio.c.  A printing state has the characters stored so far, how many   *)
(* were produced, the room and the arguments not yet fetched; a slot of    *)
(* the list is the argument in every type the format may ask for (d an     *)
(* integer, s a string), so that formats and arguments always agree.       *)
(***************************************************************************)
Digit == <<"0", "1", "2", "3", "4", "5", "6", "7", "8", "9", "a", "b", "c", "d", "e", "f">>
WRITE_CHAR(p, c) ==
    [p EXCEPT !.out = IF Len(p.out) < p.cap THEN Append(@, c) ELSE @, !.needed = @ + 1]
WriteAll(p, cs) == FoldLeft(WRITE_CHAR, p, cs)
RECURSIVE ReversedDigits(_, _)
ReversedDigits(n, base) ==
    IF n = 0 THEN <<>> ELSE <<Digit[(n % base) + 1]>> \o ReversedDigits(n \div base, base)
Magnitude(n) == IF n < 0 THEN -n ELSE n
Times(c, n) == [i \in 1 .. (IF n > 0 THEN n ELSE 0) |-> c]
print_integer(p, negative, abs_val, zero_pad, width, fmt) ==
    LET digits == IF abs_val = 0 THEN <<"0">>
                  ELSE Reverse(ReversedDigits(abs_val, IF fmt = "x" THEN 16 ELSE 10))
        pad    == width - Len(digits) - (IF negative THEN 1 ELSE 0)
    IN  WriteAll(p,
          CASE negative /\ zero_pad /\ width > 0 -> <<"-">> \o Times("0", pad) \o digits
            [] negative /\ ~(zero_pad /\ width > 0) -> Times(" ", pad) \o <<"-">> \o digits
            [] OTHER -> Times(IF zero_pad THEN "0" ELSE " ", pad) \o digits)

IsDigit(c) == \E i \in 1 .. 10 : Digit[i] = c
ValueOf(c) == (CHOOSE i \in 1 .. 10 : Digit[i] = c) - 1
RECURSIVE Width(_, _, _)
Width(fmt, f, w) ==     \* <<index after the digits, width>>
    IF f <= Len(fmt) /\ IsDigit(fmt[f]) THEN Width(fmt, f + 1, w * 10 + ValueOf(fmt[f])) ELSE <<f, w>>
RECURSIVE Format(_, _, _)
Conversion(p, fmt, f, zero_pad, width, next(_, _)) ==
    LET length == IF fmt[f] # "l" THEN 0 ELSE IF f < Len(fmt) /\ fmt[f + 1] = "l" THEN 2 ELSE 1
        g      == f + length
        c      == IF g <= Len(fmt) THEN fmt[g] ELSE "NUL"
        fetched == [p EXCEPT !.ap = Tail(@)]
    IN  CASE c = "d" -> next(print_integer(fetched, Head(p.ap).d < 0, Magnitude(Head(p.ap).d),
                                 zero_pad, width, c), g + 1)
          [] c \in {"u", "x"} -> next(print_integer(fetched, FALSE, Head(p.ap).d % 2^ABITS, zero_pad, width, c), g + 1)
          [] OTHER -> next(WRITE_CHAR(WRITE_CHAR(p, "%"), c), g + 1)
Format(p, fmt, f) ==
    LET literal == f <= Len(fmt) /\ fmt[f] # "%"
        zero    == f < Len(fmt) /\ fmt[f + 1] = "0"
        w       == Width(fmt, IF zero THEN f + 2 ELSE f + 1, 0)
    IN  CASE f > Len(fmt) -> p
          [] literal -> Format(WRITE_CHAR(p, fmt[f]), fmt, f + 1)
          [] f = Len(fmt) /\ ~literal -> p
          [] f < Len(fmt) /\ ~literal /\ fmt[f + 1] = "%" -> Format(WRITE_CHAR(p, "%"), fmt, f + 2)
          [] OTHER ->
               CASE w[1] > Len(fmt) -> p
                 [] w[1] <= Len(fmt) /\ fmt[w[1]] = "s" ->
                      Format([WriteAll(p, Head(p.ap).s) EXCEPT !.ap = Tail(@)], fmt, w[1] + 1)
                 [] OTHER -> Conversion(p, fmt, w[1], zero, w[2], LAMBDA q, g : Format(q, fmt, g))
\* out holds the characters before the terminator; n = 0 stores none at all.
vsnprintf(n, fmt, ap) ==
    LET p == Format([out |-> <<>>, needed |-> 0, cap |-> IF n > 0 THEN n - 1 ELSE 0, ap |-> ap], fmt, 1)
    IN  [stored |-> IF n > 0 THEN Append(p.out, "NUL") ELSE <<>>, ret |-> p.needed]
sprintf(fmt, ap) == vsnprintf(2^ABITS - 1, fmt, ap)
printf(fmt, ap) ==
    LET r == vsnprintf(BUF_SZ, fmt, ap)
        to_write == IF r.ret >= BUF_SZ THEN BUF_SZ - 1 ELSE r.ret
    IN  [putch |-> SubSeq(r.stored, 1, to_write), ret |-> to_write]

(***************************************************************************)
(* stdlib.c.                                                               *)
(***************************************************************************)
RECURSIVE AtoiFrom(_, _, _)
AtoiFrom(s, i, x) ==
    IF i <= Len(s) /\ IsDigit(s[i]) THEN AtoiFrom(s, i + 1, x * 10 + ValueOf(s[i])) ELSE x
RECURSIVE atoi(_)
atoi(s) == IF s # <<>> /\ Head(s) = " " THEN atoi(Tail(s)) ELSE AtoiFrom(s, 1, 0)
ROUNDUP(a) == (((a + 7) % 2^ABITS) \div 8) * 8
NULL == 0
UNSET == 2^ABITS - 1
\* One call: the pointer returned and the new alloc_base.
malloc(heap, alloc_base, size) ==
    LET base == IF alloc_base = UNSET THEN ROUNDUP(heap.start) ELSE alloc_base
        new_base == (base + ROUNDUP(size)) % 2^ABITS
    IN  IF new_base > heap.end THEN [ptr |-> NULL, base |-> base] ELSE [ptr |-> base, base |-> new_base]
Mallocs(heap, sizes) ==
    FoldLeft(LAMBDA s, n : LET c == malloc(heap, s.base, n)
                           IN  [base |-> c.base, blocks |-> Append(s.blocks, [ptr |-> c.ptr, size |-> n])],
             [base |-> UNSET, blocks |-> <<>>], sizes)

(***************************************************************************)
(* References.                                                             *)
(***************************************************************************)
Text(m, s) == LET e == Min({a \in DOMAIN m : a >= s /\ m[a] = 0}) IN [i \in 1 .. e - s |-> m[s + i - 1]]
Terminated(m, s) == \E a \in DOMAIN m : a >= s /\ m[a] = 0
Place(m, d, cs) == [a \in DOMAIN m |-> IF a \in d .. d + Len(cs) - 1 THEN cs[a - d + 1] ELSE m[a]]
Region(m, s, n) == [i \in 1 .. n |-> m[s + i - 1]]
Fits(m, s, n) == \A a \in s .. s + n - 1 : a \in DOMAIN m
Sgn(n) == IF n < 0 THEN -1 ELSE IF n > 0 THEN 1 ELSE 0
\* The order of two byte sequences: the first difference, a prefix first.
Order(s, t) ==
    LET D == {i \in 1 .. Len(s) : i > Len(t) \/ s[i] # t[i]} IN
    IF D = {} THEN IF Len(s) < Len(t) THEN -1 ELSE 0
    ELSE LET i == Min(D) IN IF i > Len(t) THEN 1 ELSE Sgn(s[i] - t[i])
Prefix(s, n) == SubSeq(s, 1, IF Len(s) < n THEN Len(s) ELSE n)

CopiesRight(m, d, s, n) ==
    /\ Fits(m, d, n) /\ Fits(m, s, n) => memmove(m, d, s, n) = Place(m, d, Region(m, s, n))
    /\ Fits(m, d, n) /\ Fits(m, s, n) /\ (d + n <= s \/ s + n <= d) =>
          /\ memcpy(m, d, s, n) = Place(m, d, Region(m, s, n))
          /\ Sgn(memcmp(memcpy(m, d, s, n), d, s, n)) = 0
    /\ Fits(m, d, n) /\ Fits(m, s, n) => Sgn(memcmp(m, d, s, n)) = Order(Region(m, d, n), Region(m, s, n))
    /\ Fits(m, d, n) => memset(m, d, 1, n) = Place(m, d, Times(1, n))
StringsRight(m, d, s, n) ==
    LET t == Text(m, s)  u == Text(m, d)
        room(k) == Fits(m, d, k) /\ (d + k <= s \/ s + Len(t) < d)
    IN  /\ strlen(m, s) = Len(t)
        /\ room(Len(t) + 1) => strcpy(m, d, s) = Place(m, d, Append(t, 0))
        /\ room(n) => strncpy(m, d, s, n) = Place(m, d, Prefix(t, n) \o Times(0, n - Len(t)))
        /\ room(Len(u) + Len(t) + 1) => strcat(m, d, s) = Place(m, d, Append(u \o t, 0))
        /\ Sgn(strcmp(m, d, s)) = Order(u, t)
        /\ Sgn(strncmp(m, d, s, n)) = Order(Prefix(u, n), Prefix(t, n))

\* Decoding what a conversion printed: leading blanks, a sign, digits.
DigitValue(c) == (CHOOSE i \in DOMAIN Digit : Digit[i] = c) - 1
Decode(t, base) ==
    LET start == Min({i \in DOMAIN t : t[i] # " "})
        sign  == t[start] = "-"
        ds    == SubSeq(t, IF sign THEN start + 1 ELSE start, Len(t))
        v     == FoldLeft(LAMBDA n, c : n * base + DigitValue(c), 0, ds)
    IN  IF sign THEN -v ELSE v
NumberRight(v, zero, width, length, conv) ==
    LET fmt  == <<"%">> \o Times("0", IF zero THEN 1 ELSE 0)
                \o (IF width = 0 THEN <<>> ELSE <<Digit[width + 1]>>) \o Times("l", length) \o <<conv>>
        r    == sprintf(fmt, <<[d |-> v, s |-> <<>>]>>)
        t    == SubSeq(r.stored, 1, r.ret)
        base == IF conv = "x" THEN 16 ELSE 10
        want == IF conv = "d" THEN v ELSE v % 2^ABITS
        least == (IF want < 0 THEN 1 ELSE 0) + Min({k \in 1 .. ABITS \div 2 : Magnitude(want) < base^k})
    IN  /\ Decode(t, base) = want
        /\ Len(t) = IF width > least THEN width ELSE least
        /\ zero /\ width > 0 => \A i \in DOMAIN t : t[i] # " "
        /\ want >= 0 /\ conv # "x" => atoi(t) = want
\* A smaller buffer changes nothing but where the text ends.
TruncationRight(fmt, ap, n) ==
    LET full == sprintf(fmt, ap)
        r    == vsnprintf(n, fmt, ap)
        text == SubSeq(full.stored, 1, Len(full.stored) - 1)
    IN  /\ r.ret = full.ret /\ Len(text) = full.ret
        /\ r.stored = IF n = 0 THEN <<>> ELSE Append(Prefix(text, n - 1), "NUL")
        /\ printf(fmt, ap).putch = Prefix(text, BUF_SZ - 1)
\* Blocks of a program whose requests stay below the wrap-around of size_t.
BlocksRight(heap, sizes) ==
    LET B == Mallocs(heap, sizes).blocks
        live == {i \in DOMAIN B : B[i].ptr # NULL}
        bytes(i) == B[i].ptr .. B[i].ptr + B[i].size - 1
    IN  /\ \A i \in live : B[i].ptr % 8 = 0 /\ \A a \in bytes(i) : heap.start <= a /\ a < heap.end
        /\ \A i, k \in live : i # k => bytes(i) \cap bytes(k) = {}
===========================================================================
