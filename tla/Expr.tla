------------------------------- MODULE Expr -------------------------------
(***************************************************************************)
(* The expression evaluator behind p, x, w and b of both debuggers         *)
(* (npc/sim/sdb/expr.cpp, nemu/src/monitor/sdb/expr.c): lexer, parser by   *)
(* dominant operator, evaluation and the separate syntax check.  The two   *)
(* files are the same code but for the dereference.  A character is a      *)
(* one-character string; a token is its type with the value of a number or *)
(* the name of a register.  Words have EBITS bits.                         *)
(***************************************************************************)
LOCAL INSTANCE Integers
LOCAL INSTANCE Sequences
LOCAL INSTANCE FiniteSets
LOCAL INSTANCE Bitwise
LOCAL INSTANCE FiniteSetsExt
LOCAL INSTANCE SequencesExt

CONSTANTS EBITS,        \* bits of word_t (32 in the code)
          SimMem,       \* addresses DUTMemory::in_sim_mem accepts
          MemAt(_),     \* the word read there
          GprNames,     \* names of the registers, in order
          CsrNames      \* names of the CSRs
ASSUME ExprAssumption == EBITS \in Nat /\ EBITS > 3 /\ SimMem \subseteq 0 .. 2^EBITS - 1

(***************************************************************************)
(* make_token.                                                             *)
(***************************************************************************)
Blank == {" ", "\t", "\n"}
Dec == {"0", "1", "9"}
Hex == Dec \cup {"a", "F"}
Alnum == Hex \cup {"x", "X", "u", "U", "_"}
Fixed(cs, type) == [form |-> "fixed", cs |-> cs, type |-> type]
Class(form, type) == [form |-> form, cs |-> <<>>, type |-> type]
rules ==
    <<Class("blank", "NOTYPE"), Fixed(<<"&", "&">>, "LAND"), Fixed(<<"|", "|">>, "LOR"),
      Fixed(<<">", ">", ">">>, "ASHR"), Fixed(<<">", ">">>, "LSHR"), Fixed(<<"<", "<">>, "SHL"),
      Fixed(<<"=", "=">>, "EQ"), Fixed(<<"!", "=">>, "NE"), Fixed(<<"<", "=">>, "LE"), Fixed(<<">", "=">>, "GE"),
      Fixed(<<"<">>, "LT"), Fixed(<<">">>, "GT"), Fixed(<<"!">>, "LNOT"), Fixed(<<"~">>, "NOT"),
      Fixed(<<"&">>, "AND"), Fixed(<<"|">>, "OR"), Fixed(<<"^">>, "XOR"), Fixed(<<"+">>, "ADD"),
      Fixed(<<"-">>, "SUB"), Fixed(<<"*">>, "MUL"), Fixed(<<"/">>, "DIV"), Fixed(<<"%">>, "REM"),
      Fixed(<<"(">>, "LPAR"), Fixed(<<")">>, "RPAR"), Class("hex", "NUM"), Class("dec", "NUM"), Class("reg", "REG")>>
\* Length of the longest run of S in e that starts at i.
RunLen(e, i, S) == Max({n \in 0 .. Len(e) + 1 - i : \A k \in i .. i + n - 1 : e[k] \in S})
WithSuffix(e, i) == IF i <= Len(e) /\ e[i] \in {"u", "U"} THEN 1 ELSE 0
\* Length of the match of a rule at position i, 0 when there is none.
MatchLen(r, e, i) ==
    CASE r.form = "fixed" -> IF i + Len(r.cs) - 1 <= Len(e) /\ SubSeq(e, i, i + Len(r.cs) - 1) = r.cs THEN Len(r.cs) ELSE 0
      [] r.form = "blank" -> RunLen(e, i, Blank)
      [] r.form = "dec"   -> LET n == RunLen(e, i, Dec) IN IF n = 0 THEN 0 ELSE n + WithSuffix(e, i + n)
      [] r.form = "hex"   -> IF i + 2 <= Len(e) /\ e[i] = "0" /\ e[i + 1] \in {"x", "X"} /\ e[i + 2] \in Hex
                             THEN LET n == 2 + RunLen(e, i + 2, Hex) IN n + WithSuffix(e, i + n) ELSE 0
      [] r.form = "reg"   -> IF e[i] = "$" /\ i < Len(e) /\ e[i + 1] \in Alnum THEN 1 + RunLen(e, i + 1, Alnum) ELSE 0
\* The tokens with their text, or NoMatch.
NoMatch == <<[type |-> "no match", text |-> <<>>]>>
RECURSIVE TokensFrom(_, _)
TokensFrom(e, i) ==
    LET hits == {k \in DOMAIN rules : MatchLen(rules[k], e, i) > 0} IN
    CASE i > Len(e) -> <<>>
      [] i <= Len(e) /\ hits = {} -> NoMatch
      [] OTHER -> LET r == rules[Min(hits)]  n == MatchLen(r, e, i)  rest == TokensFrom(e, i + n)
                  IN  IF rest = NoMatch \/ r.type = "NOTYPE" THEN rest
                      ELSE <<[type |-> r.type, text |-> SubSeq(e, i, i + n - 1)]>> \o rest
make_token(e) == TokensFrom(e, 1)
nemu_make_token(e) == make_token(e)

(***************************************************************************)
(* Tokens, unary operators and parentheses.                                *)
(***************************************************************************)
Binary2 == {"EQ", "NE", "LE", "LT", "GE", "GT", "ADD", "SUB", "MUL", "DIV", "REM",
            "AND", "OR", "XOR", "SHL", "LSHR", "ASHR", "LAND", "LOR"}
Unary1 == {"NOT", "LNOT", "MINUS", "DEREF"}
is_binary_token(t) == t \in Binary2
is_unary_token(t) == t \in Unary1
expecting_an_expr(t) == is_binary_token(t) \/ is_unary_token(t) \/ t = "LPAR"
RECURSIVE UnaryFrom(_, _)
UnaryFrom(ts, i) ==
    IF i > Len(ts) THEN ts
    ELSE LET u == IF ts[i].t = "MUL" THEN "DEREF" ELSE "MINUS"
         IN  UnaryFrom(IF ts[i].t \in {"MUL", "SUB"} /\ (i = 1 \/ expecting_an_expr(ts[i - 1].t))
                       THEN [ts EXCEPT ![i].t = u] ELSE ts, i + 1)
match_unary_tokens(ts) == UnaryFrom(ts, 1)

Depth(ts, p, i) ==
    Cardinality({k \in p .. i : ts[k].t = "LPAR"}) - Cardinality({k \in p .. i : ts[k].t = "RPAR"})
\* "yes", "no" or "invalid", by the first index at which the loop returns.
check_parentheses(ts, p, q) ==
    IF ts[p].t # "LPAR" \/ ts[q].t # "RPAR" THEN "no"
    ELSE LET early == {i \in p .. q : ts[i].t = "RPAR" /\ Depth(ts, p, i) = 0 /\ i # q}
             under == {i \in p .. q : ts[i].t = "RPAR" /\ Depth(ts, p, i) < 0}
         IN  CASE early = {} /\ under = {} -> IF Depth(ts, p, q) = 0 THEN "yes" ELSE "no"
               [] OTHER -> IF Min(early \cup under) \in early THEN "no" ELSE "invalid"

get_precedence(t) ==
    CASE t \in Unary1 -> 100
      [] t \in {"MUL", "DIV", "REM"} -> 90
      [] t \in {"ADD", "SUB"} -> 80
      [] t \in {"SHL", "LSHR", "ASHR"} -> 70
      [] t \in {"LE", "GE", "LT", "GT"} -> 60
      [] t \in {"EQ", "NE"} -> 50
      [] t = "AND" -> 40
      [] t = "XOR" -> 30
      [] t = "OR" -> 20
      [] t = "LAND" -> 10
      [] t = "LOR" -> 0
\* Variant: the first operator of least precedence.
FindFirstOperator(ts, p, q) ==
    LET ops == {i \in p .. q : (is_binary_token(ts[i].t) \/ is_unary_token(ts[i].t)) /\ Depth(ts, p, i) <= 0}
        least == {i \in ops : \A k \in ops : get_precedence(ts[i].t) <= get_precedence(ts[k].t)}
    IN  IF ops = {} THEN 0 ELSE Min(least)
\* The last operator of least precedence outside parentheses, 0 if none.
find_dominant_operator(ts, p, q) ==
    LET ops == {i \in p .. q : (is_binary_token(ts[i].t) \/ is_unary_token(ts[i].t)) /\ Depth(ts, p, i) <= 0}
        least == {i \in ops : \A k \in ops : get_precedence(ts[i].t) <= get_precedence(ts[k].t)}
    IN  IF ops = {} THEN 0 ELSE Max(least)
nemu_find_dominant_operator(ts, p, q) == find_dominant_operator(ts, p, q)

(***************************************************************************)
(* eval.  A result is [ok, v]; NEMU's dereference of an address outside    *)
(* its memory does not return, which is the value PANIC.                   *)
(***************************************************************************)
EWrap(n) == n % 2^EBITS
ESigned(n) == IF n >= 2^(EBITS - 1) THEN n - 2^EBITS ELSE n
Ok(v) == [ok |-> TRUE, v |-> v]
Fail == [ok |-> FALSE, v |-> 0]
PANIC == -1
Bool(b) == IF b THEN 1 ELSE 0
\* strtol saturates at the host's long, then the result is truncated.
LONG_MAX == 2^(2 * EBITS - 1) - 1
strtol(n) == EWrap(IF n > LONG_MAX THEN LONG_MAX ELSE n)
\* A name is "pc", a register by number or by ABI name, or a CSR.
isa_reg_str2val(s) ==
    CASE s.k = "pc" -> Ok(s.v)
      [] s.k = "x" -> IF s.n >= Len(GprNames) THEN Fail ELSE Ok(s.n)
      [] OTHER -> IF \E i \in DOMAIN GprNames : GprNames[i] = s.n
                  THEN Ok((CHOOSE i \in DOMAIN GprNames : GprNames[i] = s.n) - 1) ELSE Fail
isa_csr_str2val(s) == IF s.k = "name" /\ s.n \in CsrNames THEN Ok(s.v) ELSE Fail
Register(s) == IF isa_reg_str2val(s).ok THEN isa_reg_str2val(s) ELSE isa_csr_str2val(s)
Deref(v, nemu) ==
    IF nemu THEN IF v \in SimMem THEN Ok(MemAt(v)) ELSE [ok |-> FALSE, v |-> PANIC]
    ELSE IF v % 4 # 0 \/ v \notin SimMem THEN Fail ELSE Ok(MemAt(v))
ApplyUnary(t, v, nemu) ==
    CASE t = "NOT"   -> Ok(2^EBITS - 1 - v)
      [] t = "LNOT"  -> Ok(Bool(v = 0))
      [] t = "MINUS" -> Ok(EWrap(-v))
      [] t = "DEREF" -> Deref(v, nemu)
ApplyBinary(t, a, b) ==
    CASE t = "EQ" -> Ok(Bool(a = b))  [] t = "NE" -> Ok(Bool(a # b))
      [] t = "LE" -> Ok(Bool(a <= b)) [] t = "LT" -> Ok(Bool(a < b))
      [] t = "GE" -> Ok(Bool(a >= b)) [] t = "GT" -> Ok(Bool(a > b))
      [] t = "ADD" -> Ok(EWrap(a + b)) [] t = "SUB" -> Ok(EWrap(a - b)) [] t = "MUL" -> Ok(EWrap(a * b))
      [] t = "AND" -> Ok(a & b) [] t = "OR" -> Ok(a | b) [] t = "XOR" -> Ok(a ^^ b)
      [] t = "SHL" -> Ok(EWrap(a * 2^b)) [] t = "LSHR" -> Ok(a \div 2^b)
      [] t = "ASHR" -> Ok(EWrap(ESigned(a) \div 2^b))
      [] t = "LAND" -> Ok(Bool(a # 0 /\ b # 0)) [] t = "LOR" -> Ok(Bool(a # 0 \/ b # 0))
      [] t = "DIV" -> IF b = 0 THEN Fail ELSE Ok(a \div b)
      [] t = "REM" -> IF b = 0 THEN Fail ELSE Ok(a % b)
RECURSIVE eval(_, _, _, _)
eval(ts, p, q, nemu) ==
    CASE p > q -> Fail
      [] p = q -> CASE ts[p].t = "NUM" -> Ok(strtol(ts[p].v))
                    [] ts[p].t = "REG" -> Register(ts[p].v)
                    [] OTHER -> Fail
      [] OTHER ->
           LET paren == check_parentheses(ts, p, q)
               op    == find_dominant_operator(ts, p, q)
           IN  CASE paren = "yes" -> eval(ts, p + 1, q - 1, nemu)
                 [] paren = "invalid" -> Fail
                 [] paren = "no" /\ op = 0 -> Fail
                 [] paren = "no" /\ op # 0 /\ is_unary_token(ts[op].t) ->
                      LET r == eval(ts, op + 1, q, nemu)
                      IN  IF r.ok THEN ApplyUnary(ts[op].t, r.v, nemu) ELSE r
                 [] OTHER ->
                      LET l == eval(ts, p, op - 1, nemu)  r == eval(ts, op + 1, q, nemu)
                      IN  CASE ~l.ok -> l [] l.ok /\ ~r.ok -> r [] OTHER -> ApplyBinary(ts[op].t, l.v, r.v)
nemu_eval(ts, p, q) == eval(ts, p, q, TRUE)
expr(ts) == LET u == match_unary_tokens(ts) IN eval(u, 1, Len(u), FALSE)
nemu_expr(ts) == LET u == match_unary_tokens(ts) IN nemu_eval(u, 1, Len(u))

RECURSIVE syntax_check_impl(_, _, _)
syntax_check_impl(ts, p, q) ==
    LET paren == check_parentheses(ts, p, q)
        op    == find_dominant_operator(ts, p, q)
    IN  CASE p > q -> FALSE
          [] p = q -> TRUE
          [] p < q /\ paren = "yes" -> syntax_check_impl(ts, p + 1, q - 1)
          [] p < q /\ (paren = "invalid" \/ (paren = "no" /\ op = 0)) -> FALSE
          [] OTHER -> /\ is_unary_token(ts[op].t) \/ syntax_check_impl(ts, p, op - 1)
                      /\ syntax_check_impl(ts, op + 1, q)
syntax_check(ts) == LET u == match_unary_tokens(ts) IN syntax_check_impl(u, 1, Len(u))
nemu_syntax_check(ts) == syntax_check(ts)

(***************************************************************************)
(* Reference: C's expression grammar on the same tokens, level by level.   *)
(* The value of a text is a set: empty when the grammar has no derivation. *)
(***************************************************************************)
Levels == <<{"LOR"}, {"LAND"}, {"OR"}, {"XOR"}, {"AND"}, {"EQ", "NE"}, {"LT", "LE", "GT", "GE"},
            {"SHL", "LSHR", "ASHR"}, {"ADD", "SUB"}, {"MUL", "DIV", "REM"}>>
Both(t, l, r) == IF ~l.ok THEN l ELSE IF ~r.ok THEN r ELSE ApplyBinary(t, l.v, r.v)
AsUnary(t) == CASE t = "SUB" -> "MINUS" [] t = "MUL" -> "DEREF" [] OTHER -> t
RECURSIVE Grammar(_, _)
Grammar(ts, level) ==
    CASE ts = <<>> -> {}
      [] ts # <<>> /\ level <= Len(Levels) ->
           Grammar(ts, level + 1)
           \cup UNION {IF ts[i].t \notin Levels[level] THEN {}
                       ELSE {Both(ts[i].t, l, r) : l \in Grammar(SubSeq(ts, 1, i - 1), level),
                                                  r \in Grammar(SubSeq(ts, i + 1, Len(ts)), level + 1)}
                       : i \in 2 .. Len(ts) - 1}
      [] OTHER ->
           CASE ts[1].t \in {"SUB", "MUL", "NOT", "LNOT"} ->
                  {IF r.ok THEN ApplyUnary(AsUnary(ts[1].t), r.v, FALSE) ELSE r :
                     r \in Grammar(Tail(ts), Len(Levels) + 1)}
             [] ts[1].t = "LPAR" -> IF Len(ts) > 2 /\ ts[Len(ts)].t = "RPAR"
                                    THEN Grammar(SubSeq(ts, 2, Len(ts) - 1), 1) ELSE {}
             [] Len(ts) = 1 /\ ts[1].t = "NUM" -> {Ok(EWrap(ts[1].v))}
             [] Len(ts) = 1 /\ ts[1].t = "REG" -> {Register(ts[1].v)}
             [] OTHER -> {}
InGrammar(ts) == Grammar(ts, 1) # {}

\* Shapes where the dominant operator is a unary one and hides what stands
\* before it: a unary operator directly under another one, after an operand,
\* or after an opening parenthesis that follows an operand.
HiddenPrefix(ts) ==
    LET u == match_unary_tokens(ts)
        operand(i) == u[i].t \in {"NUM", "REG", "RPAR"}
    IN  \E i \in 2 .. Len(u) :
          /\ is_unary_token(u[i].t)
          /\ is_unary_token(u[i - 1].t) \/ operand(i - 1) \/ (i > 2 /\ u[i - 1].t = "LPAR" /\ operand(i - 2))
ValueRight(ts) ==
    /\ InGrammar(ts) /\ ~HiddenPrefix(ts) => {expr(ts)} = Grammar(ts, 1)
    /\ expr(ts).ok => InGrammar(ts) \/ HiddenPrefix(ts)
    /\ expr(ts).ok => nemu_expr(ts) = expr(ts)
SyntaxRight(ts) ==
    /\ InGrammar(ts) => syntax_check(ts)
    /\ expr(ts).ok => nemu_syntax_check(ts)
\* Lexing: the first rule that matches is the longest match, and the tokens
\* are the text without its blanks.
LexRight(e) ==
    /\ make_token(e) # NoMatch =>
          FlattenSeq([k \in DOMAIN make_token(e) |-> make_token(e)[k].text]) = SelectSeq(e, LAMBDA c : c \notin Blank)
    /\ \A i \in DOMAIN e : \A k \in DOMAIN rules :
          LET hits == {n \in DOMAIN rules : MatchLen(rules[n], e, i) > 0}
          IN  hits # {} => MatchLen(rules[k], e, i) <= MatchLen(rules[Min(hits)], e, i)
===========================================================================
