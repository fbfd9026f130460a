------------------------------- MODULE KExpr -------------------------------
(***************************************************************************)
(* Dependency expressions of the configuration system (kconfig/expr.c).    *)
(* An expression is a tuple: <<"NULL">>, <<"SYMBOL", s>>, <<"NOT", e>>,    *)
(* <<"AND", e, f>>, <<"OR", e, f>> or a comparison <<rel, s, t>> of two    *)
(* symbols.  A pointer into an expression is a path of 2s (left) and 3s    *)
(* (right).  An assignment v gives every symbol its string value.          *)
(***************************************************************************)
LOCAL INSTANCE Integers
LOCAL INSTANCE Sequences
LOCAL INSTANCE FiniteSets
LOCAL INSTANCE SequencesExt

CONSTANTS symtype,      \* the type of each symbol; of the constants "y", "m", "n" it is "unknown"
          strings       \* per string value: its place in strcmp's order, and its
                        \* readings as a decimal, hexadecimal and C number, or NaN

NULLEXPR == <<"NULL">>
Sym(s) == <<"SYMBOL", s>>
Yes == Sym("y")
No == Sym("n")
Mod == Sym("m")
Type(e) == e[1]
Connectives == {"AND", "OR"}
Relations == {"EQUAL", "UNEQUAL", "LTH", "LEQ", "GTH", "GEQ"}
IsSym(e, s) == Type(e) = "SYMBOL" /\ e[2] = s
expr_is_yes(e) == e = NULLEXPR \/ IsSym(e, "y")
expr_alloc_and(e, f) == IF e = NULLEXPR THEN f ELSE IF f = NULLEXPR THEN e ELSE <<"AND", e, f>>
expr_alloc_or(e, f) == IF e = NULLEXPR THEN f ELSE IF f = NULLEXPR THEN e ELSE <<"OR", e, f>>

(***************************************************************************)
(* expr_calc_value.  Tristates are 0, 1, 2.                                *)
(***************************************************************************)
NaN == -99
Tri(str) == CASE str = "n" -> 0 [] str = "m" -> 1 [] str = "y" -> 2 [] OTHER -> -1
IsConst(s) == s \in {"y", "m", "n"}
IsTri(s) == symtype[s] \in {"boolean", "tristate"}
KMin(a, b) == IF a < b THEN a ELSE b
KMax(a, b) == IF a < b THEN b ELSE a
expr_parse_string(str, type) ==
    LET val == CASE type \in {"boolean", "tristate"} -> Tri(str)
                 [] type = "int" -> strings[str].dec
                 [] type = "hex" -> strings[str].hex
                 [] OTHER -> strings[str].any
    IN  [kind |-> IF val = NaN THEN "string" ELSE "number", val |-> val]
Compare(s, t, v) ==
    LET both_strings == symtype[s] = "string" /\ symtype[t] = "string"
        minus(l, r) == IF both_strings \/ l.kind = "string" \/ r.kind = "string"
                       THEN strings[v[s]].order - strings[v[t]].order ELSE l.val - r.val
    IN  minus(expr_parse_string(v[s], symtype[s]), expr_parse_string(v[t], symtype[t]))
Holds(rel, diff) ==
    \/ rel = "EQUAL" /\ diff = 0
    \/ rel = "UNEQUAL" /\ diff # 0
    \/ rel = "LTH" /\ diff < 0
    \/ rel = "LEQ" /\ diff <= 0
    \/ rel = "GTH" /\ diff > 0
    \/ rel = "GEQ" /\ diff >= 0
RECURSIVE expr_calc_value(_, _)
expr_calc_value(e, v) ==
    CASE Type(e) = "NULL" -> 2
      [] Type(e) = "SYMBOL" -> IF IsTri(e[2]) \/ IsConst(e[2]) THEN Tri(v[e[2]]) ELSE 0
      [] Type(e) = "AND" -> KMin(expr_calc_value(e[2], v), expr_calc_value(e[3], v))
      [] Type(e) = "OR" -> KMax(expr_calc_value(e[2], v), expr_calc_value(e[3], v))
      [] Type(e) = "NOT" -> 2 - expr_calc_value(e[2], v)
      [] Type(e) \in Relations -> IF Holds(Type(e), Compare(e[2], e[3], v)) THEN 2 ELSE 0

(***************************************************************************)
(* Constants are eliminated, equal operands recognised.                    *)
(***************************************************************************)
RECURSIVE expr_eliminate_yn(_)
expr_eliminate_yn(e) ==
    IF Type(e) \notin Connectives THEN e
    ELSE LET l == expr_eliminate_yn(e[2])  r == expr_eliminate_yn(e[3])
             absorbs == IF Type(e) = "AND" THEN No ELSE Yes
             neutral == IF Type(e) = "AND" THEN Yes ELSE No
         IN  CASE l = absorbs \/ r = absorbs -> absorbs
               [] l = neutral /\ r # absorbs -> r
               [] l \notin {neutral, absorbs} /\ r = neutral -> l
               [] OTHER -> <<Type(e), l, r>>
RECURSIVE __expr_eliminate_eq(_, _)
RECURSIVE expr_eq(_, _)
\* Operands of both sides that are equal become constants that vanish.
__expr_eliminate_eq(type, es) ==
    LET e == es[1]  f == es[2]
        unit == IF type = "OR" THEN No ELSE Yes
    IN  CASE Type(e) = type ->
               LET a == __expr_eliminate_eq(type, <<e[2], f>>)
                   b == __expr_eliminate_eq(type, <<e[3], a[2]>>)
               IN  <<<<type, a[1], b[1]>>, b[2]>>
          [] Type(e) # type /\ Type(f) = type ->
               LET a == __expr_eliminate_eq(type, <<e, f[2]>>)
                   b == __expr_eliminate_eq(type, <<a[1], f[3]>>)
               IN  <<b[1], <<type, a[2], b[2]>>>>
          [] OTHER -> IF (e = f /\ e \in {Yes, No}) \/ ~expr_eq(e, f) THEN es ELSE <<unit, unit>>
expr_eliminate_eq(e, f) ==
    LET a == IF Type(e) \in Connectives THEN __expr_eliminate_eq(Type(e), <<e, f>>) ELSE <<e, f>>
        b == IF Type(a[1]) # Type(a[2]) /\ Type(a[2]) \in Connectives
             THEN __expr_eliminate_eq(Type(a[2]), a) ELSE a
    IN  IF NULLEXPR \in {e, f} THEN <<e, f>> ELSE <<expr_eliminate_yn(b[1]), expr_eliminate_yn(b[2])>>
\* Variant: two connectives are equal as soon as one of them is used up.
ExprEqEither(e, f) ==
    CASE NULLEXPR \in {e, f} -> expr_is_yes(e) /\ expr_is_yes(f)
      [] NULLEXPR \notin {e, f} /\ Type(e) # Type(f) -> FALSE
      [] NULLEXPR \notin {e, f} /\ Type(e) = Type(f) /\ Type(e) \in Connectives ->
           LET r == expr_eliminate_eq(e, f) IN Type(r[1]) = "SYMBOL" \/ Type(r[2]) = "SYMBOL"
      [] OTHER -> e = f
expr_eq(e, f) ==
    CASE NULLEXPR \in {e, f} -> expr_is_yes(e) /\ expr_is_yes(f)
      [] NULLEXPR \notin {e, f} /\ Type(e) # Type(f) -> FALSE
      [] NULLEXPR \notin {e, f} /\ Type(e) = Type(f) /\ Type(e) = "NOT" -> expr_eq(e[2], f[2])
      [] NULLEXPR \notin {e, f} /\ Type(e) = Type(f) /\ Type(e) \in Connectives ->
           LET r == expr_eliminate_eq(e, f) IN Type(r[1]) = "SYMBOL" /\ r[1] = r[2]
      [] OTHER -> e = f

(***************************************************************************)
(* Joining two operands.  The result is NULLEXPR if there is no rule.      *)
(***************************************************************************)
NoSym == "none"
Joinable == {"EQUAL", "UNEQUAL", "SYMBOL", "NOT"}
JoinSym1(e) == IF Type(e) # "NOT" THEN e[2]
               ELSE IF Type(e[2]) \in {"EQUAL", "UNEQUAL", "SYMBOL"} THEN e[2][2] ELSE NoSym
JoinSym2(e) == IF Type(e) # "NOT" THEN e[2] ELSE IF Type(e[2]) = "SYMBOL" THEN e[2][2] ELSE NoSym
SameSymbol(e, f) ==
    /\ Type(e) \in Joinable /\ Type(f) \in Joinable
    /\ JoinSym1(e) # NoSym
    /\ JoinSym1(e) = JoinSym2(f) /\ IsTri(JoinSym1(e))
Are(e, f, rel, c, d) == Type(e) = rel /\ Type(f) = rel /\ {e[3], f[3]} = {c, d} /\ c # d
OneIs(e, f, rel, c) == \/ Type(e) = "SYMBOL" /\ Type(f) = rel /\ f[3] = c
                       \/ Type(f) = "SYMBOL" /\ Type(e) = rel /\ e[3] = c
Negates(e, f) == \/ Type(e) = "NOT" /\ Type(e[2]) = "SYMBOL" /\ Type(f) = "SYMBOL"
                 \/ Type(f) = "NOT" /\ Type(f[2]) = "SYMBOL" /\ Type(e) = "SYMBOL"
expr_join_or(e, f) ==
    IF expr_eq(e, f) THEN e
    ELSE IF ~SameSymbol(e, f) THEN NULLEXPR
    ELSE LET s == JoinSym1(e)  tri == symtype[s] = "tristate"
         IN  CASE tri /\ Are(e, f, "EQUAL", "y", "m") -> <<"UNEQUAL", s, "n">>
               [] tri /\ Are(e, f, "EQUAL", "y", "n") -> <<"UNEQUAL", s, "m">>
               [] tri /\ Are(e, f, "EQUAL", "m", "n") -> <<"UNEQUAL", s, "y">>
               [] ~tri /\ Negates(e, f) -> Yes
               [] OTHER -> NULLEXPR
\* (a='b') && (a!='c')
Excluded(s, eq, un) ==
    IF IsConst(eq[3]) /\ IsConst(un[3]) THEN IF eq[3] # un[3] THEN <<"EQUAL", s, eq[3]>> ELSE No ELSE NULLEXPR
expr_join_and(e, f) ==
    IF expr_eq(e, f) THEN e
    ELSE IF ~SameSymbol(e, f) THEN NULLEXPR
    ELSE LET s == JoinSym1(e)  tri == symtype[s] = "tristate"
         IN  CASE OneIs(e, f, "EQUAL", "y") -> <<"EQUAL", s, "y">>
               [] OneIs(e, f, "UNEQUAL", "n") -> Sym(s)
               [] OneIs(e, f, "UNEQUAL", "m") -> <<"EQUAL", s, "y">>
               [] tri /\ Type(e) = "EQUAL" /\ Type(f) = "UNEQUAL" -> Excluded(s, e, f)
               [] tri /\ Type(e) = "UNEQUAL" /\ Type(f) = "EQUAL" -> Excluded(s, f, e)
               [] tri /\ Are(e, f, "UNEQUAL", "y", "n") -> <<"EQUAL", s, "m">>
               [] tri /\ Are(e, f, "UNEQUAL", "y", "m") -> <<"EQUAL", s, "n">>
               [] tri /\ Are(e, f, "UNEQUAL", "m", "n") -> <<"EQUAL", s, "y">>
               [] OTHER -> NULLEXPR

\* The subexpression a path points to, and one replaced.
RECURSIVE At(_, _), Put(_, _, _)
At(e, p) == IF p = <<>> THEN e ELSE At(e[Head(p)], Tail(p))
Put(e, p, x) == IF p = <<>> THEN x ELSE [e EXCEPT ![Head(p)] = Put(@, Tail(p), x)]
\* x is [e, n]: the expression in place and the count of changes.
RECURSIVE expr_eliminate_dups1(_, _, _, _)
expr_eliminate_dups1(type, x, p, q) ==
    IF Type(At(x.e, p)) = type
    THEN expr_eliminate_dups1(type, expr_eliminate_dups1(type, x, Append(p, 2), q), Append(p, 3), q)
    ELSE IF Type(At(x.e, q)) = type
    THEN expr_eliminate_dups1(type, expr_eliminate_dups1(type, x, p, Append(q, 2)), p, Append(q, 3))
    ELSE IF p = q THEN x
    ELSE LET inner == IF Type(At(x.e, p)) \in Connectives
                      THEN expr_eliminate_dups1(Type(At(x.e, p)), x, p, p) ELSE x
             e == At(inner.e, p)  f == At(inner.e, q)
             tmp == IF type = "OR" THEN expr_join_or(e, f) ELSE expr_join_and(e, f)
         IN  IF tmp = NULLEXPR THEN inner
             ELSE [e |-> Put(Put(inner.e, p, IF type = "OR" THEN No ELSE Yes), q, tmp), n |-> inner.n + 1]
RECURSIVE expr_eliminate_dups(_)
expr_eliminate_dups(e) ==
    IF Type(e) \notin Connectives THEN e
    ELSE LET x == expr_eliminate_dups1(Type(e), [e |-> e, n |-> 0], <<>>, <<>>)
         IN  IF x.n = 0 THEN x.e ELSE expr_eliminate_dups(expr_eliminate_yn(x.e))

(***************************************************************************)
(* expr_transform, expr_trans_bool and expr_trans_compare.                 *)
(***************************************************************************)
Inverse6 == [EQUAL |-> "UNEQUAL", UNEQUAL |-> "EQUAL", LEQ |-> "GTH", GEQ |-> "LTH", LTH |-> "GEQ", GTH |-> "LEQ"]
\* A boolean symbol compared with a constant.
BoolTest(e) ==
    LET equal == Type(e) = "EQUAL" IN
    CASE e[3] = "m" -> IF equal THEN No ELSE Yes
      [] e[3] = "y" -> IF equal THEN Sym(e[2]) ELSE <<"NOT", Sym(e[2])>>
      [] e[3] = "n" -> IF equal THEN <<"NOT", Sym(e[2])>> ELSE Sym(e[2])
      [] OTHER -> e
RECURSIVE expr_transform(_)
expr_transform(e) ==
    CASE Type(e) \in {"EQUAL", "UNEQUAL"} -> IF symtype[e[2]] = "boolean" THEN BoolTest(e) ELSE e
      [] Type(e) \in Connectives -> <<Type(e), expr_transform(e[2]), expr_transform(e[3])>>
      [] Type(e) = "NOT" ->
           LET l == expr_transform(e[2]) IN
           CASE Type(l) = "NOT" -> expr_transform(l[2])
             [] Type(l) \in Relations -> <<Inverse6[Type(l)], l[2], l[3]>>
             [] Type(l) = "OR" -> expr_transform(<<"AND", <<"NOT", l[2]>>, <<"NOT", l[3]>>>>)
             [] Type(l) = "AND" -> expr_transform(<<"OR", <<"NOT", l[2]>>, <<"NOT", l[3]>>>>)
             [] l = Yes -> No
             [] l = Mod -> Mod
             [] l = No -> Yes
             [] OTHER -> <<"NOT", l>>
      [] OTHER -> e
RECURSIVE expr_trans_bool(_)
expr_trans_bool(e) ==
    CASE Type(e) \in Connectives -> <<Type(e), expr_trans_bool(e[2]), expr_trans_bool(e[3])>>
      [] Type(e) = "NOT" -> <<"NOT", expr_trans_bool(e[2])>>
      [] Type(e) = "UNEQUAL" -> IF symtype[e[2]] = "tristate" /\ e[3] = "n" THEN Sym(e[2]) ELSE e
      [] OTHER -> e
\* sym is y or n, as the callers pass it.
Unless(type, e) == IF type = "UNEQUAL" THEN <<"NOT", e>> ELSE e
RECURSIVE expr_trans_compare(_, _, _)
expr_trans_compare(e, type, sym) ==
    CASE Type(e) = "NULL" -> Unless(type, Sym(sym))
      [] Type(e) \in Connectives ->
           LET same == IF sym = "y" THEN Type(e) ELSE IF Type(e) = "AND" THEN "OR" ELSE "AND"
           IN  Unless(type, <<same, expr_trans_compare(e[2], "EQUAL", sym), expr_trans_compare(e[3], "EQUAL", sym)>>)
      [] Type(e) = "NOT" -> expr_trans_compare(e[2], IF type = "EQUAL" THEN "UNEQUAL" ELSE "EQUAL", sym)
      [] Type(e) \in Relations -> IF (type = "EQUAL") = (sym = "y") THEN e ELSE <<"NOT", e>>
      [] Type(e) = "SYMBOL" -> <<type, e[2], sym>>

RECURSIVE expr_contains_symbol(_, _), expr_depends_symbol(_, _)
expr_contains_symbol(e, s) ==
    CASE Type(e) \in Connectives -> expr_contains_symbol(e[2], s) \/ expr_contains_symbol(e[3], s)
      [] Type(e) = "NOT" -> expr_contains_symbol(e[2], s)
      [] Type(e) = "SYMBOL" -> e[2] = s
      [] Type(e) \in Relations -> s \in {e[2], e[3]}
      [] OTHER -> FALSE
expr_depends_symbol(e, s) ==
    CASE Type(e) = "AND" -> expr_depends_symbol(e[2], s) \/ expr_depends_symbol(e[3], s)
      [] Type(e) = "SYMBOL" -> e[2] = s
      [] Type(e) = "EQUAL" -> e[2] = s /\ e[3] \in {"y", "m"}
      [] Type(e) = "UNEQUAL" -> e[2] = s /\ e[3] = "n"
      [] OTHER -> FALSE

(***************************************************************************)
(* Printing, as tokens, and reading back with the grammar of parser.y.     *)
(***************************************************************************)
Strength(t) == CASE t = "NONE" -> 0 [] t = "OR" -> 1 [] t = "AND" -> 2 [] t = "NOT" -> 3
                 [] t \in {"EQUAL", "UNEQUAL"} -> 4 [] t = "SYMBOL" -> 9 [] OTHER -> 5
expr_compare_type(t1, t2) == IF t1 = t2 THEN 0 ELSE IF Strength(t1) > Strength(t2) THEN 1 ELSE -1
RECURSIVE expr_print(_, _)
expr_print(e, prevtoken) ==
    LET body == CASE Type(e) = "SYMBOL" -> <<e[2]>>
                  [] Type(e) = "NOT" -> <<"!">> \o expr_print(e[2], "NOT")
                  [] Type(e) \in Relations -> <<e[2], Type(e), e[3]>>
                  [] Type(e) \in Connectives -> expr_print(e[2], Type(e)) \o <<Type(e)>> \o expr_print(e[3], Type(e))
                  [] OTHER -> <<"y">>
    IN  IF Type(e) # "NULL" /\ expr_compare_type(prevtoken, Type(e)) > 0 THEN <<"(">> \o body \o <<")">> ELSE body
\* The lines of expr_print_revdep for one value: the operands that have it.
RECURSIVE expr_print_revdep(_, _, _)
expr_print_revdep(e, pr_type, v) ==
    IF Type(e) = "OR" THEN expr_print_revdep(e[2], pr_type, v) \o expr_print_revdep(e[3], pr_type, v)
    ELSE IF expr_calc_value(e, v) = pr_type THEN <<e>> ELSE <<>>

\* expr of parser.y: || binds weakest, both connectives to the left, ! applies to
\* what follows, comparisons take symbols.  A result is [e, rest].
RECURSIVE ParseUnary(_), ParseLeft(_, _, _), ParseOp(_, _)
ParseUnary(ts) ==
    CASE Head(ts) = "!" -> LET r == ParseUnary(Tail(ts)) IN [e |-> <<"NOT", r.e>>, rest |-> r.rest]
      [] Head(ts) = "(" -> LET r == ParseOp("OR", Tail(ts)) IN [e |-> r.e, rest |-> Tail(r.rest)]
      [] OTHER -> IF Len(ts) > 1 /\ ts[2] \in Relations
                  THEN [e |-> <<ts[2], ts[1], ts[3]>>, rest |-> SubSeq(ts, 4, Len(ts))]
                  ELSE [e |-> Sym(Head(ts)), rest |-> Tail(ts)]
ParseLeft(op, l, ts) ==
    IF ts = <<>> THEN [e |-> l, rest |-> ts]
    ELSE IF Head(ts) # op THEN [e |-> l, rest |-> ts]
    ELSE LET r == IF op = "OR" THEN ParseOp("AND", Tail(ts)) ELSE ParseUnary(Tail(ts))
         IN  ParseLeft(op, <<op, l, r.e>>, r.rest)
ParseOp(op, ts) ==
    LET l == IF op = "OR" THEN ParseOp("AND", ts) ELSE ParseUnary(ts) IN ParseLeft(op, l.e, l.rest)

(***************************************************************************)
(* What the operators promise, for an assignment v.                        *)
(***************************************************************************)
Same(e, f, v) == expr_calc_value(e, v) = expr_calc_value(f, v)
RECURSIVE HasNot(_), Symbols(_)
HasNot(e) == Type(e) = "NOT" \/ (Type(e) \in Connectives /\ (HasNot(e[2]) \/ HasNot(e[3])))
Symbols(e) == CASE Type(e) = "SYMBOL" -> {e[2]} [] Type(e) \in Relations -> {e[2], e[3]}
                [] Type(e) = "NOT" -> Symbols(e[2]) [] Type(e) \in Connectives -> Symbols(e[2]) \cup Symbols(e[3])
                [] OTHER -> {}
Boolean(e, v) == \A s \in Symbols(e) : v[s] # "m"
\* f is expr_eliminate_dups(e)
SimplifiedRight(e, f, v) == Same(expr_eliminate_yn(e), e, v) /\ Same(f, e, v)
TransformedRight(e, V) ==
    LET t == expr_transform(e)  b == expr_trans_bool(e)
    IN  \A v \in V : Same(t, e, v) /\ (Boolean(e, v) => Same(b, e, v))
\* A negated tristate is compared as if it were boolean.
ComparedRight(e, V) ==
    \A type \in {"EQUAL", "UNEQUAL"}, sym \in {"y", "n"} :
        LET c == expr_trans_compare(e, type, sym)
        IN  \A v \in V : ~HasNot(e) \/ Boolean(e, v) =>
                expr_calc_value(c, v) = (IF (expr_calc_value(e, v) = Tri(sym)) = (type = "EQUAL") THEN 2 ELSE 0)
DependsRight(e, v) ==
    \A s \in DOMAIN v : /\ expr_contains_symbol(e, s) = (s \in Symbols(e))
                        /\ expr_depends_symbol(e, s) /\ expr_calc_value(e, v) # 0 => Tri(v[s]) # 0
PrintedRight(e, V) ==
    LET r == ParseOp("OR", expr_print(e, "NONE")) IN
    /\ r.rest = <<>> /\ \A v \in V : Same(r.e, e, v)
    /\ \A v \in V : LET k == expr_calc_value(e, v) IN
          expr_print_revdep(e, k, v) # <<>> /\ \A j \in k + 1 .. 2 : expr_print_revdep(e, j, v) = <<>>
\* Equal expressions have equal values; what is left of the second expression
\* when it is used up says that the first implies it, or it the first.  r is
\* expr_eliminate_eq(e, f).
EqualRight(e, f, r, v) ==
    /\ expr_eq(e, f) => Same(e, f, v)
    /\ r[2] = Yes => expr_calc_value(e, v) <= expr_calc_value(f, v)
    /\ r[1] = Yes => expr_calc_value(f, v) <= expr_calc_value(e, v)
    /\ r[2] = No => expr_calc_value(f, v) <= expr_calc_value(e, v)
    /\ r[1] = No => expr_calc_value(e, v) <= expr_calc_value(f, v)
=============================================================================
