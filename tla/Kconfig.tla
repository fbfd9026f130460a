------------------------------ MODULE Kconfig ------------------------------
(***************************************************************************)
(* Symbols and configuration files (kconfig/symbol.c, confdata.c and the   *)
(* modes of conf.c).  u is the finalized menu tree of KMenu.  db holds the *)
(* symbols: per symbol the flags valid, write, user, auto and need (the    *)
(* bits SYMBOL_VALID, WRITE, DEF_USER, DEF_AUTO, NEED_SET_CHOICE_VALUES),  *)
(* def[S_DEF_USER] as utri and uval, def[S_DEF_AUTO] as atri and aval,     *)
(* curr as tri and val, and the cached visible, dir, rev and implied.      *)
(* SYMBOL_CHANGED only drives the redrawing of a menu and is left out.     *)
(***************************************************************************)
EXTENDS KMenu

CONSTANT SymCalc(_, _, _)       \* sym_calc_value: what it calls calls it again through this constant

NaN == -99
Logic == {"boolean", "tristate"}
Name(tri) == <<"n", "m", "y">>[tri + 1]
TriOf(str) == CASE str = "n" -> 0 [] str = "m" -> 1 [] str = "y" -> 2
Least(a, b) == IF a < b THEN a ELSE b
Most(a, b) == IF a < b THEN b ELSE a
IsChoiceSym(u, s) == s \in u.choices
IsChoiceValue(u, s) == u.choice[s] # nosym
\* Symbols the tree defines; the others are constants.
Defined(u) == {s \in DOMAIN u.type : \E i \in DOMAIN u.sym : u.sym[i] = s}
Fresh == [valid |-> FALSE, write |-> FALSE, user |-> FALSE, auto |-> FALSE, need |-> FALSE,
          utri |-> 0, uval |-> nosym, atri |-> 0, aval |-> nosym, tri |-> 0, val |-> "",
          visible |-> 0, dir |-> 0, rev |-> 0, implied |-> 0]
NewProcess(u) == [sym |-> [s \in Defined(u) |-> Fresh], modules_val |-> 0, changed |-> TRUE]

\* A tristate in a process without modules, or a shown choice value, is a boolean.
sym_get_type(u, db, s) ==
    IF u.type[s] = "tristate" /\ ((IsChoiceValue(u, s) /\ db.sym[s].visible = 2) \/ db.modules_val = 0)
    THEN "boolean" ELSE u.type[s]
ModulesOn(u, db) == u.modules # nosym /\ db.sym[u.modules].tri # 0
sym_get_string_value(u, db, s) ==
    IF s \notin DOMAIN db.sym THEN s
    ELSE IF u.type[s] \notin Logic THEN db.sym[s].val
    ELSE IF db.sym[s].tri = 1 /\ ~ModulesOn(u, db) THEN "n" ELSE Name(db.sym[s].tri)
\* The value of an expression whose symbols are calculated.
Value(u, db, e) ==
    X(u.type)!expr_calc_value(e, [s \in DOMAIN u.type |-> sym_get_string_value(u, db, s)])

(***************************************************************************)
(* sym_calc_value and what it calls; every operator returns db.            *)
(***************************************************************************)
CalcExpr(u, db, e) == FoldLeft(LAMBDA d, s : SymCalc(u, d, s), db, SelectSeq(ExprSyms(e), LAMBDA s : s \in DOMAIN db.sym))
\* The first property of the type whose condition is not n; k = 0 if there is none.
TryProp(u, d, p) ==
    LET found(tri) == [db |-> d, k |-> IF tri = 0 THEN 0 ELSE 1, tri |-> tri, expr |-> p.expr] IN found(Value(u, d, p.visible))
FirstVisible(u, db, s, type) ==
    FoldLeft(LAMBDA x, p : IF x.k > 0 \/ p.type # type THEN x ELSE TryProp(u, CalcExpr(u, x.db, p.visible), p),
             [db |-> db, k |-> 0, tri |-> 0, expr |-> NULL], SymProps(u, s))
sym_get_default_prop(u, db, s) == FirstVisible(u, db, s, "default")
sym_get_range_prop(u, db, s) == FirstVisible(u, db, s, "range")
\* strtoll of a text that is not a number is 0.
Strtoll(str, type) == LET n == IF type = "hex" THEN strings[str].hex ELSE strings[str].dec IN IF n = NaN THEN 0 ELSE n
Number(u, s, str) == Strtoll(str, u.type[s])
sym_get_range_val(u, db, s, base) ==
    Strtoll(sym_get_string_value(u, db, s), IF u.type[s] \in {"int", "hex"} THEN u.type[s] ELSE base)
\* sprintf: the text of a number in the symbol's format.
NumberText(type, n) ==
    CHOOSE str \in DOMAIN strings : strings[str].text = type /\ n = (IF type = "hex" THEN strings[str].hex ELSE strings[str].dec)
sym_validate_range(u, db, s) ==
    LET r == sym_get_range_prop(u, db, s)
        d == IF r.k = 0 THEN r.db ELSE CalcExpr(u, r.db, r.expr)
        val == Number(u, s, d.sym[s].val)
        low == sym_get_range_val(u, d, r.expr[2], u.type[s])
        high == sym_get_range_val(u, d, r.expr[3], u.type[s])
    IN  IF u.type[s] \notin {"int", "hex"} THEN db
        ELSE IF r.k = 0 THEN d
        ELSE IF val >= low /\ val <= high THEN d
        ELSE [d EXCEPT !.sym[s].val = NumberText(u.type[s], IF val >= low THEN high ELSE low)]
PromptProps(u, s) == SelectSeq(SymProps(u, s), LAMBDA p : p.type \in PromptTypes)
\* A tristate choice value that may be m is hidden while the choice is y.
PromptTri(u, db, s, p) ==
    LET tri == Value(u, db, p.visible)
    IN  IF IsChoiceValue(u, s) /\ u.type[s] = "tristate" /\ tri = 1 /\ db.sym[u.choice[s]].tri = 2 THEN 0 ELSE tri
SetVisible(u, db, s) ==
    LET show(tri) == [db EXCEPT !.sym[s].visible = IF tri = 1 /\ (u.type[s] # "tristate" \/ db.modules_val = 0) THEN 2 ELSE tri]
    IN  show(FoldLeft(LAMBDA tri, p : Most(tri, PromptTri(u, db, s, p)), 0, PromptProps(u, s)))
DepTri(u, db, s, e) ==
    LET bool(tri) == IF tri = 1 /\ sym_get_type(u, db, s) = "boolean" THEN 2 ELSE tri IN bool(Value(u, db, e))
SetDeps(u, db, s) ==
    [db EXCEPT !.sym[s].dir = DepTri(u, db, s, u.dir[s]),
               !.sym[s].rev = IF u.rev[s] = NULL THEN 0 ELSE DepTri(u, db, s, u.rev[s]),
               !.sym[s].implied = IF u.implied[s] = NULL THEN 0 ELSE DepTri(u, db, s, u.implied[s])]
WithDeps(u, db, s) ==
    IF IsChoiceValue(u, s) THEN db
    ELSE SetDeps(u, CalcExpr(u, CalcExpr(u, CalcExpr(u, db, u.dir[s]), u.rev[s]), u.implied[s]), s)
sym_calc_visibility(u, db, s) ==
    WithDeps(u, SetVisible(u, FoldLeft(LAMBDA d, p : CalcExpr(u, d, p.visible), db, PromptProps(u, s)), s), s)
\* The first shown default of a choice, else its first shown value.
sym_choice_default(u, db, c) ==
    LET look(x, p) == IF x.val # nosym \/ p.type # "default" THEN x
                      ELSE LET d == CalcExpr(u, x.db, p.visible)
                           IN  [db |-> d, val |-> IF Value(u, d, p.visible) # 0 /\ d.sym[p.expr[2]].visible # 0
                                                  THEN p.expr[2] ELSE nosym]
        x == FoldLeft(look, [db |-> db, val |-> nosym], SymProps(u, c))
        shown == SelectSeq(u.values[c], LAMBDA v : x.db.sym[v].visible # 0)
    IN  IF x.val = nosym /\ shown # <<>> THEN [x EXCEPT !.val = shown[1]] ELSE x
sym_calc_choice(u, db, c) ==
    LET d == FoldLeft(LAMBDA w, v : sym_calc_visibility(u, w, v), db, u.values[c])
        shown == {v \in ToSet(u.values[c]) : d.sym[v].visible # 0}
        e == [d EXCEPT !.sym[c].user = @ /\ \A v \in shown : d.sym[v].user]
        x == sym_choice_default(u, e, c)
    IN  IF e.sym[c].uval # nosym /\ e.sym[c].uval \in shown THEN [e EXCEPT !.sym[c].val = e.sym[c].uval]
        ELSE IF x.val = nosym THEN [x.db EXCEPT !.sym[c].tri = 0, !.sym[c].val = nosym]
        ELSE [x.db EXCEPT !.sym[c].val = x.val]
\* The value of a boolean or tristate that is not a shown choice value.
DefaultTri(u, d, p) == IF p.k = 0 THEN 0 ELSE Least(Value(u, d, p.expr), p.tri)
ByDefault(u, db, s) ==
    LET p == sym_get_default_prop(u, db, s)
        d == CalcExpr(u, p.db, p.expr)
        def == DefaultTri(u, d, p)
        imp == d.sym[s].implied
        new == IF imp # 0 THEN Least(Most(def, imp), d.sym[s].dir) ELSE def
        mark == [d EXCEPT !.sym[s].write = @ \/ def # 0 \/ imp # 0, !.sym[s].tri = new]
    IN  IF IsChoiceSym(u, s) THEN db ELSE mark
LogicValue(u, db, s) ==
    LET me == db.sym[s]
        asked == me.visible # 0 /\ me.user
        a == IF asked THEN [db EXCEPT !.sym[s].tri = Least(me.utri, me.visible)]
             ELSE ByDefault(u, [db EXCEPT !.sym[s].write = @ \/ me.rev # 0], s)
        b == IF IsChoiceValue(u, s) /\ me.visible = 2
             THEN [db EXCEPT !.sym[s].tri = IF db.sym[u.choice[s]].val = s THEN 2 ELSE 0]
             ELSE [a EXCEPT !.sym[s].tri = Most(@, a.sym[s].rev)]
    IN  [b EXCEPT !.sym[s].tri = IF @ = 1 /\ sym_get_type(u, b, s) = "boolean" THEN 2 ELSE @]
TextValue(u, db, s) ==
    LET me == db.sym[s]
        p == sym_get_default_prop(u, db, s)
        ds == p.expr[2]
        d == CalcExpr(u, p.db, p.expr)
    IN  IF me.visible # 0 /\ me.user THEN [db EXCEPT !.sym[s].val = me.uval]
        ELSE IF p.k = 0 THEN p.db
        ELSE [d EXCEPT !.sym[s].write = TRUE, !.sym[s].val = sym_get_string_value(u, d, ds)]
set_all_choice_values(u, db, c) ==
    LET free(s) == s \in ToSet(u.values[c]) /\ ~db.sym[s].user
        d == [db EXCEPT !.sym = [s \in DOMAIN db.sym |-> IF free(s) THEN [db.sym[s] EXCEPT !.utri = 0] ELSE db.sym[s]]]
    IN  [d EXCEPT !.sym[c].user = TRUE, !.sym[c].valid = FALSE, !.sym[c].need = FALSE]
\* The choice's flag reaches its shown values.
MarkValues(u, db, c) ==
    LET mark(s) == s \in ToSet(u.values[c]) /\ db.sym[c].write /\ db.sym[s].visible # 0
    IN  [db EXCEPT !.sym = [s \in DOMAIN db.sym |-> IF mark(s) THEN [db.sym[s] EXCEPT !.write = TRUE] ELSE db.sym[s]]]
sym_calc_value(u, db, s) ==
    LET a == IF IsChoiceValue(u, s) /\ db.sym[s].need
             THEN SymCalc(u, [db EXCEPT !.sym[s].need = FALSE], u.choice[s]) ELSE db
        b == sym_calc_visibility(u, [a EXCEPT !.sym[s].valid = TRUE, !.sym[s].write = FALSE], s)
        empty == IF IsChoiceSym(u, s) THEN nosym ELSE ""
        c == [b EXCEPT !.sym[s].write = b.sym[s].visible # 0, !.sym[s].tri = 0, !.sym[s].val = empty]
        d == IF u.type[s] \in Logic THEN LogicValue(u, c, s) ELSE TextValue(u, c, s)
        e == IF IsChoiceSym(u, s) /\ d.sym[s].tri = 2 THEN sym_calc_choice(u, d, s) ELSE d
        f == sym_validate_range(u, e, s)
        g == IF s = u.modules THEN [f EXCEPT !.modules_val = f.sym[s].tri] ELSE f
        h == IF IsChoiceSym(u, s) THEN [MarkValues(u, g, s) EXCEPT !.sym[s].write = FALSE] ELSE g
    IN  IF db.sym[s].valid THEN db
        ELSE IF h.sym[s].need /\ IsChoiceSym(u, s) THEN set_all_choice_values(u, h, s) ELSE h
CalcModules(u, db) == IF u.modules = nosym THEN db ELSE SymCalc(u, db, u.modules)
Invalid(db) == [db EXCEPT !.sym = [s \in DOMAIN db.sym |-> [db.sym[s] EXCEPT !.valid = FALSE]]]
sym_clear_all_valid(u, db) == CalcModules(u, [Invalid(db) EXCEPT !.changed = TRUE])
CalcAll(u, db, order) == FoldLeft(LAMBDA d, s : SymCalc(u, d, s), db, order)

(***************************************************************************)
(* Setting a symbol.  The result is [db, ok].                              *)
(***************************************************************************)
Refused(db) == [db |-> db, ok |-> FALSE]
sym_tristate_within_range(u, db, s, val) ==
    LET me == db.sym[s]  type == sym_get_type(u, db, s) IN
    /\ me.visible # 0 /\ type \in Logic /\ ~(type = "boolean" /\ val = 1) /\ me.visible > me.rev
    /\ IF IsChoiceValue(u, s) /\ me.visible = 2 THEN val = 2 ELSE val >= me.rev /\ val <= me.visible
\* A changed value makes all caches invalid.  Variant: only the symbol's own.
ChangedStale(u, db, s) == [db EXCEPT !.sym[s].valid = FALSE, !.changed = TRUE]
Changed(u, db, s) == sym_clear_all_valid(u, db)
sym_set_tristate_value(u, db, s, val) ==
    LET old == db.sym[s].tri
        c == u.choice[s]
        picked == IsChoiceValue(u, s) /\ val = 2
        a == [db EXCEPT !.sym[s].user = TRUE]
        shown(v) == v \in ToSet(u.values[c]) /\ a.sym[v].visible # 0
        b == IF ~picked THEN a
             ELSE [a EXCEPT !.sym = [v \in DOMAIN a.sym |->
                     IF v = c THEN [a.sym[v] EXCEPT !.uval = s, !.user = TRUE]
                     ELSE IF shown(v) THEN [a.sym[v] EXCEPT !.user = TRUE] ELSE a.sym[v]]]
        d == [b EXCEPT !.sym[s].utri = val]
    IN  IF old # val /\ ~sym_tristate_within_range(u, db, s, val) THEN Refused(db)
        ELSE [db |-> IF old # val THEN Changed(u, d, s) ELSE d, ok |-> TRUE]
\* n to m to y to n, until one is accepted or the circle is closed.
sym_toggle_tristate_value(u, db, s) ==
    LET old == db.sym[s].tri
        one == sym_set_tristate_value(u, db, s, (old + 1) % 3)
        two == sym_set_tristate_value(u, db, s, (old + 2) % 3)
    IN  IF one.ok THEN one ELSE IF two.ok THEN two ELSE sym_set_tristate_value(u, db, s, old)
\* For a boolean or tristate only the first letter counts.
sym_string_valid(u, s, str) ==
    CASE u.type[s] = "string" -> TRUE
      [] u.type[s] = "int" -> strings[str].dec # NaN
      [] u.type[s] = "hex" -> strings[str].hex # NaN
      [] OTHER -> str \in {"y", "m", "n"}
\* The range's ends are calculated as they are compared.
sym_string_within_range(u, db, s, str) ==
    LET inside(d, e) == [db |-> d, ok |-> /\ Number(u, s, str) >= sym_get_range_val(u, d, e[2], u.type[s])
                                          /\ Number(u, s, str) <= sym_get_range_val(u, d, e[3], u.type[s])]
        ranged(r) == IF r.k = 0 THEN [db |-> r.db, ok |-> TRUE] ELSE inside(CalcExpr(u, r.db, r.expr), r.expr)
    IN  IF ~sym_string_valid(u, s, str) THEN Refused(db)
        ELSE IF u.type[s] \in Logic THEN [db |-> db, ok |-> sym_tristate_within_range(u, db, s, TriOf(str))]
        ELSE IF u.type[s] = "string" THEN [db |-> db, ok |-> TRUE]
        ELSE ranged(sym_get_range_prop(u, db, s))
\* A hexadecimal number gets its 0x.
Prefixed(u, s, str) == IF u.type[s] = "hex" THEN strings[str].prefixed ELSE str
sym_set_string_value(u, db, s, str) ==
    LET mark(a) == IF a.sym[s].uval = str /\ Prefixed(u, s, str) = str THEN [db |-> a, ok |-> TRUE]
                   ELSE [db |-> sym_clear_all_valid(u, [a EXCEPT !.sym[s].uval = Prefixed(u, s, str)]), ok |-> TRUE]
        set(in) == IF in.ok THEN mark([in.db EXCEPT !.sym[s].user = TRUE]) ELSE Refused(in.db)
    IN  IF u.type[s] \notin Logic THEN set(sym_string_within_range(u, db, s, str))
        ELSE IF str \in {"y", "m", "n"} THEN sym_set_tristate_value(u, db, s, TriOf(str)) ELSE Refused(db)
\* The least value def is raised to by selects and implies.
Raised(u, d, s, def) ==
    LET sel == Most(def, d.sym[s].rev)
        bool == sel = 1 /\ (u.type[s] = "boolean" \/ (~IsChoiceValue(u, s) /\ ~ModulesOn(u, d)))
    IN  Most(IF bool THEN 2 ELSE sel, d.sym[s].implied)
\* What the symbol would be without the user; a range is not applied to it.
DefaultText(u, d, s, p) ==
    [db |-> d, val |-> IF u.type[s] \in Logic THEN Name(Raised(u, d, s, DefaultTri(u, d, p)))
                       ELSE IF p.k = 0 THEN "" ELSE sym_get_string_value(u, d, p.expr[2])]
sym_get_string_default(u, db, s) ==
    LET from(p) == DefaultText(u, CalcExpr(u, p.db, p.expr), s, p)
    IN  from(sym_get_default_prop(u, CalcModules(u, sym_calc_visibility(u, db, s)), s))
sym_is_changeable(db, s) == db.sym[s].visible > db.sym[s].rev
RECURSIVE menu_is_visible(_, _, _)
\* A shown child of a set but hidden symbol marks the symbol as the user's.
BelowShown(u, b, i) ==
    LET mark(x) == IF x.ok THEN [x EXCEPT !.db.sym[u.sym[i]].user = TRUE] ELSE x
    IN  mark(FoldLeft(LAMBDA x, c : IF x.ok THEN x ELSE menu_is_visible(u, x.db, c), Refused(b), u.kids[i]))
PromptShown(u, b, i) ==
    0 # IF u.sym[i] = nosym THEN Value(u, b, PromptVisible(u, i)) ELSE PromptTri(u, b, u.sym[i], u.props[i][PromptOf(u, i)])
Prompted(u, b, i) ==
    IF PromptShown(u, b, i) THEN [db |-> b, ok |-> TRUE]
    ELSE IF u.sym[i] = nosym THEN Refused(b)
    ELSE IF b.sym[u.sym[i]].tri = 0 THEN Refused(b) ELSE BelowShown(u, b, i)
VisibleIf(u, a, i) ==
    IF Value(u, a, u.visibility[i]) = 0 THEN Refused(a)
    ELSE Prompted(u, IF u.sym[i] = nosym THEN CalcExpr(u, a, PromptVisible(u, i)) ELSE SymCalc(u, a, u.sym[i]), i)
\* [db, ok]
menu_is_visible(u, db, i) ==
    IF i = 0 THEN [db |-> db, ok |-> TRUE]
    ELSE IF ~HasPrompt(u, i) THEN Refused(db)
    ELSE VisibleIf(u, CalcExpr(u, db, u.visibility[i]), i)
menu_is_empty(u, db, i) ==
    FoldLeft(LAMBDA x, c : IF x.ok THEN x ELSE menu_is_visible(u, x.db, c), Refused(db), u.kids[i])
=============================================================================
