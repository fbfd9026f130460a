------------------------------- MODULE KMenu -------------------------------
(***************************************************************************)
(* Menus of the configuration system: the grammar's actions (parser.y)     *)
(* build the menu tree with the operators of menu.c, menu_finalize passes  *)
(* dependencies down and arranges submenus, sym_check_deps (symbol.c)      *)
(* looks for cycles.  A Kconfig text is a sequence of statements; the end  *)
(* of an entry's options, which opens its block, is the statement "body".  *)
(* Menu entries are numbered in the order of the text, 0 is the root.      *)
(***************************************************************************)
EXTENDS Integers, Sequences, FiniteSets, SequencesExt

CONSTANTS strings
X(types) == INSTANCE KExpr WITH symtype <- types

nosym == "none"
NULL == <<"NULL">>
Symbol(s) == <<"SYMBOL", s>>
And(e, f) == IF e = NULL THEN f ELSE IF f = NULL THEN e ELSE <<"AND", e, f>>
Or(e, f) == IF e = NULL THEN f ELSE IF f = NULL THEN e ELSE <<"OR", e, f>>

(***************************************************************************)
(* t: the entries' symbols, kinds, deps, visibilities, children and        *)
(* properties; per symbol its type and the expressions of sym->dir_dep,    *)
(* rev_dep and implied; entry, menu: current_entry and current_menu.       *)
(***************************************************************************)
_menu_init(syms) ==
    [entry |-> 0, menu |-> 0, errors |-> 0,
     sym |-> <<>>, kind |-> <<>>, dep |-> <<>>, visibility |-> <<>>, parent |-> <<>>, props |-> <<>>,
     kids |-> 0 :> <<>>,
     type |-> [s \in syms |-> "unknown"],
     dir |-> [s \in syms |-> NULL], rev |-> [s \in syms |-> NULL], implied |-> [s \in syms |-> NULL],
     choices |-> {}, optional |-> {}, modules |-> nosym,
     values |-> [s \in syms |-> <<>>], choice |-> [s \in syms |-> nosym]]
Property(type, expr, dep) == [type |-> type, expr |-> expr, visible |-> dep]
\* Adds a property to the current entry.
menu_add_prop(t, type, expr, dep) == [t EXCEPT !.props[t.entry] = Append(@, Property(type, expr, dep))]
menu_add_expr(t, type, expr, dep) == menu_add_prop(t, type, expr, dep)
menu_add_symbol(t, type, s, dep) == menu_add_prop(t, type, Symbol(s), dep)
menu_add_option_modules(t) == [t EXCEPT !.modules = t.sym[t.entry], !.errors = IF t.modules = nosym THEN @ ELSE @ + 1]
menu_add_entry(t, s, kind) ==
    LET n == Len(t.sym) + 1
        added == [t EXCEPT !.entry = n, !.sym = Append(@, s), !.kind = Append(@, kind), !.dep = Append(@, NULL),
                           !.visibility = Append(@, NULL), !.parent = Append(@, t.menu), !.props = Append(@, <<>>),
                           !.kids = [@ EXCEPT ![t.menu] = Append(@, n)] @@ (n :> <<>>)]
    IN  IF s = nosym THEN added ELSE menu_add_symbol(added, "symbol", s, NULL)
menu_set_type(t, s, type) == IF t.type[s] = "unknown" THEN [t EXCEPT !.type[s] = type] ELSE t
RECURSIVE Above(_, _)
Above(t, i) == IF i = 0 THEN <<>> ELSE <<t.parent[i]>> \o Above(t, t.parent[i])
menu_add_prompt(t, type, dep) ==
    LET outer == SelectSeq(Above(t, t.entry), LAMBDA i : i # 0)
    IN  menu_add_prop(t, type, NULL,
            IF type = "prompt" THEN FoldLeft(LAMBDA e, i : And(e, t.visibility[i]), dep, outer) ELSE dep)
menu_add_dep(t, dep) == [t EXCEPT !.dep[t.entry] = And(@, dep)]
menu_add_visibility(t, e) == [t EXCEPT !.visibility[t.entry] = And(@, e)]
menu_add_menu(t) == [t EXCEPT !.menu = t.entry]
\* zconf_endtoken and menu_end_menu
EndBlock(t, kind) ==
    IF t.menu = 0 THEN [t EXCEPT !.errors = @ + 1]
    ELSE IF t.kind[t.menu] # kind THEN [t EXCEPT !.errors = @ + 1]
    ELSE [t EXCEPT !.menu = t.parent[@]]
Stmt(t, s) ==
    CASE s[1] \in {"config", "menuconfig"} -> menu_add_entry([t EXCEPT !.optional = @ \cup {s[2]}], s[2], s[1])
      [] s[1] = "choice" -> menu_add_prop(menu_add_entry([t EXCEPT !.choices = @ \cup {s[2]}], s[2], "choice"), "choice", NULL, NULL)
      [] s[1] = "if" -> menu_add_menu(menu_add_dep(menu_add_entry(t, nosym, "if"), s[2]))
      [] s[1] \in {"menu", "comment"} -> menu_add_prompt(menu_add_entry(t, nosym, s[1]), s[1], NULL)
      [] s[1] = "body" -> menu_add_menu(t)
      [] s[1] = "end" -> EndBlock(t, s[2])
      [] s[1] = "type" -> menu_set_type(t, t.sym[t.entry], s[2])
      [] s[1] = "prompt" -> menu_add_prompt(t, "prompt", s[2])
      [] s[1] \in {"default", "range"} -> menu_add_expr(t, s[1], s[2], s[3])
      [] s[1] \in {"select", "imply"} -> menu_add_symbol(t, s[1], s[2], s[3])
      [] s[1] = "depends" -> menu_add_dep(t, s[2])
      [] s[1] = "visible" -> menu_add_visibility(t, s[2])
      [] s[1] = "optional" -> [t EXCEPT !.optional = @ \cup {t.sym[t.entry]}]
      [] s[1] = "modules" -> menu_add_option_modules(t)
yyparse(text, syms) == FoldLeft(Stmt, _menu_init(syms), text)

(***************************************************************************)
(* menu_finalize                                                           *)
(***************************************************************************)
IsChoice(t, i) == i # 0 /\ t.sym[i] \in t.choices
HasSym(t, i) == i # 0 /\ t.sym[i] # nosym
\* The entry's prompt has the type P_MENU.
IsMenu(t, i) == i = 0 \/ t.kind[i] \in {"menu", "menuconfig"}
PromptTypes == {"prompt", "menu", "comment"}
\* The entry's prompt is the last one given; 0 if there is none.
PromptOf(t, i) ==
    LET ps == {k \in DOMAIN t.props[i] : t.props[i][k].type \in PromptTypes}
    IN  IF ps = {} THEN 0 ELSE CHOOSE k \in ps : \A j \in ps : j <= k
HasPrompt(t, i) == i = 0 \/ PromptOf(t, i) # 0
PromptVisible(t, i) == t.props[i][PromptOf(t, i)].visible
modules_sym(t) == IF t.modules = nosym THEN "n" ELSE t.modules
RECURSIVE rewrite_m(_, _)
rewrite_m(t, e) ==
    CASE e[1] = "NOT" -> <<"NOT", rewrite_m(t, e[2])>>
      [] e[1] \in {"AND", "OR"} -> <<e[1], rewrite_m(t, e[2]), rewrite_m(t, e[3])>>
      [] e = Symbol("m") -> And(e, Symbol(modules_sym(t)))
      [] OTHER -> e
\* A condition below an outer one, rewritten and simplified.
Below(t, outer, e) ==
    X(t.type)!expr_eliminate_dups(And(outer, X(t.type)!expr_transform(rewrite_m(t, e))))
\* A property gets its entry's dependencies; a select or imply adds to its target.
FinalProp(t, i, k, basedep) ==
    LET p == t.props[i][k]
        low == Below(t, basedep, p.visible)
        dep == IF HasSym(t, i) /\ t.type[t.sym[i]] # "tristate" THEN X(t.type)!expr_trans_bool(low) ELSE low
        done == [t EXCEPT !.props[i][k].visible = dep]
        by == And(Symbol(t.sym[i]), dep)
    IN  CASE p.type = "select" -> [done EXCEPT !.rev[p.expr[2]] = Or(@, by)]
          [] p.type = "imply" -> [done EXCEPT !.implied[p.expr[2]] = Or(@, by)]
          [] OTHER -> done
FinalChild(t, parentdep, i) ==
    LET basedep == Below(t, parentdep, t.dep[i])
    IN  FoldLeft(LAMBDA u, k : FinalProp(u, i, k, basedep), [t EXCEPT !.dep[i] = basedep], [k \in 1 .. Len(t.props[i]) |-> k])
\* An untyped choice takes the type of its first typed value, the values its type.
ChoiceTypes(t, parent) ==
    LET s == t.sym[parent]
        typed == SelectSeq(t.kids[parent], LAMBDA c : t.sym[c] # nosym /\ t.type[t.sym[c]] # "unknown")
        u == IF typed = <<>> THEN t ELSE menu_set_type(t, s, t.type[t.sym[typed[1]]])
    IN  IF ~IsChoice(t, parent) THEN t
        ELSE FoldLeft(LAMBDA w, c : IF t.sym[c] = nosym THEN w ELSE menu_set_type(w, t.sym[c], u.type[s]), u, t.kids[parent])
\* The entries after i that depend on its symbol become its submenu.
Compared(t, e) ==
    X(t.type)!expr_eliminate_dups(X(t.type)!expr_transform(X(t.type)!expr_trans_compare(e, "UNEQUAL", "n")))
Depends(t, i, c) ==
    LET dep == IF HasPrompt(t, c) THEN PromptVisible(t, c) ELSE t.dep[c]
        base == Compared(t, IF HasPrompt(t, i) THEN PromptVisible(t, i) ELSE NULL)
    IN  /\ X(t.type)!expr_contains_symbol(dep, t.sym[i])
        /\ \/ X(t.type)!expr_depends_symbol(dep, t.sym[i])
           \/ X(t.type)!expr_is_yes(X(t.type)!expr_eliminate_eq(Compared(t, dep), base)[2])
PosIn(seq, i) == CHOOSE k \in DOMAIN seq : seq[k] = i
\* Non-tristate values of a tristate choice also need the choice to be y.
ChoiceValue(t, parent, c) ==
    LET s == t.sym[parent]  v == t.sym[c]
        only_y == t.type[s] = "tristate" /\ t.type[v] # "tristate"
        y == <<"EQUAL", s, "y">>
        narrowed == [t EXCEPT !.dep[c] = And(y, @), !.props[c] = [k \in DOMAIN t.props[c] |-> [t.props[c][k] EXCEPT !.visible = And(y, @)]]]
        u == IF only_y THEN narrowed ELSE t
    IN  IF ~IsChoice(t, parent) \/ v = nosym THEN t
        ELSE IF t.choice[v] # nosym THEN t
        ELSE [u EXCEPT !.choice[v] = s, !.values[s] = Append(@, v), !.props[c] = Append(@, Property("choice", Symbol(s), NULL))]
\* Children of an entry without a prompt move up, behind it.  Variant: to the end of the list.
FlattenLast(t, parent, c) ==
    IF t.kids[c] = <<>> \/ HasPrompt(t, c) THEN t
    ELSE [t EXCEPT !.kids[c] = <<>>, !.kids[parent] = @ \o t.kids[c],
                   !.parent = [j \in DOMAIN t.parent |-> IF \E m \in DOMAIN t.kids[c] : t.kids[c][m] = j THEN parent ELSE t.parent[j]]]
Flatten(t, parent, c) ==
    LET k == PosIn(t.kids[parent], c)  list == t.kids[parent]
    IN  IF t.kids[c] = <<>> \/ HasPrompt(t, c) THEN t
        ELSE [t EXCEPT !.kids[c] = <<>>, !.kids[parent] = SubSeq(list, 1, k) \o t.kids[c] \o SubSeq(list, k + 1, Len(list)),
                       !.parent = [j \in DOMAIN t.parent |-> IF \E m \in DOMAIN t.kids[c] : t.kids[c][m] = j THEN parent ELSE t.parent[j]]]
RECURSIVE AfterKids(_, _, _)
AfterKids(t, parent, k) ==
    IF k > Len(t.kids[parent]) THEN t
    ELSE LET c == t.kids[parent][k] IN AfterKids(Flatten(ChoiceValue(t, parent, c), parent, c), parent, k + 1)
RECURSIVE menu_finalize(_, _), Submenu(_, _, _), FinalizeKids(_, _, _)
\* c: the place in the list of the next entry to look at.
Submenu(t, i, c) ==
    LET p == t.parent[i]  list == t.kids[p] IN
    IF c > Len(list) THEN [t |-> t, last |-> c - 1]
    ELSE IF ~Depends(t, i, list[c]) THEN [t |-> t, last |-> c - 1]
    ELSE LET u == menu_finalize(t, list[c]) IN Submenu(u, i, c + 1)
FinalizeKids(t, parent, k) ==
    IF k > Len(t.kids[parent]) THEN t ELSE FinalizeKids(menu_finalize(t, t.kids[parent][k]), parent, k + 1)
WithKids(t, parent) ==
    LET typed == ChoiceTypes(t, parent)
        parentdep == IF IsChoice(t, parent) THEN Symbol(t.sym[parent]) ELSE IF parent = 0 THEN NULL ELSE t.dep[parent]
        passed == FoldLeft(LAMBDA u, c : FinalChild(u, parentdep, c), typed, t.kids[parent])
    IN  FinalizeKids(passed, parent, 1)
WithoutKids(t, i) ==
    LET p == t.parent[i]  at == PosIn(t.kids[p], i)
        sub == Submenu(t, i, at + 1)
        list == sub.t.kids[p]
        taken == SubSeq(list, at + 1, sub.last)
        moved == [sub.t EXCEPT !.kids[p] = SubSeq(list, 1, at) \o SubSeq(list, sub.last + 1, Len(list)), !.kids[i] = taken,
                               !.parent = [j \in DOMAIN t.parent |-> IF \E m \in DOMAIN taken : taken[m] = j THEN i ELSE sub.t.parent[j]]]
    IN  [moved EXCEPT !.dir[t.sym[i]] = Or(@, moved.dep[i])]
\* A choice that is not optional is selected, at least to m, where it is visible.
Forced(t, i) ==
    IF HasSym(t, i) /\ t.sym[i] \notin t.optional /\ HasPrompt(t, i)
    THEN [t EXCEPT !.rev[t.sym[i]] = Or(@, And(PromptVisible(t, i), Symbol("m")))] ELSE t
menu_finalize(t, i) ==
    LET u == IF t.kids[i] # <<>> THEN WithKids(t, i) ELSE IF HasSym(t, i) THEN WithoutKids(t, i) ELSE t
    IN  IF i = 0 THEN AfterKids(u, i, 1) ELSE Forced(AfterKids(u, i, 1), i)

(***************************************************************************)
(* sym_check_deps: f is the sets of symbols flagged SYMBOL_CHECK and       *)
(* SYMBOL_CHECKED and, once one is found, the symbol of a cycle.           *)
(***************************************************************************)
SymProps(t, s) == FlattenSeq([i \in 1 .. Len(t.sym) |-> IF t.sym[i] = s THEN t.props[i] ELSE <<>>])
RECURSIVE ExprSyms(_)
ExprSyms(e) ==
    CASE e[1] = "NULL" -> <<>>
      [] e[1] \in {"AND", "OR"} -> ExprSyms(e[2]) \o ExprSyms(e[3])
      [] e[1] = "NOT" -> ExprSyms(e[2])
      [] e[1] = "SYMBOL" -> <<e[2]>>
      [] OTHER -> <<e[2], e[3]>>
\* What sym_check_sym_deps looks at, in its order.
Refs(t, s) ==
    LET ofprop(p) == IF p.type \in {"choice", "select", "imply"} THEN <<>>
                     ELSE ExprSyms(p.visible) \o (IF p.type = "default" /\ s \notin t.choices THEN ExprSyms(p.expr) ELSE <<>>)
    IN  ExprSyms(t.dir[s]) \o ExprSyms(t.rev[s]) \o ExprSyms(t.implied[s])
        \o FlattenSeq([k \in DOMAIN SymProps(t, s) |-> ofprop(SymProps(t, s)[k])])
RECURSIVE sym_check_deps(_, _, _)
sym_check_sym_deps(t, f, s) ==
    FoldLeft(LAMBDA g, r : IF g.bad # nosym THEN g ELSE sym_check_deps(t, g, r), f, Refs(t, s))
sym_check_choice_deps(t, f, c) ==
    LET vs == ToSet(t.values[c])
        own == sym_check_sym_deps(t, [f EXCEPT !.check = @ \cup vs \cup {c}, !.checked = @ \cup vs \cup {c}], c)
        each == FoldLeft(LAMBDA g, v : IF g.bad # nosym THEN g ELSE sym_check_sym_deps(t, g, v),
                         [own EXCEPT !.check = @ \ {c}], t.values[c])
    IN  [each EXCEPT !.check = @ \ vs, !.bad = IF @ \in vs THEN c ELSE @]
sym_check_deps(t, f, s) ==
    IF s \in f.check THEN [f EXCEPT !.bad = s]
    ELSE IF s \in f.checked THEN f
    ELSE IF t.choice[s] # nosym THEN sym_check_deps(t, f, t.choice[s])
    ELSE IF s \in t.choices THEN sym_check_choice_deps(t, f, s)
    ELSE LET g == sym_check_sym_deps(t, [f EXCEPT !.check = @ \cup {s}, !.checked = @ \cup {s}], s)
         IN  [g EXCEPT !.check = @ \ {s}]
\* The loop over all symbols of conf_parse, in the given order: errors found.
CheckAll(t, order) ==
    LET one(g, s) == LET r == sym_check_deps(t, [g EXCEPT !.bad = nosym], s)
                     IN  [r EXCEPT !.errors = IF r.bad = nosym THEN @ ELSE @ + 1]
    IN  FoldLeft(one, [check |-> {}, checked |-> {}, bad |-> nosym, errors |-> 0], order).errors
conf_parse(text, syms) == menu_finalize(yyparse(text, syms), 0)

(***************************************************************************)
(* What they promise.  t is the tree as parsed, u as finalized.            *)
(***************************************************************************)
KMin3(S) == IF 0 \in S THEN 0 ELSE IF 1 \in S THEN 1 ELSE 2
KMax3(S) == IF 2 \in S THEN 2 ELSE IF 1 \in S THEN 1 ELSE 0
Val(u, e, v) == X(u.type)!expr_calc_value(e, v)
\* The conditions an entry stands under.
Under(t, u, i) ==
    {rewrite_m(t, t.dep[i])}
    \cup {IF j = 0 THEN NULL ELSE IF IsChoice(t, j) THEN Symbol(t.sym[j]) ELSE rewrite_m(t, t.dep[j])
             : j \in {a \in ToSet(Above(t, i)) : \A b \in ToSet(Above(t, i)) : IsChoice(t, b) => b <= a}}
    \cup {IF HasSym(t, i) THEN LET c == u.choice[t.sym[i]] IN
                               IF c # nosym THEN IF u.type[c] = "tristate" /\ u.type[t.sym[i]] # "tristate"
                                                 THEN <<"EQUAL", c, "y">> ELSE NULL ELSE NULL ELSE NULL}
VisibilityRight(t, u, V) ==
    \A i \in DOMAIN t.sym : \A k \in DOMAIN t.props[i] :
        LET menus == IF t.props[i][k].type = "prompt"
                     THEN {rewrite_m(t, t.visibility[j]) : j \in ToSet(Above(t, i)) \ {0}} ELSE {}
            want(v) == KMin3({Val(u, e, v) : e \in Under(t, u, i) \cup menus \cup {rewrite_m(t, t.props[i][k].visible)}})
            got(v) == Val(u, u.props[i][k].visible, v)
        IN  IF HasSym(t, i) /\ u.type[t.sym[i]] # "tristate"
            THEN \A v \in V : (got(v) = 0) = (want(v) = 0) ELSE \A v \in V : got(v) = want(v)
\* A selected symbol's lower bound is what its selectors and a forced choice give.
SelectRight(t, u, V) ==
    \A s \in DOMAIN u.rev : \A v \in V :
        (IF u.rev[s] = NULL THEN 0 ELSE Val(u, u.rev[s], v)) =
        KMax3(UNION {{KMin3({Val(u, Symbol(t.sym[i]), v), Val(u, u.props[i][k].visible, v)})
                        : k \in {j \in DOMAIN t.props[i] : t.props[i][j].type = "select" /\ t.props[i][j].expr = Symbol(s)}}
                     : i \in DOMAIN t.sym}
              \cup {KMin3({1, Val(u, PromptVisible(u, i), v)}) : i \in {j \in DOMAIN t.sym : t.sym[j] = s /\ s \notin t.optional /\ HasPrompt(t, j)}})
RECURSIVE Preorder(_, _)
Preorder(u, i) == <<i>> \o FlattenSeq([k \in DOMAIN u.kids[i] |-> Preorder(u, u.kids[i][k])])
TreeKept(t, u) ==
    /\ Preorder(u, 0) = [k \in 1 .. Len(t.sym) + 1 |-> k - 1]
    /\ \A i \in DOMAIN u.kids : \A k \in DOMAIN u.kids[i] : u.parent[u.kids[i][k]] = i
\* An entry moved below a symbol is shown only where the symbol is set or shown.
SubmenuRight(t, u, V) ==
    \A i \in DOMAIN t.sym : \A k \in DOMAIN u.kids[i] :
        LET c == u.kids[i][k] IN
        t.parent[c] # i /\ HasSym(u, i) /\ HasPrompt(u, i) /\ HasPrompt(u, c) => \A v \in V :
            Val(u, PromptVisible(u, c), v) # 0 => Val(u, Symbol(u.sym[i]), v) # 0 \/ Val(u, PromptVisible(u, i), v) # 0
Group(u, s) == IF u.choice[s] # nosym THEN u.choice[s] ELSE s
\* Checked in whatever order the hash table gives, here every rotation of one.
CyclesFound(u, order) ==
    LET S == DOMAIN u.type
        step == {<<Group(u, s), Group(u, r)>> : <<s, r>> \in {<<a, b>> \in S \X S : b \in ToSet(Refs(u, a)) /\ b # u.choice[a]}}
        grow(R) == R \cup {<<p[1], q[2]>> : <<p, q>> \in {<<a, b>> \in R \X R : a[2] = b[1]}}
        closure == grow(grow(grow(grow(step))))
        cyclic == \E s \in S : <<s, s>> \in closure
        rotated(k) == SubSeq(order, k, Len(order)) \o SubSeq(order, 1, k - 1)
    IN  \A k \in DOMAIN order : (CheckAll(u, rotated(k)) > 0) = cyclic
=============================================================================
