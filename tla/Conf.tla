-------------------------------- MODULE Conf --------------------------------
(***************************************************************************)
(* The program conf (kconfig/conf.c), which asks for the symbols that have *)
(* no value yet.  x is its state: the symbols db, conf_cnt, rootEntry as   *)
(* root, and mode, which is input_mode.  ans is what is typed: ans[s] is   *)
(* the first line for the symbol s, for a choice the number of a value.    *)
(* Every later line is empty: it takes what is offered.                    *)
(***************************************************************************)
EXTENDS ConfData

Asking == {"oldaskconfig", "oldconfig", "syncconfig"}
sym_has_value(db, s) == db.sym[s].user
\* Does conf_askvalue come back with a line?
conf_askvalue(x, s) ==
    sym_is_changeable(x.db, s) /\ (x.mode \in {"oldconfig", "syncconfig"} => ~sym_has_value(x.db, s))
conf_sym(u, x, s, line) ==
    LET now == x.db.sym[s].tri
        set(tri) == sym_set_tristate_value(u, x.db, s, tri)
        typed(y) == [x EXCEPT !.db = IF y.ok THEN y.db ELSE set(now).db]
    IN  IF ~conf_askvalue(x, s) THEN x ELSE typed(set(IF line \in {"n", "m", "y"} THEN TriOf(line) ELSE now))
\* Asks until a value is accepted; the value offered has to be.
EnterString(u, d, s) == sym_set_string_value(u, d, s, sym_get_string_value(u, d, s)).db
TypedString(u, x, s, y) == [x EXCEPT !.db = IF y.ok THEN y.db ELSE EnterString(u, y.db, s)]
conf_string(u, x, s, line) ==
    IF ~conf_askvalue(x, s) THEN x
    ELSE TypedString(u, x, s, IF line = "" THEN Refused(x.db) ELSE sym_set_string_value(u, x.db, s, line))
Visible(u, x, i) == menu_is_visible(u, x.db, i)
\* The shown values of a choice, as entries; [db, list].
ShownValues(u, x, i) ==
    LET add(y, v, c) == [db |-> v.db, list |-> IF v.ok THEN Append(y.list, c) ELSE y.list]
    IN  FoldLeft(LAMBDA y, c : IF u.sym[c] = nosym THEN y ELSE add(y, menu_is_visible(u, y.db, c), c),
                 [db |-> x.db, list |-> <<>>], u.kids[i])
Number1(line) == IF line \in DOMAIN strings THEN strings[line].dec ELSE NaN
\* The place of the value taken.
Pick(u, x, list, c, line, is_new) ==
    LET def == CHOOSE k \in DOMAIN list : u.sym[list[k]] = x.db.sym[c].val
    IN  IF Len(list) = 1 THEN 1
        ELSE IF x.mode # "oldaskconfig" /\ ~is_new THEN def
        ELSE IF Number1(line) \in DOMAIN list THEN Number1(line) ELSE def
RECURSIVE conf(_, _, _, _), check_conf(_, _, _, _)
EnterValue(u, x, child, ans) ==
    FoldLeft(LAMBDA z, k : conf(u, z, k, ans),
             [x EXCEPT !.db = sym_set_tristate_value(u, x.db, u.sym[child], 2).db], u.kids[child])
AskChoice(u, x, c, shown, is_new, ans) ==
    LET y == [x EXCEPT !.db = shown.db]
    IN  EnterValue(u, y, shown.list[Pick(u, y, shown.list, c, ans[c], is_new)], ans)
ChoiceCalculated(u, x, i, is_new, ans) ==
    IF x.db.sym[u.sym[i]].tri # 2 THEN x ELSE AskChoice(u, x, u.sym[i], ShownValues(u, x, i), is_new, ans)
conf_choice(u, x, i, ans) ==
    LET c == u.sym[i]
    IN  ChoiceCalculated(u, [(IF sym_is_changeable(x.db, c) THEN conf_sym(u, x, c, "") ELSE x) EXCEPT !.db = SymCalc(u, @, c)],
                         i, ~sym_has_value(x.db, c), ans)
\* menu_get_parent_menu
RECURSIVE ParentMenu(_, _)
ParentMenu(u, i) == IF IsMenu(u, i) THEN i ELSE ParentMenu(u, u.parent[i])
ConfKids(u, x, i, ans) == FoldLeft(LAMBDA y, c : conf(u, y, c, ans), x, u.kids[i])
ConfSymbol(u, x, i, ans) ==
    LET s == u.sym[i]
        chosen(y) == IF y.db.sym[s].tri = 1 THEN ConfKids(u, y, i, ans) ELSE y
    IN  IF IsChoiceSym(u, s) THEN chosen(conf_choice(u, x, i, ans))
        ELSE ConfKids(u, IF s = nosym THEN x ELSE IF u.type[s] \in Logic THEN conf_sym(u, x, s, ans[s])
                         ELSE conf_string(u, x, s, ans[s]), i, ans)
ConfShown(u, x, i, shown, ans) ==
    IF ~shown THEN x
    ELSE IF i = 0 THEN ConfKids(u, x, i, ans)
    ELSE IF IsMenu(u, i) /\ x.mode # "oldaskconfig" /\ x.root # i THEN check_conf(u, x, i, ans)
    ELSE ConfSymbol(u, x, i, ans)
conf(u, x, i, ans) ==
    LET look(v) == ConfShown(u, [x EXCEPT !.db = v.db], i, v.ok, ans) IN look(Visible(u, x, i))
CheckNew(u, x, i, ans) ==
    LET s == IF i = 0 THEN nosym ELSE u.sym[i]
        root == ParentMenu(u, i)
        new == s # nosym /\ ~sym_has_value(x.db, s)
               /\ (sym_is_changeable(x.db, s) \/ (IsChoiceSym(u, s) /\ x.db.sym[s].tri = 2))
    IN  IF new THEN conf(u, [x EXCEPT !.cnt = @ + 1, !.root = root], root, ans) ELSE x
CheckShown(u, x, i, shown, ans) ==
    IF shown THEN FoldLeft(LAMBDA y, c : check_conf(u, y, c, ans), CheckNew(u, x, i, ans), u.kids[i]) ELSE x
check_conf(u, x, i, ans) ==
    LET look(v) == CheckShown(u, [x EXCEPT !.db = v.db], i, v.ok, ans) IN look(Visible(u, x, i))
RECURSIVE AskLoop(_, _, _)
\* Update until a loop caused no more changes.
AskLoop(u, x, ans) ==
    LET again(y) == IF y.cnt = 0 THEN y ELSE AskLoop(u, y, ans) IN again(check_conf(u, [x EXCEPT !.cnt = 0], 0, ans))
Start(db, mode) == [db |-> db, cnt |-> 0, root |-> 0, mode |-> mode]
AskAll(u, db, mode, ans) ==
    AskLoop(u, IF mode = "oldaskconfig" THEN [conf(u, Start(db, mode), 0, ans) EXCEPT !.mode = "oldconfig"] ELSE Start(db, mode), ans)
\* The modes of main on a file, up to the saving; KCONFIG_ALLCONFIG is not set.
ModeAll == [allnoconfig |-> "no", allyesconfig |-> "yes", allmodconfig |-> "mod", alldefconfig |-> "default"]
AfterRead(u, read, mode, ans, order) ==
    CASE mode = "defconfig" -> conf_set_all_new_symbols(u, read, "default", order)
      [] mode = "yes2modconfig" -> conf_rewrite_mod_or_yes(u, read, 2, 1)
      [] mode = "mod2yesconfig" -> conf_rewrite_mod_or_yes(u, read, 1, 2)
      [] mode \in Asking -> AskAll(u, read, mode, ans).db
      [] OTHER -> read
main(u, file, mode, ans, order) ==
    IF mode \in DOMAIN ModeAll THEN conf_set_all_new_symbols(u, NewProcess(u), ModeAll[mode], order)
    ELSE AfterRead(u, conf_read(u, NewProcess(u), file, order), mode, ans, order)
\* What --syncconfig, answered with empty lines, makes of a .config and an auto.conf: the .config it writes, the files it touches
\* and the file it then renames twice.
syncconfig(u, file, auto, order) ==
    LET done(w, t) == [config |-> w.file, touch |-> t.touch, tmp |-> AutoFile(u, t.db, order)]
        wrote(w) == done(w, conf_touch_deps(u, w.db, auto, order))
    IN  wrote(conf_write(u, main(u, file, "syncconfig", [s \in Defined(u) |-> ""], order)))
=============================================================================
