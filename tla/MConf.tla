------------------------------- MODULE MConf -------------------------------
(***************************************************************************)
(* The menu program mconf (kconfig/mconf.c) on a finalized tree, and conf  *)
(* run on the file it leaves.  One menu level is open at a time, options   *)
(* that are not shown stay off the screen (show_all_options is off, the    *)
(* key Z is not pressed) and single_menu_mode is off.                      *)
(***************************************************************************)
EXTENDS Conf

CONSTANTS order,        \* the hash table's order of its symbols
          files,        \* .config files there may be at the start
          inputs,       \* texts typed into an input box
          answers,      \* what is typed to conf: a line per symbol
          MaxEdits      \* bound on keys pressed and programs started

VARIABLES tree,         \* the finalized menu tree
          db,           \* the symbols of the running mconf
          disk,         \* the file .config
          by,           \* what happened last: "key", "save", "exit" or a mode of conf
          edits         \* keys pressed and programs started so far
mvars == <<tree, db, disk, by, edits>>

(***************************************************************************)
(* build_conf: [db, items]; an item is [tag, entry], t for a tristate, s   *)
(* for a text, m for a menu, ":" for what cannot be changed.               *)
(***************************************************************************)
Item(tag, i) == [tag |-> tag, entry |-> i]
RECURSIVE build_conf(_, _, _, _)
BuildKids(u, x, i, cur) == FoldLeft(LAMBDA y, c : build_conf(u, y, c, cur), x, u.kids[i])
ChoiceListed(u, x, i, cur, y) ==
    LET s == u.sym[i]
        tag == IF sym_is_changeable(y.db, s) \/ y.def # 0 THEN "t" ELSE ":"
        listed == [db |-> y.db, items |-> x.items \cup {Item(tag, i)}]
    IN  IF y.db.sym[s].tri # 2 THEN BuildKids(u, listed, i, cur)
        ELSE IF y.def = 0 THEN listed
        ELSE IF u.kids[y.def] = <<>> THEN listed ELSE build_conf(u, listed, y.def, cur)
BuildChoice(u, x, i, cur) ==
    LET def(y, v, c) == [db |-> v.db, def |-> IF v.ok /\ u.sym[c] = x.db.sym[u.sym[i]].val THEN c ELSE y.def]
    IN  ChoiceListed(u, x, i, cur, FoldLeft(LAMBDA y, c : def(y, menu_is_visible(u, y.db, c), c), [db |-> x.db, def |-> 0], u.kids[i]))
Put(x, tag, i) == [x EXCEPT !.items = @ \cup {Item(tag, i)}]
PutMenu(u, x, tag, i) == [Put(x, tag, i) EXCEPT !.db = menu_is_empty(u, x.db, i).db]
BuildSymbol(u, x, i, cur) ==
    LET s == u.sym[i]
        tag == IF IsChoiceValue(u, s) /\ x.db.sym[s].tri = 2 THEN ":" ELSE IF u.type[s] \in Logic THEN "t" ELSE "s"
    IN  IF IsMenu(u, i) /\ tag # "s" THEN PutMenu(u, x, tag, i) ELSE BuildKids(u, Put(x, tag, i), i, cur)
BuildShown(u, x, i, cur, shown) ==
    IF ~shown THEN x
    ELSE IF i = cur THEN BuildKids(u, x, i, cur)
    ELSE IF u.sym[i] = nosym THEN IF u.kind[i] = "menu" THEN PutMenu(u, x, "m", i) ELSE BuildKids(u, Put(x, ":", i), i, cur)
    ELSE IF IsChoiceSym(u, u.sym[i]) THEN BuildChoice(u, x, i, cur) ELSE BuildSymbol(u, x, i, cur)
build_conf(u, x, i, cur) ==
    LET look(v) == BuildShown(u, [x EXCEPT !.db = v.db], i, cur, v.ok) IN look(menu_is_visible(u, x.db, i))
Screen(u, d, cur) == build_conf(u, [db |-> d, items |-> {}], cur, cur)

(***************************************************************************)
(* The keys                                                                *)
(***************************************************************************)
KeyYes(u, d, s) ==
    LET or_mod(y) == IF y.ok THEN y.db ELSE sym_set_tristate_value(u, d, s, 1).db IN or_mod(sym_set_tristate_value(u, d, s, 2))
KeyNo(u, d, s) == sym_set_tristate_value(u, d, s, 0).db
KeyMod(u, d, s) == sym_set_tristate_value(u, d, s, 1).db
KeySpace(u, d, s) == sym_toggle_tristate_value(u, d, s).db
\* A text that was read while its symbol was hidden, typed again, changes nothing.
Swallowed(d, s, str) == ~d.sym[s].user /\ d.sym[s].uval = str
\* The menus that can be opened from the main menu, the screen of one, and the entries on it.
Open == {0} \cup {k.entry : k \in {i \in Screen(tree, db, 0).items : i.tag = "m" \/ (i.tag = "t" /\ IsMenu(tree, i.entry))}}
ScreenOf(cur) == Screen(tree, Screen(tree, db, 0).db, cur)
Tagged(screen, tag) == {k.entry : k \in {i \in screen.items : i.tag = tag}}

MInit(u) ==
    /\ tree = u
    /\ disk \in files
    /\ db = conf_read(tree, NewProcess(tree), disk, order)
    /\ by = "exit" /\ edits = 0
Pressed == edits < MaxEdits /\ edits' = edits + 1 /\ by' = "key" /\ UNCHANGED disk
\* The keys Y, N, M and the space bar on an entry.
TriKey(screen) ==
    \E i \in Tagged(screen, "t") :
        \/ db' = KeyYes(tree, screen.db, tree.sym[i])
        \/ db' = KeyNo(tree, screen.db, tree.sym[i])
        \/ db' = KeyMod(tree, screen.db, tree.sym[i])
        \/ db' = KeySpace(tree, screen.db, tree.sym[i])
\* Enter on a choice that is y, and on one of its shown values.
ChoiceEnter(screen) ==
    \E i \in Tagged(screen, "t") :
        /\ IsChoiceSym(tree, tree.sym[i]) /\ screen.db.sym[tree.sym[i]].tri = 2
        /\ \E shown \in {ShownValues(tree, screen, i)} : \E k \in DOMAIN shown.list :
               db' = sym_set_tristate_value(tree, shown.db, tree.sym[shown.list[k]], 2).db
\* A text typed; one that is not accepted leaves the input box open, to be left with Escape.
StringEnter(screen) ==
    \E i \in Tagged(screen, "s"), str \in inputs :
        /\ ~Swallowed(screen.db, tree.sym[i], str)
        /\ db' = sym_set_string_value(tree, screen.db, tree.sym[i], str).db
Key == Pressed /\ \E screen \in {ScreenOf(cur) : cur \in Open} : TriKey(screen) \/ ChoiceEnter(screen) \/ StringEnter(screen)
\* conf_save, and handle_exit when the changes are kept
Save ==
    /\ by = "key"
    /\ LET w == conf_write(tree, db) IN disk' = w.file /\ db' = w.db
    /\ by' = "save" /\ UNCHANGED edits
\* The changes are dropped; the next mconf reads the file again.
Discard ==
    /\ by = "key" /\ edits < MaxEdits /\ db.changed
    /\ db' = conf_read(tree, NewProcess(tree), disk, order)
    /\ by' = "exit" /\ edits' = edits + 1 /\ UNCHANGED disk
Quiet == CHOOSE a \in answers : \A s \in DOMAIN a : a[s] = ""
Commands == ({"oldconfig", "oldaskconfig"} \X answers)
            \cup ((DOMAIN ModeAll \cup {"defconfig", "yes2modconfig", "mod2yesconfig", "olddefconfig"}) \X {Quiet})
\* conf runs on the file and writes it; mconf is started on the result.
Run(mode, ans) ==
    /\ by \in {"save", "exit"} /\ edits < MaxEdits /\ edits' = edits + 1
    /\ mode = "defconfig" => disk # absent      \* a missing defconfig file ends it
    /\ \E w \in {conf_write(tree, main(tree, disk, mode, ans, order))} :
           disk' = w.file /\ db' = conf_read(tree, NewProcess(tree), w.file, order)
    /\ by' = mode
Programs == \E c \in Commands : Run(c[1], c[2])
MNext == (Key \/ Save \/ Discard \/ Programs) /\ UNCHANGED tree

(***************************************************************************)
(* Properties                                                              *)
(***************************************************************************)
Values(d) == [s \in DOMAIN d.sym |-> <<d.sym[s].tri, d.sym[s].val>>]
Anew(d, ord) == CalcAll(tree, CalcModules(tree, Invalid(d)), ord)
Rotated(k) == SubSeq(order, k, Len(order)) \o SubSeq(order, 1, k - 1)
\* anew: the symbols calculated from nothing.
\* A value marked valid is the one a calculation from nothing gives.
CacheFresh(anew) == \A s \in DOMAIN db.sym : db.sym[s].valid => Values(db)[s] = Values(anew)[s]
\* What a symbol's value is does not depend on which symbol is calculated first.
OrderFree(anew) == \A k \in DOMAIN order : k % 3 = 1 /\ k > 1 => Values(Anew(db, Rotated(k))) = Values(anew)
\* A saved file read back gives the values saved; whatever program wrote the file, nothing is left to save.
RoundTrip(anew) ==
    /\ by \notin {"key", "save", "exit"} => ~db.changed
    /\ by = "save" =>
         LET r == conf_read(tree, NewProcess(tree), disk, order)
         IN  Values(Anew(r, order)) = Values(anew) /\ ~r.changed
\* So does the minimal file, which leaves out what the defaults give.
MinimalRoundTrip(anew) ==
    by = "save" => LET r == conf_read(tree, NewProcess(tree), conf_write_defconfig(tree, db).file, order)
                   IN  Values(Anew(r, order)) = Values(anew)
\* A symbol is at least what selects it and, unless selected, at most what it depends on; a set choice has one value.
Bounded(d) ==
    /\ \A s \in DOMAIN d.sym : tree.type[s] \in Logic /\ ~IsChoiceValue(tree, s) =>
          d.sym[s].tri >= d.sym[s].rev /\ d.sym[s].tri <= Most(d.sym[s].rev, d.sym[s].dir)
    /\ \A c \in tree.choices : d.sym[c].tri = 2 =>
          Cardinality({v \in ToSet(tree.values[c]) : d.sym[v].tri = 2}) = 1
    /\ \A s \in DOMAIN d.sym : tree.type[s] = "int" /\ d.sym[s].val # "" =>
          sym_string_within_range(tree, d, s, d.sym[s].val).ok
\* When conf has asked, no symbol that is new and can be changed is left, whatever was typed.
AllAsked ==
    by = "exit" => \A ans \in answers, mode \in {"oldconfig", "oldaskconfig"} :
        check_conf(tree, Start(main(tree, disk, mode, ans, order), "oldconfig"), 0, Quiet).cnt = 0
ValuesRight(anew) == CacheFresh(anew) /\ OrderFree(anew) /\ RoundTrip(anew) /\ MinimalRoundTrip(anew) /\ Bounded(anew)
\* allyesconfig sets what can be set, allnoconfig nothing that can be unset.
AllSet ==
    \A s \in DOMAIN db.sym :
        tree.type[s] \in Logic /\ ~IsChoiceValue(tree, s) /\ ~IsChoiceSym(tree, s) /\ db.sym[s].visible # 0 =>
            /\ by = "allyesconfig" => db.sym[s].tri = db.sym[s].visible
            /\ by = "allnoconfig" => db.sym[s].tri = db.sym[s].rev
=============================================================================
