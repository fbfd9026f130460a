------------------------------ MODULE ConfData ------------------------------
(***************************************************************************)
(* Configuration files (kconfig/confdata.c).  A file is a sequence of      *)
(* lines [set, sym, val]; set is FALSE for "# CONFIG_s is not set".        *)
(* absent is a file that is not there.  order is the order of the hash     *)
(* table (for_all_symbols).                                                *)
(***************************************************************************)
EXTENDS Kconfig

absent == <<[set |-> FALSE, sym |-> nosym, val |-> ""]>>
sym_find(db, s) == s \in DOMAIN db.sym
Line(s, val) == [set |-> val # "n", sym |-> s, val |-> val]

\* sym_change_count, as far as conf_get_changed tells.
sym_set_change_count(db, changed) == [db EXCEPT !.changed = changed]

(***************************************************************************)
(* Quoted strings: chars is a sequence of characters.                      *)
(***************************************************************************)
Quote == "quote"
Backslash == "backslash"
Unclosed == "unclosed"
sym_escape_string_value(chars) ==
    <<Quote>>
    \o FlattenSeq([i \in DOMAIN chars |-> IF chars[i] \in {Quote, Backslash} THEN <<Backslash, chars[i]>> ELSE <<chars[i]>>])
    \o <<Quote>>
RECURSIVE UnescapeFrom(_)
\* Up to the closing quote; Unclosed if it is missing.
UnescapeFrom(p) ==
    IF p = <<>> THEN <<Unclosed>>
    ELSE IF Head(p) = Quote THEN <<>>
    ELSE IF Head(p) = Backslash THEN IF Len(p) = 1 THEN <<Unclosed>> ELSE <<p[2]>> \o UnescapeFrom(SubSeq(p, 3, Len(p)))
    ELSE <<Head(p)>> \o UnescapeFrom(Tail(p))
\* conf_set_sym_val on the text after the equals sign of a string symbol.
UnescapeValue(p) == IF p = <<>> THEN <<Unclosed>> ELSE IF Head(p) # Quote THEN <<Unclosed>> ELSE UnescapeFrom(Tail(p))
EscapeRight(chars) == UnescapeValue(sym_escape_string_value(chars)) = chars

(***************************************************************************)
(* Reading.  x is [db, warnings]; def is "user" or "auto".                 *)
(***************************************************************************)
Def(db, s, def) == IF def = "user" THEN [flag |-> db.sym[s].user, tri |-> db.sym[s].utri, val |-> db.sym[s].uval]
                   ELSE [flag |-> db.sym[s].auto, tri |-> db.sym[s].atri, val |-> db.sym[s].aval]
PutDef(db, s, def, d) ==
    IF def = "user" THEN [db EXCEPT !.sym[s].user = d.flag, !.sym[s].utri = d.tri, !.sym[s].uval = d.val]
    ELSE [db EXCEPT !.sym[s].auto = d.flag, !.sym[s].atri = d.tri, !.sym[s].aval = d.val]
\* Is the text one conf_set_sym_val accepts?
Accepted(u, s, val) == IF u.type[s] \in Logic THEN val \in {"y", "n"} \/ (val = "m" /\ u.type[s] = "tristate")
                       ELSE sym_string_valid(u, s, val)
conf_set_sym_val(u, db, s, def, val) ==
    LET d == Def(db, s, def)
    IN  PutDef(db, s, def, IF u.type[s] \in Logic THEN [d EXCEPT !.flag = TRUE, !.tri = TriOf(val)]
                           ELSE [d EXCEPT !.flag = TRUE, !.val = val])
\* A value of a choice tells the choice.
ReadChoice(u, x, s, def) ==
    LET c == u.choice[s]
        mine == Def(x.db, s, def).tri
        d == Def(x.db, c, def)
        clash == mine = 1 /\ d.tri = 2
        new == [flag |-> IF clash THEN FALSE ELSE d.flag, tri |-> Most(d.tri, mine), val |-> IF mine = 2 THEN s ELSE d.val]
    IN  IF ~IsChoiceValue(u, s) THEN x
        ELSE [db |-> PutDef(x.db, c, def, new), warnings |-> x.warnings \/ clash \/ (mine = 2 /\ d.tri # 0)]
ReadLine(u, x, l, def) ==
    LET again == Def(x.db, l.sym, def).flag
        a == [x EXCEPT !.warnings = @ \/ again]
        bad == [x EXCEPT !.warnings = @ \/ again \/ def = "user"]
        no == [a EXCEPT !.db = IF u.type[l.sym] \in Logic THEN conf_set_sym_val(u, x.db, l.sym, def, "n") ELSE x.db]
    IN  IF ~sym_find(x.db, l.sym) THEN [x EXCEPT !.db.changed = @ \/ def = "user"]
        ELSE IF ~l.set THEN ReadChoice(u, no, l.sym, def)
        ELSE IF ~Accepted(u, l.sym, l.val) THEN bad
        ELSE ReadChoice(u, [a EXCEPT !.db = conf_set_sym_val(u, x.db, l.sym, def, l.val)], l.sym, def)
\* Values and flags of the kind are dropped, caches are invalid.
ResetDefs(u, db, def) ==
    LET clear(s) == PutDef(Invalid(db), s, def, [flag |-> IsChoiceSym(u, s), tri |-> 0, val |-> nosym]).sym[s]
    IN  [db EXCEPT !.sym = [s \in DOMAIN db.sym |-> clear(s)]]
conf_read_simple(u, db, file, def) ==
    IF file = absent THEN [db |-> [db EXCEPT !.changed = @ \/ def = "user"], warnings |-> FALSE, ok |-> FALSE]
    ELSE LET x == FoldLeft(LAMBDA y, l : ReadLine(u, y, l, def), [db |-> ResetDefs(u, db, def), warnings |-> FALSE], file)
         IN  [db |-> x.db, warnings |-> x.warnings, ok |-> TRUE]
\* The calculated value is not the one the file gave.
Unsaved(u, db, s) ==
    LET me == db.sym[s] IN
    IF me.user /\ me.write
    THEN IF u.type[s] \in Logic THEN me.utri # me.tri ELSE me.uval # me.val
    ELSE me.user \/ me.write
\* Values that are not shown, or out of range, count as new.
Forget(u, x, s) ==
    LET me == x.db.sym[s]
        a == IF me.visible = 0 /\ ~x.unsaved THEN [x EXCEPT !.db.sym[s].user = FALSE] ELSE x
        ranged(in) == IF in.ok THEN [a EXCEPT !.db = in.db]
                      ELSE [db |-> [in.db EXCEPT !.sym[s].valid = FALSE, !.sym[s].user = FALSE], unsaved |-> TRUE]
    IN  IF ~me.user \/ IsChoiceValue(u, s) THEN x
        ELSE IF u.type[s] \in Logic THEN a
        ELSE ranged(sym_string_within_range(u, a.db, s, me.uval))
Differs(u, d) == \E s \in DOMAIN d.sym : ~IsChoiceSym(u, s) /\ Unsaved(u, d, s)
ForgetAll(u, d, order) == FoldLeft(LAMBDA y, s : Forget(u, y, s), [db |-> d, unsaved |-> Differs(u, d)], order)
Loaded(u, d, order, warnings) ==
    LET settled(y) == [y.db EXCEPT !.changed = @ \/ warnings \/ y.unsaved] IN settled(ForgetAll(u, CalcAll(u, d, order), order))
ReadIn(u, d, x, order) == IF x.ok THEN Loaded(u, d, order, x.warnings) ELSE d
conf_read(u, db, file, order) ==
    LET read(x) == ReadIn(u, CalcModules(u, x.db), x, order)
    IN  read(conf_read_simple(u, sym_set_change_count(db, FALSE), file, "user"))
(***************************************************************************)
(* Writing.  The result is [db, file].  Headings are left out.             *)
(***************************************************************************)
Entries(u) == SelectSeq(Tail(Preorder(u, 0)), LAMBDA i : u.sym[i] # nosym /\ ~IsChoiceSym(u, u.sym[i]))
conf_write_symbol(u, d, s) == Line(s, sym_get_string_value(u, d, s))
\* Is a line written?
Listed(u, d, s) == d.sym[s].write
conf_write(u, db) ==
    LET put(x, i) == LET s == u.sym[i]  d == SymCalc(u, x.db, s) IN
                     IF s \in x.written THEN x
                     ELSE IF ~Listed(u, d, s) THEN [x EXCEPT !.db = d]
                     ELSE [db |-> d, written |-> x.written \cup {s}, file |-> Append(x.file, conf_write_symbol(u, d, s))]
        start == IF db.changed THEN db ELSE sym_clear_all_valid(u, db)
        all == FoldLeft(put, [db |-> start, written |-> {}, file |-> <<>>], Entries(u))
    IN  [db |-> sym_set_change_count(all.db, FALSE), file |-> all.file]
\* The value is what a fresh configuration would have.
IsDefault(u, x, s) ==
    \/ sym_get_string_value(u, x.db, s) = x.val
    \/ /\ IsChoiceValue(u, s) /\ u.choice[s] \notin u.optional /\ sym_choice_default(u, x.db, u.choice[s]).val = s
       /\ u.type[s] = "boolean" /\ x.db.sym[s].tri = 2
PutUnlessDefault(u, y, s, x) ==
    [db |-> [x.db EXCEPT !.sym[s].write = FALSE],
     file |-> IF IsDefault(u, x, s) THEN y.file ELSE Append(y.file, conf_write_symbol(u, x.db, s))]
PutMinimal(u, y, s, d) ==
    IF ~d.sym[s].write THEN [y EXCEPT !.db = d]
    ELSE IF ~sym_is_changeable(d, s) THEN [y EXCEPT !.db = [d EXCEPT !.sym[s].write = FALSE]]
    ELSE PutUnlessDefault(u, y, s, sym_get_string_default(u, d, s))
conf_write_defconfig(u, db) ==
    FoldLeft(LAMBDA y, i : PutMinimal(u, y, u.sym[i], SymCalc(u, y.db, u.sym[i])), [db |-> sym_clear_all_valid(u, db), file |-> <<>>],
             Entries(u))
\* Is there a line for the symbol?
header_print_symbol(u, d, s) == ~(u.type[s] \in Logic /\ sym_get_string_value(u, d, s) = "n")
\* auto.conf lists what is set; autoconf.h the same as macros.
AutoFile(u, db, order) ==
    LET put(x, s) == LET d == SymCalc(u, x.db, s) IN
                     IF d.sym[s].write /\ ~IsChoiceSym(u, s) /\ header_print_symbol(u, d, s)
                     THEN [db |-> d, file |-> Append(x.file, conf_write_symbol(u, d, s))] ELSE [x EXCEPT !.db = d]
    IN  FoldLeft(put, [db |-> db, file |-> <<>>], order).file
\* Must the file include/config/s.h be touched?
Touch(u, db, s) ==
    LET me == db.sym[s] IN
    /\ ~IsChoiceSym(u, s)
    /\ IF me.write
       THEN IF me.auto THEN IF u.type[s] \in Logic THEN me.tri # me.atri ELSE sym_get_string_value(u, db, s) # me.aval
            ELSE u.type[s] \notin Logic \/ me.tri # 0
       ELSE me.auto
\* The symbols touched, in order: those auto.conf had and the tree has no more come first.
conf_touch_deps(u, db, auto, order) ==
    LET x == conf_read_simple(u, db, auto, "auto")
        d == CalcAll(u, CalcModules(u, x.db), order)
        gone == IF auto = absent THEN <<>> ELSE SelectSeq(auto, LAMBDA l : ~sym_find(db, l.sym))
    IN  [db |-> d, touch |-> [k \in DOMAIN gone |-> gone[k].sym] \o SelectSeq(order, LAMBDA s : Touch(u, d, s))]

(***************************************************************************)
(* New symbols and the modes of conf.                                      *)
(***************************************************************************)
NewValue(u, s, mode) == CASE mode = "yes" -> 2 [] mode = "mod" -> 1 [] mode = "no" -> 0
conf_set_all_new_symbols(u, db, mode, order) ==
    LET new(s) == ~db.sym[s].user /\ ~db.sym[s].valid /\ sym_get_type(u, db, s) \in Logic /\ mode # "default"
        a == [db EXCEPT !.sym = [s \in DOMAIN db.sym |-> IF new(s) THEN [db.sym[s] EXCEPT !.utri = NewValue(u, s, mode), !.user = TRUE]
                                                         ELSE db.sym[s]]]
        b == sym_clear_all_valid(u, a)
        need(s) == (IsChoiceSym(u, s) /\ ~b.sym[s].user) \/ IsChoiceValue(u, s)
        c == [b EXCEPT !.sym = [s \in DOMAIN db.sym |-> IF need(s) THEN [b.sym[s] EXCEPT !.need = TRUE] ELSE b.sym[s]]]
        set(d, s) == IF d.sym[s].user \/ ~IsChoiceSym(u, s) THEN d ELSE set_all_choice_values(u, SymCalc(u, d, s), s)
    IN  FoldLeft(set, c, order)
conf_rewrite_mod_or_yes(u, db, old, new) ==
    sym_clear_all_valid(u, [db EXCEPT !.sym = [s \in DOMAIN db.sym |->
        IF sym_get_type(u, db, s) = "tristate" /\ db.sym[s].utri = old THEN [db.sym[s] EXCEPT !.utri = new] ELSE db.sym[s]]])
=============================================================================
