----------------------------- MODULE MCKconfig -----------------------------
(***************************************************************************)
(* The configuration system on small inputs.  A job is a dependency        *)
(* expression, a pair of them, a Kconfig text or a string to be quoted; a  *)
(* session of mconf and conf; or synchronisations with builds and crashes. *)
(***************************************************************************)
EXTENDS MConf, ConfSync

CONSTANT SessionTree     \* a finalized menu tree
VARIABLES job, done     \* the job, and whether it ran
jvars == <<job, done>>
vars == <<jvars, mvars, svars>>

Str(ord, dec, text) == [order |-> ord, dec |-> dec, hex |-> dec, any |-> dec, text |-> text, prefixed |-> "0x"]
MCStrings ==
    [x \in {"n", "m", "y", "", "none", "p", "q", "1", "2", "3"} |->
        CASE x = "1" -> Str(1, 1, "int") [] x = "2" -> Str(2, 2, "int") [] x = "3" -> Str(3, 3, "int")
          [] x = "m" -> Str(4, NaN, "") [] x = "n" -> Str(5, NaN, "") [] x = "p" -> Str(6, NaN, "")
          [] x = "q" -> Str(7, NaN, "") [] x = "y" -> Str(8, NaN, "") [] OTHER -> Str(0, NaN, "")]

(***************************************************************************)
(* Expressions over a boolean B, a tristate T and an integer I.            *)
(***************************************************************************)
ExprTypes == [B |-> "boolean", T |-> "tristate", I |-> "int", c2 |-> "unknown", y |-> "unknown", m |-> "unknown", n |-> "unknown"]
E == INSTANCE KExpr WITH symtype <- ExprTypes
Leaves == {Symbol("B"), Symbol("T"), Symbol("y"), Symbol("m"), Symbol("n"),
           <<"EQUAL", "T", "y">>, <<"EQUAL", "T", "m">>, <<"UNEQUAL", "T", "n">>, <<"UNEQUAL", "T", "m">>,
           <<"EQUAL", "B", "n">>, <<"LEQ", "I", "c2">>}
Connected(ls, rs) == {<<op, e, f>> : op \in {"AND", "OR"}, e \in ls, f \in rs}
Negated(es) == {<<"NOT", e>> : e \in es}
Depth1 == Leaves \cup Negated(Leaves) \cup Connected(Leaves, Leaves)
FewLeaves == {Symbol("B"), Symbol("T"), <<"EQUAL", "T", "y">>, <<"UNEQUAL", "T", "n">>, Symbol("n")}
Depth2 == Depth1 \cup Negated(Depth1)
          \cup Connected(FewLeaves, Connected(FewLeaves, FewLeaves) \cup Negated(Connected(FewLeaves, FewLeaves)))
          \cup Connected(Connected(FewLeaves, FewLeaves), {Symbol("T"), <<"NOT", Symbol("B")>>})
PairOf == LET es == {Symbol("B"), Symbol("T"), <<"NOT", Symbol("B")>>, <<"EQUAL", "T", "y">>, Symbol("n")}
          IN  es \cup Connected(es, es)
Assignments == {[B |-> b, T |-> t, I |-> i, c2 |-> "2", y |-> "y", m |-> "m", n |-> "n"]
                   : b \in {"n", "y"}, t \in {"n", "m", "y"}, i \in {"2", "3"}}

(***************************************************************************)
(* Kconfig texts: menus, ifs, a choice, with conditions in four places.    *)
(***************************************************************************)
TextSyms == {"MOD", "A", "B", "T", "P", "Q", "CH", "R", "y", "m", "n"}
TextOrder == <<"MOD", "A", "B", "T", "P", "Q", "CH", "R">>
Conditions == {NULL, Symbol("A"), <<"NOT", Symbol("T")>>, <<"OR", Symbol("A"), Symbol("T")>>, <<"EQUAL", "T", "m">>,
               Symbol("m"), <<"AND", <<"NOT", Symbol("A")>>, <<"UNEQUAL", "T", "n">>>>}
FewConditions == {NULL, <<"OR", Symbol("B"), Symbol("A")>>, <<"NOT", Symbol("T")>>, Symbol("m")}
Text(a, b, d) ==
    <<<<"config", "MOD">>, <<"type", "boolean">>, <<"modules">>,
      <<"config", "T">>, <<"type", "tristate">>, <<"prompt", NULL>>,
      <<"menu">>, <<"visible", Symbol("A")>>, <<"body">>,
      <<"config", "A">>, <<"type", "boolean">>, <<"prompt", a>>,
      <<"if", b>>, <<"config", "B">>, <<"type", "tristate">>, <<"prompt", NULL>>, <<"select", "R", d>>,
      <<"comment">>, <<"depends", d>>, <<"end", "if">>,
      <<"config", "R">>, <<"type", "tristate">>, <<"depends", b>>, <<"prompt", d>>,
      <<"end", "menu">>,
      <<"choice", "CH">>, <<"prompt", d>>, <<"body">>,
      <<"config", "P">>, <<"type", "tristate">>, <<"prompt", a>>,
      <<"if", b>>, <<"config", "Q">>, <<"type", "boolean">>, <<"prompt", NULL>>, <<"end", "if">>, <<"end", "choice">>>>
TextAssignments ==
    {[MOD |-> mo, A |-> a, B |-> b, T |-> t, P |-> "n", Q |-> "n", CH |-> h, R |-> "n", y |-> "y", m |-> "m", n |-> "n"]
        : mo \in {"n", "y"}, a \in {"n", "y"}, b \in {"n", "m"}, t \in {"n", "m", "y"}, h \in {"y", "m"}}

(***************************************************************************)
(* Macros: references to functions, recursive and simple variables, the    *)
(* environment and built-in functions, nested once, in names and arguments *)
(* alike; and what fixdep reads.                                           *)
(***************************************************************************)
Builtins == (<<"e">> :> "error-if") @@ (<<"n">> :> "lineno") @@ (<<"k">> :> "shell")
Printed(c) == CASE c = <<"x">> -> <<"\n", "p", "\n", "\n">> [] c = <<"y">> -> <<"a", "b", "\n", "c", "d">> [] OTHER -> <<"\n">>
P == INSTANCE Macro WITH Builtin <- Builtins, shell <- Printed, FUNCTION_MAX_ARGS <- 3, MAX_EXPANSIONS <- 2, SHELL_BUF <- 4
Ch(x) == <<"c", x>>
Ref(parts) == <<"r", parts>>
\* f puts two arguments together, h takes a name, g calls itself with a longer argument, l refers to itself, r to s and E.
World == [bodies |-> (<<"f">> :> <<Ref(<<<<Ch("1")>>>>), Ch("x"), Ref(<<<<Ch("2")>>>>)>>)
                     @@ (<<"h">> :> <<Ref(<<<<Ref(<<<<Ch("1")>>>>)>>>>)>>)
                     @@ (<<"g">> :> <<Ref(<<<<Ch("g")>>, <<Ref(<<<<Ch("1")>>>>), Ch("x")>>>>)>>)
                     @@ (<<"l">> :> <<Ref(<<<<Ch("l")>>>>)>>)
                     @@ (<<"r">> :> <<Ref(<<<<Ch("s")>>>>), Ref(<<<<Ch("E")>>>>)>>),
          simple |-> <<"s">> :> <<"1">>,
          os |-> (<<"E">> :> <<"y">>) @@ (<<"D">> :> <<"s">>)]
OtherOs == {(<<"E">> :> e) @@ (<<"D">> :> d) : e \in {<<"y">>, <<"f">>}, d \in {<<"s">>, <<"r">>}}
MacroNames == {<<Ch(x)>> : x \in {"f", "h", "g", "l", "r", "s", "E", "e", "n", "k", "u"}}
MacroArgs == {<<>>, <<Ch("x")>>, <<Ch("y")>>, <<Ch("1"), Ch("x")>>, <<Ch("s")>>, <<Ch("$")>>}
Flat == {Ref(<<n>>) : n \in MacroNames} \cup {Ref(<<n, a>>) : n \in MacroNames, a \in MacroArgs}
        \cup {Ref(<<n, <<Ch("y")>>, <<Ch("x")>>>>) : n \in MacroNames}
Nested == {Ref(<<<<n>>>>) : n \in Flat} \cup {Ref(<<<<Ch(f)>>, <<n>>>>) : f \in {"f", "h", "s"}, n \in Flat}
          \cup {Ref(<<<<Ch("f")>>, <<n>>, <<Ch("x"), n>>>>) : n \in Flat}
Phrases == {<<Ch("x"), n, Ch("1")>> : n \in Flat \cup Nested} \cup {<<n, m>> : n \in Flat, m \in {Ref(<<<<Ch(x)>>>>) : x \in {"E", "D", "r", "l"}}}
SourceTexts == UNION {[1 .. n -> {"CONFIG_", "_MODULE", "_", "A", " "}] : n \in 0 .. 4}
D(texts) == INSTANCE FixDep WITH read_file <- texts, Generated <- {"autoconf.h"}
Word(t, n) == [target |-> t, name |-> n]
DepFile == <<Word(TRUE, "a.o"), Word(FALSE, "a.c"), Word(FALSE, "autoconf.h"), Word(FALSE, "a.h"), Word(TRUE, "b.o"), Word(FALSE, "b.c")>>
HeaderText == <<"CONFIG_", "A", ".", "CONFIG_", "_", "B">>
FilesWith(t) == ("a.c" :> t) @@ ("a.h" :> HeaderText) @@ ("b.c" :> <<"CONFIG_", "B", "_MODULE">>)

(***************************************************************************)
(* The trees of the session and of the synchronisation.                    *)
(***************************************************************************)
MCText ==
    <<<<"config", "MOD">>, <<"type", "boolean">>, <<"modules">>, <<"default", Symbol("y"), NULL>>,
      <<"config", "N">>, <<"type", "int">>, <<"prompt", Symbol("P")>>, <<"range", <<"RANGE", "1", "2">>, NULL>>,
      <<"default", Symbol("2"), Symbol("R")>>, <<"default", Symbol("1"), NULL>>,
      <<"menuconfig", "T">>, <<"type", "tristate">>, <<"prompt", NULL>>,
      <<"menu">>, <<"body">>,
      <<"config", "A">>, <<"type", "boolean">>, <<"prompt", NULL>>, <<"depends", Symbol("T")>>,
      <<"select", "R", Symbol("T")>>, <<"imply", "I", NULL>>,
      <<"config", "R">>, <<"type", "tristate">>, <<"prompt", <<"NOT", Symbol("T")>>>>,
      <<"config", "I">>, <<"type", "boolean">>, <<"prompt", NULL>>, <<"depends", Symbol("T")>>,
      <<"end", "menu">>,
      <<"choice", "CH">>, <<"type", "boolean">>, <<"prompt", Symbol("T")>>, <<"default", Symbol("Q"), NULL>>, <<"body">>,
      <<"config", "P">>, <<"type", "boolean">>, <<"prompt", NULL>>,
      <<"config", "Q">>, <<"type", "boolean">>, <<"prompt", NULL>>, <<"depends", Symbol("A")>>, <<"end", "choice">>,
      <<"config", "S">>, <<"type", "string">>, <<"default", Symbol("p"), Symbol("P")>>, <<"default", Symbol("q"), Symbol("Q")>>>>
MCTree == LET t == conf_parse(MCText, {"MOD", "T", "A", "R", "I", "N", "CH", "P", "Q", "S", "y", "m", "n", "1", "2", "p", "q"}) IN t
MCOrder == <<"MOD", "A", "T", "P", "Q", "CH", "R", "I", "N", "S">>
MCFiles == {absent, <<Line("T", "y"), Line("A", "y")>>}
MCInputs == {"1", "3"}
MCAnswers == {[s \in ToSet(MCOrder) |-> IF s \in {"N", "CH"} THEN a[1] ELSE a[2]]
                 : a \in {<<"", "">>, <<"1", "y">>, <<"2", "m">>, <<"3", "n">>}}
SyncText ==
    <<<<"config", "A">>, <<"type", "boolean">>, <<"prompt", NULL>>,
      <<"config", "N">>, <<"type", "int">>, <<"prompt", NULL>>, <<"depends", Symbol("A")>>, <<"default", Symbol("1"), NULL>>>>
MCSyncTree == LET t == conf_parse(SyncText, {"A", "N", "y", "m", "n", "1"}) IN t
MCSyncOrder == <<"N", "A">>
MCConfigs == {<<Line("A", "n")>>, <<Line("A", "y")>>, <<Line("A", "y"), Line("N", "1")>>, <<Line("A", "y"), Line("N", "2")>>}
MCOldAuto == <<Line("OLD", "y"), Line("A", "y")>>
MCNames == {"A", "N", "OLD"}
\* The auto.conf files that conf writes from them; that it writes no others is part of FilesAssumption, evaluated before the run.
MCAutoFiles ==
    {absent, MCOldAuto, <<>>, <<Line("N", "1"), Line("A", "y")>>, <<Line("N", "2"), Line("A", "y")>>}
MCSynced ==
    LET sync(u) == [p \in MCConfigs \X MCAutoFiles |-> syncconfig(u, p[1], p[2], MCSyncOrder)] IN sync(MCSyncTree)
(***************************************************************************)
(* The jobs                                                                *)
(***************************************************************************)
Session == [k |-> "session"]
Sync == [k |-> "sync"]
Jobs ==
    [k : {"expr"}, e : Depth2]
    \cup [k : {"pair"}, e : PairOf, f : PairOf]
    \cup [k : {"text"}, a : Conditions, b : Conditions, d : FewConditions]
    \cup [k : {"macro"}, phrase : Phrases]
    \cup [k : {"source"}, text : SourceTexts]
    \cup [k : {"quote"}, chars : UNION {[1 .. n -> {Quote, Backslash, "c"}] : n \in 0 .. 4}]
NoSession == tree = <<>> /\ db = <<>> /\ disk = <<>> /\ by = "none" /\ edits = 0
NoSync == config = <<>> /\ header = <<>> /\ auto = <<>> /\ todo = <<>> /\ tmp = <<>> /\ pc = "none" /\ newer = MCNames /\ built = <<>>
Init ==
    /\ done = FALSE
    /\ \/ job \in Jobs /\ NoSession /\ NoSync
       \/ job = Session /\ MInit(SessionTree) /\ NoSync
       \/ job = Sync /\ SInit /\ NoSession
RunJob ==
    /\ job.k \notin {"session", "sync"} /\ ~done
    /\ done' = TRUE
    /\ UNCHANGED <<job, mvars, svars>>
Next ==
    \/ RunJob
    \/ job.k = "session" /\ MNext /\ UNCHANGED <<jvars, svars>>
    \/ job.k = "sync" /\ SNext /\ UNCHANGED <<jvars, mvars>>
Spec == Init /\ [][Next]_vars

Ran(k) == job.k = k /\ done'
\* Simplifying a dependency expression keeps its value under every assignment (expr_eliminate_yn, expr_eliminate_dups).
ExprSimplified(e) == LET f == E!expr_eliminate_dups(e) IN \A v \in Assignments : E!SimplifiedRight(e, f, v)
\* An expression that depends on a symbol is n where the symbol is n.
ExprDepends(e) == \A v \in Assignments : E!DependsRight(e, v)
\* Expressions found equal have the same value; what is used up says which implies which.
ExprEqual(e, f) == LET rest == E!expr_eliminate_eq(e, f) IN \A v \in Assignments : E!EqualRight(e, f, rest, v)
\* expr.c: whatever is simplified, transformed, compared, searched, printed or matched means what was written: expr_transform
\* keeps the value, expr_trans_bool does where no symbol is m, expr_trans_compare gives y exactly where the expression compares
\* as asked with y or n, and a printed expression reads back as one of the same value.
ExpressionsRight ==
    [][/\ Ran("expr") => /\ ExprSimplified(job.e) /\ ExprDepends(job.e)
                         /\ E!TransformedRight(job.e, Assignments) /\ E!ComparedRight(job.e, Assignments)
                         /\ E!PrintedRight(job.e, Assignments)
       /\ Ran("pair") => ExprEqual(job.e, job.f)]_vars

\* After menu_finalize a property is shown exactly where its own condition and those of all enclosing entries hold; the lower
\* bound of a symbol is what its selectors, and a mandatory choice, ask for; rearranging submenus keeps every entry, in the order
\* of the text; an entry moved below a symbol is shown only where that symbol is set or shown; and sym_check_deps reports a
\* dependency cycle exactly when there is one, whatever symbol it starts from.
TextRight(text) ==
    LET parsed == yyparse(text, TextSyms)
        final == conf_parse(text, TextSyms)
    IN  /\ VisibilityRight(parsed, final, TextAssignments)
        /\ SelectRight(parsed, final, TextAssignments)
        /\ TreeKept(parsed, final)
        /\ SubmenuRight(parsed, final, TextAssignments)
        /\ CyclesFound(final, TextOrder)
\* A text expands to what it means, whatever is redefined later, and depends on the environment only through what is recorded.
PhraseRight(phrase) ==
    /\ P!ExpandsRight(World, phrase)
    /\ \A os \in OtherOs : P!EnvironmentRecorded(World, phrase, os)
    /\ P!FlavorsRight(World, phrase, <<"v">>, <<<<"s">>, <<"x">>>>)
\* menu.c, symbol.c, preprocess.c: the finalized tree is the text's, with its macros expanded, every condition passed down and
\* every cycle found.
MenusRight == [][/\ Ran("text") => TextRight(Text(job.a, job.b, job.d))
                 /\ Ran("macro") => PhraseRight(job.phrase)]_vars

\* symbol.c, confdata.c, conf.c, mconf.c: at every point of a session the values are fresh (symbol.c's caches) and do not depend
\* on which symbol the hash table yields first; a saved .config and the minimal file of savedefconfig read back to the same values,
\* and after any mode of conf there is nothing left to save; selects are lower bounds, dependencies upper bounds, ranges hold and
\* a choice has one value; oldconfig leaves no new symbol unasked, even one that an answer makes visible; allyesconfig and
\* allnoconfig go to the bounds; and a quoted string reads back as itself.
SessionsRight ==
    /\ job.k = "session" => ValuesRight(Anew(db, order)) /\ AllAsked /\ AllSet
    /\ job.k = "quote" => EscapeRight(job.chars)
    /\ job.k = "sync" => SyncSettles
    /\ job.k = "source" /\ ~done => D(FilesWith(job.text))!DependenciesRight(DepFile)
=============================================================================
