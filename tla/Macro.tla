------------------------------- MODULE Macro -------------------------------
(***************************************************************************)
(* The macro language of the configuration system (kconfig/preprocess.c).  *)
(* A text is a sequence of characters.  A machine m is [vars, os, env,     *)
(* err]: the variables, each [value, flavor, count], the environment of    *)
(* the process, what was read of it so far, and the message the program    *)
(* ended with, or none.                                                    *)
(***************************************************************************)
LOCAL INSTANCE Integers
LOCAL INSTANCE Sequences
LOCAL INSTANCE SequencesExt
LOCAL INSTANCE FiniteSets
LOCAL INSTANCE FiniteSetsExt

CONSTANTS Builtin,              \* the names of the built-in functions
          shell(_),             \* what a command prints
          FUNCTION_MAX_ARGS,    \* 16
          MAX_EXPANSIONS,       \* 1000
          SHELL_BUF             \* 256

ok == "none"
pperror(m, msg) == [m EXCEPT !.err = msg]
Machine(getenv) == [vars |-> [n \in {} |-> <<>>], os |-> getenv, env |-> <<>>, err |-> ok]
Result(m, out) == [m |-> m, out |-> out]

(***************************************************************************)
(* Environment variables and built-in functions.                           *)
(***************************************************************************)
env_add(m, name, value) == [m EXCEPT !.env = Append(@, [name |-> name, value |-> value])]
Recorded(m, name) == {k \in DOMAIN m.env : m.env[k].name = name}
env_expand(m, name) ==
    IF name = <<>> THEN Result(m, <<>>)
    ELSE IF Recorded(m, name) # {} THEN Result(m, m.env[Min(Recorded(m, name))].value)
    ELSE IF name \notin DOMAIN m.os THEN Result(m, <<>>)
    ELSE Result(env_add(m, name, m.os[name]), m.os[name])
\* What auto.conf.cmd compares, and the list given up.
env_write_dep(m) == Result([m EXCEPT !.env = <<>>], m.env)

Newlines(t) == {k \in DOMAIN t : \A i \in k .. Len(t) : t[i] = "\n"}
do_shell(t) ==
    LET read == IF Len(t) < SHELL_BUF THEN t ELSE SubSeq(t, 1, SHELL_BUF - 1)
        kept == SubSeq(read, 1, Len(read) - Cardinality(Newlines(read)))
    IN  [k \in DOMAIN kept |-> IF kept[k] = "\n" THEN " " ELSE kept[k]]
function_table ==
    [f \in {"error-if", "warning-if", "filename", "lineno", "info", "shell"} |->
        CASE f \in {"error-if", "warning-if"} -> 2 [] f \in {"info", "shell"} -> 1 [] OTHER -> 0]
\* current_file->name and yylineno do not change while a text is expanded.
do_function(m, f, args) ==
    CASE f = "error-if" /\ args[1] = <<"y">> -> Result(pperror(m, "error-if"), <<>>)
      [] f = "filename" -> Result(m, <<"K">>)
      [] f = "lineno" -> Result(m, <<"7">>)
      [] f = "shell" -> Result(m, do_shell(shell(args[1])))
      [] OTHER -> Result(m, <<>>)
function_expand(m, name, args) ==
    LET f == Builtin[name] IN
    IF Len(args) < function_table[f] THEN Result(pperror(m, "too few function arguments"), <<>>)
    ELSE IF Len(args) > function_table[f] THEN Result(pperror(m, "too many function arguments"), <<>>)
    ELSE do_function(m, f, args)

(***************************************************************************)
(* Variables, user-defined functions and the expansion of a text.          *)
(***************************************************************************)
Opened(t, a, b) == Cardinality({k \in a .. b : t[k] = "("}) - Cardinality({k \in a .. b : t[k] = ")"})
Commas(t) == SetToSortSeq({k \in DOMAIN t : t[k] = "," /\ Opened(t, 1, k - 1) = 0}, <)
Split(t) ==
    LET at == <<0>> \o Commas(t) \o <<Len(t) + 1>> IN [k \in 1 .. Len(at) - 1 |-> SubSeq(t, at[k] + 1, at[k + 1] - 1)]
Digits == <<"1", "2", "3">>
\* strtoul: leading blanks, then one digit.
ArgNumber(t) ==
    LET s == SelectSeq(t, LAMBDA c : c # " ")
    IN  IF Len(s) = 1 /\ Last(t) # " " /\ Contains(Digits, s[1]) THEN CHOOSE k \in DOMAIN Digits : Digits[k] = s[1] ELSE 0
RECURSIVE expand_string_with_args(_, _, _)
\* The value while it is being replaced: freed, or never set.
dangling == <<"dangling">>
Counted(m, name, d) == [m EXCEPT !.vars[name].count = @ + d]
variable_expand(m, name, args) ==
    LET v == m.vars[name]
        left(r) == Result(Counted(r.m, name, -1), r.out)
    IN  IF args = <<>> /\ v.count > 0 THEN Result(pperror(m, "references itself"), <<>>)
        ELSE IF v.value = dangling THEN Result(pperror(m, "undefined behaviour"), <<>>)
        ELSE IF v.count > MAX_EXPANSIONS THEN Result(pperror(m, "too deep"), <<>>)
        ELSE IF v.flavor = "recursive" THEN left(expand_string_with_args(Counted(m, name, 1), v.value, args))
        ELSE Result(m, v.value)
ExpandAll(m, texts, args) ==
    FoldLeft(LAMBDA r, t : LET x == expand_string_with_args(r.m, t, args) IN Result(x.m, Append(r.out, x.out)), Result(m, <<>>), texts)
Apply(r) ==
    LET name == Head(r.out)
        args == Tail(r.out)
    IN  IF r.m.err # ok THEN Result(r.m, <<>>)
        ELSE IF name \in DOMAIN r.m.vars THEN variable_expand(r.m, name, args)
        ELSE IF name \in DOMAIN Builtin THEN function_expand(r.m, name, args)
        ELSE IF args = <<>> THEN env_expand(r.m, name) ELSE Result(r.m, <<>>)
eval_clause(m, t, args) ==
    IF ArgNumber(t) \in DOMAIN args THEN Result(m, args[ArgNumber(t)])
    ELSE IF Len(Commas(t)) > FUNCTION_MAX_ARGS THEN Result(pperror(m, "too many function arguments"), <<>>)
    ELSE IF Len(Commas(t)) = FUNCTION_MAX_ARGS THEN Result(pperror(m, "undefined behaviour"), <<>>)   \* one past new_argv
    ELSE Apply(ExpandAll(m, Split(t), args))
\* What follows a dollar at p: the result and where to go on.
expand_dollar_with_args(m, t, p, args) ==
    LET ends == {q \in p + 1 .. Len(t) : t[q] = ")" /\ Opened(t, p + 1, q - 1) = 0}
    IN  IF p > Len(t) \/ t[p] # "(" THEN [r |-> Result(m, <<"$">>), p |-> p]
        ELSE IF ends = {} THEN [r |-> Result(pperror(m, "unterminated reference"), <<>>), p |-> Len(t) + 1]
        ELSE [r |-> eval_clause(m, SubSeq(t, p + 1, Min(ends) - 1), args), p |-> Min(ends) + 1]
is_end_of_token(c) == c \in {" ", "\n", ",", "(", ")", "=", ":", "$"}
RECURSIVE expand_from(_, _, _, _, _)
expand_from(r, t, p, args, token) ==
    LET on(d) == expand_from(Result(d.r.m, r.out \o d.r.out), t, d.p, args, token)
    IN  IF r.m.err # ok \/ p > Len(t) THEN [r |-> r, p |-> p]
        ELSE IF t[p] = "$" THEN on(expand_dollar_with_args(r.m, t, p + 1, args))
        ELSE IF token /\ is_end_of_token(t[p]) THEN [r |-> r, p |-> p]
        ELSE expand_from(Result(r.m, Append(r.out, t[p])), t, p + 1, args, token)
expand_string_with_args(m, t, args) == expand_from(Result(m, <<>>), t, 1, args, FALSE).r
expand_string(m, t) == expand_string_with_args(m, t, <<>>)
expand_one_token(m, t) == expand_from(Result(m, <<>>), t, 1, <<>>, TRUE)

SetVar(m, name, value, flavor) ==
    LET v == [value |-> value, flavor |-> flavor, count |-> 0]
    IN  [m EXCEPT !.vars = [n \in DOMAIN m.vars \cup {name} |-> IF n = name THEN v ELSE m.vars[n]]]
variable_add(m, name, value, flavor) ==
    LET appended == flavor = "append" /\ name \in DOMAIN m.vars
        kept == IF appended THEN m.vars[name].flavor ELSE IF flavor = "append" THEN "recursive" ELSE flavor
        new == IF kept = "recursive" THEN Result(m, value)
               ELSE expand_string(SetVar(m, name, IF appended THEN m.vars[name].value ELSE dangling, kept), value)
    IN  SetVar(new.m, name, IF appended THEN m.vars[name].value \o <<" ">> \o new.out ELSE new.out, kept)
variable_all_del(m) == [m EXCEPT !.vars = [n \in {} |-> <<>>]]

(***************************************************************************)
(* What a text means.  A phrase is a sequence of nodes: a character        *)
(* <<"c", x>> or a reference <<"r", phrases>>.  Bodies gives the recursive *)
(* variables as phrases, os the environment, open the names around.        *)
(***************************************************************************)
RECURSIVE Written(_)
WrittenNode(n) ==
    IF n[1] = "c" THEN <<n[2]>>
    ELSE <<"$", "(">> \o FlattenSeq([k \in DOMAIN n[2] |-> (IF k = 1 THEN <<>> ELSE <<",">>) \o Written(n[2][k])]) \o <<")">>
Written(phrase) == FlattenSeq([k \in DOMAIN phrase |-> WrittenNode(phrase[k])])
fails == <<"fails">>
RECURSIVE Meaning(_, _, _, _)
Called(w, name, args, open) ==
    LET times == Cardinality({k \in DOMAIN open : open[k] = name})
    IN  CASE name \in DOMAIN w.bodies -> IF (args = <<>> /\ times > 0) \/ times > MAX_EXPANSIONS THEN fails
                                         ELSE Meaning(w, w.bodies[name], args, Append(open, name))
          [] name \in DOMAIN w.simple -> w.simple[name]
          [] name \in DOMAIN Builtin ->
                 IF Len(args) # function_table[Builtin[name]] \/ (Builtin[name] = "error-if" /\ args[1] = <<"y">>) THEN fails
                 ELSE do_function([err |-> ok], Builtin[name], args).out
          [] OTHER -> IF args = <<>> /\ name \in DOMAIN w.os THEN w.os[name] ELSE <<>>
MeaningNode(w, n, args, open) ==
    IF n[1] = "c" THEN <<n[2]>>
    ELSE IF Len(n[2]) = 1 /\ \E k \in DOMAIN args : n[2][1] = <<<<"c", Digits[k]>>>>
    THEN args[CHOOSE k \in DOMAIN args : n[2][1] = <<<<"c", Digits[k]>>>>]
    ELSE LET vs == [k \in DOMAIN n[2] |-> Meaning(w, n[2][k], args, open)]
         IN  IF \E k \in DOMAIN vs : vs[k] = fails THEN fails ELSE Called(w, Head(vs), Tail(vs), open)
Meaning(w, phrase, args, open) ==
    LET vs == [k \in DOMAIN phrase |-> MeaningNode(w, phrase[k], args, open)]
    IN  IF \E k \in DOMAIN vs : vs[k] = fails THEN fails ELSE FlattenSeq(vs)
\* The machine that has read the definitions of w.
Defining(w) ==
    LET simple == FoldLeft(LAMBDA m, n : SetVar(m, n, w.simple[n], "simple"), Machine(w.os), SetToSeq(DOMAIN w.simple))
    IN  FoldLeft(LAMBDA m, n : SetVar(m, n, Written(w.bodies[n]), "recursive"), simple, SetToSeq(DOMAIN w.bodies))

\* A text expands to what it means, or ends the program where it has no meaning; no variable is left marked as being expanded.
ExpandsRight(w, phrase) ==
    LET r == expand_string(Defining(w), Written(phrase))
        v == Meaning(w, phrase, <<>>, <<>>)
    IN  /\ IF v = fails THEN r.m.err # ok ELSE r.m.err = ok /\ r.out = v
        /\ r.m.err = ok => \A n \in DOMAIN r.m.vars : r.m.vars[n].count = 0
\* While the environment variables recorded for auto.conf.cmd keep their values, and no unset one is set, so does the text.
EnvironmentRecorded(w, phrase, os) ==
    LET r == expand_string(Defining(w), Written(phrase)) IN
    DOMAIN os = DOMAIN w.os /\ (\A k \in DOMAIN r.m.env : os[r.m.env[k].name] = r.m.env[k].value)
        => expand_string(Defining([w EXCEPT !.os = os]), Written(phrase)).out = r.out
\* A variable set with := keeps the value its text had then; one set with = has the value its text has when it is used, and
\* += goes on in either way.
FlavorsRight(w, phrase, name, later) ==
    LET m == Defining(w)
        t == Written(phrase)
        ref == <<"$", "(">> \o name \o <<")">>
        changed(x) == SetVar(x, later[1], later[2], "recursive")
        at(x, y) == IF x.err # ok \/ y.m.err # ok THEN fails ELSE y.out
        now == at(m, expand_string(m, t))
        then == at(m, expand_string(changed(m), t))
        twice(a, b) == IF a = fails \/ b = fails THEN fails ELSE a \o <<" ">> \o b
        use(x) == at(x, expand_string(changed(x), ref))
        set(x, f) == variable_add(x, name, t, f)
    IN  /\ use(set(m, "simple")) = now
        /\ use(set(m, "recursive")) = then
        /\ use(set(m, "append")) = then
        /\ use(set(set(m, "simple"), "append")) = twice(now, now)
        /\ use(set(set(m, "recursive"), "append")) = twice(then, then)
=============================================================================
