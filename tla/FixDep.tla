------------------------------- MODULE FixDep -------------------------------
(***************************************************************************)
(* tools/fixdep/fixdep.c: the compiler's list of the files an object was   *)
(* made from becomes a list of dependencies for make, in which autoconf.h  *)
(* is replaced by one file per CONFIG_ word used.  A source text is a      *)
(* sequence of pieces: "CONFIG_", "_MODULE", single characters; a name is  *)
(* a sequence of pieces too.  The file of a name is what conf_touch_dep    *)
(* (kconfig/confdata.c) touches when the symbol changes.                   *)
(***************************************************************************)
LOCAL INSTANCE Integers
LOCAL INSTANCE Sequences
LOCAL INSTANCE SequencesExt
LOCAL INSTANCE FiniteSetsExt

CONSTANTS read_file,    \* what is in each file
          Generated     \* the names autoconf.h and autoksyms.h are listed under
Blank == {" ", ".", "\n"}
WordPiece(c) == c \notin Blank
Lower == [A |-> "a", B |-> "b"]
tolower(c) == IF c \in DOMAIN Lower THEN Lower[c] ELSE c
Letters(name) == FlattenSeq([k \in DOMAIN name |-> CASE name[k] = "_MODULE" -> <<"/", "module">>
                                                      [] name[k] = "CONFIG_" -> <<"config", "/">>
                                                      [] name[k] = "_" -> <<"/">>
                                                      [] OTHER -> <<tolower(name[k])>>])
\* print_dep: a slash after a slash, the one of include/config/ included, is not written.
print_dep(name) ==
    LET path == <<"/">> \o Letters(name)
    IN  FlattenSeq([k \in 1 .. Len(path) - 1 |-> IF path[k + 1] = "/" /\ path[k] = "/" THEN <<>> ELSE <<path[k + 1]>>])
\* conf_touch_dep: every underscore is a slash.
conf_touch_dep(name) == Letters(name)
\* The file a path names below include/config/: slashes in a row are one.
Component(path) == {k \in DOMAIN path : path[k] # "/" /\ (k = 1 \/ path[k - 1] = "/")}
FileOf(path) ==
    LET full == path \o <<".h">>
        from == SetToSortSeq(Component(full), <)
        upto(k) == Min({j \in k .. Len(full) : j = Len(full) \/ full[j + 1] = "/"})
    IN  [i \in DOMAIN from |-> SubSeq(full, from[i], upto(from[i]))]

\* use_config: a name is printed once; the hash table only speeds the search up.
use_config(out, name) == IF Contains(out.names, name) THEN out
                         ELSE [out EXCEPT !.names = Append(@, name), !.deps = Append(@, print_dep(name))]
str_ends_with(t, sub) == t # <<>> /\ Last(t) = sub
RECURSIVE parse_config_file(_, _, _)
parse_config_file(out, t, p) ==
    LET at == {k \in p .. Len(t) : t[k] = "CONFIG_"}
        k == Min(at)
        q == Min({j \in k + 1 .. Len(t) + 1 : j = Len(t) + 1 \/ ~WordPiece(t[j])})
        word == SubSeq(t, k + 1, q - 1)
        name == IF str_ends_with(word, "_MODULE") THEN Front(word) ELSE word
    IN  IF at = {} THEN out
        ELSE IF k > 1 /\ WordPiece(t[k - 1]) THEN parse_config_file(out, t, k + 1)
        ELSE parse_config_file(IF name = <<>> THEN out ELSE use_config(out, name), t, q)
is_ignored_file(f) == f \in Generated
\* One word of the compiler's list: a target, or a file.
Dependency(out, w) ==
    LET read(o) == parse_config_file(o, read_file[w.name], 1)
    IN  IF w.target THEN [out EXCEPT !.first = TRUE]
        ELSE IF is_ignored_file(w.name) THEN out
        ELSE IF ~out.first THEN read([out EXCEPT !.files = Append(@, w.name)])
        ELSE IF out.source = "none" THEN read([out EXCEPT !.first = FALSE, !.source = w.name])
        ELSE read([out EXCEPT !.first = FALSE])
\* "none" for the source: the parse error that ends the program.
parse_dep_file(words) ==
    FoldLeft(Dependency, [names |-> <<>>, deps |-> <<>>, files |-> <<>>, source |-> "none", first |-> FALSE], words)

\* The words of a text, as a C compiler sees them, and the symbols they test.
Starts(t) == {k \in DOMAIN t : WordPiece(t[k]) /\ (k = 1 \/ ~WordPiece(t[k - 1]))}
WordAt(t, k) == SubSeq(t, k, Min({j \in k .. Len(t) : j = Len(t) \/ ~WordPiece(t[j + 1])}))
Tested(t) ==
    LET words == {WordAt(t, k) : k \in Starts(t)}
        after == {Tail(w) : w \in {x \in words : Head(x) = "CONFIG_"}}
    IN  {IF w # <<>> /\ Last(w) = "_MODULE" THEN Front(w) ELSE w : w \in after} \ {<<>>}
\* A file that a changed symbol's value can reach the object through is listed: for every word tested in a file that was read,
\* the very file that conf touches, once; for every header but autoconf.h itself, the header; and nothing else is.
DependenciesRight(words) ==
    LET out == parse_dep_file(words)
        isFile(k) == ~words[k].target /\ ~is_ignored_file(words[k].name)
        listed == {words[k].name : k \in {j \in DOMAIN words : isFile(j)}}
        uses == UNION {Tested(read_file[f]) : f \in listed}
    IN  /\ ToSet(out.names) = uses /\ IsInjective(out.names)
        /\ {FileOf(out.deps[k]) : k \in DOMAIN out.deps} = {FileOf(conf_touch_dep(s)) : s \in uses}
        /\ listed \subseteq ToSet(out.files) \cup {out.source} \cup {words[k].name : k \in {j \in DOMAIN words : j > 1 /\ words[j - 1].target}}
        /\ ToSet(out.files) \subseteq listed
=============================================================================
