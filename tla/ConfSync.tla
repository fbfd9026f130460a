----------------------------- MODULE ConfSync -----------------------------
(***************************************************************************)
(* conf --syncconfig and the build: conf_write_autoconf (confdata.c)       *)
(* touches a file per symbol that changed since auto.conf was written,     *)
(* then replaces autoconf.h and, last, auto.conf.  fixdep makes an object  *)
(* depend on the files of the symbols it uses and not on autoconf.h.       *)
(* There is one object per symbol.  The program may be stopped anywhere.   *)
(* What conf computes is a parameter: conf_sync[<<c, a>>] is the .config   *)
(* it writes, the symbols whose files it touches, in order, and what goes  *)
(* into autoconf.h and auto.conf, when it reads the .config c and the      *)
(* auto.conf a.                                                            *)
(***************************************************************************)
EXTENDS Sequences

CONSTANTS Names,        \* the symbols of the tree and of oldauto
          configs,      \* the .config files a user may leave
          oldauto,      \* an auto.conf of an earlier revision of the Kconfig files
          nofile,       \* a file that is not there
          ConfigFiles, AutoFiles,   \* every .config and every auto.conf
          conf_sync

unset == "unset"
\* What a file defines a symbol to.
ValueIn(file, s) ==
    LET ls == {k \in DOMAIN file : file[k].sym = s} IN IF file = nofile \/ ls = {} THEN unset ELSE file[CHOOSE k \in ls : TRUE].val

\* conf reads and writes these files.
FilesAssumption ==
    /\ configs \subseteq ConfigFiles
    /\ {nofile, oldauto} \subseteq AutoFiles
    /\ conf_sync \in [ConfigFiles \X AutoFiles -> [config : ConfigFiles, touch : Seq(Names), tmp : AutoFiles]]
\* It touches the file of every symbol that auto.conf and the file it will be replaced with define differently.
TouchAssumption ==
    \A c \in ConfigFiles, a \in AutoFiles, s \in Names :
        ValueIn(conf_sync[<<c, a>>].tmp, s) # ValueIn(a, s) => \E k \in DOMAIN conf_sync[<<c, a>>].touch : conf_sync[<<c, a>>].touch[k] = s
\* The .config it writes amounts to the same configuration, whatever auto.conf is there.
SettledAssumption ==
    \A c \in ConfigFiles, a, b \in AutoFiles : conf_sync[<<conf_sync[<<c, a>>].config, b>>].tmp = conf_sync[<<c, a>>].tmp
ASSUME SyncAssumption == FilesAssumption /\ TouchAssumption /\ SettledAssumption

VARIABLES config,       \* .config
          header,       \* autoconf.h, by its lines
          auto,         \* auto.conf
          todo,         \* files still to be touched
          tmp,          \* .tmpconfig and .tmpconfig.h
          pc,           \* "idle", "touch", or the number of renames done
          newer,        \* symbols whose file is newer than the object
          built         \* the value each object was compiled with
svars == <<config, header, auto, todo, tmp, pc, newer, built>>

Torn == header # auto

SInit ==
    /\ config \in configs /\ todo = <<>> /\ tmp = nofile /\ pc = "idle"
    /\ \/ header = nofile /\ newer = Names
       \/ header = oldauto /\ newer = {}
    /\ auto = header
    /\ built = [s \in Names |-> ValueIn(header, s)]
\* An interrupted synchronisation is repeated before .config is edited.
EditConfig ==
    /\ pc = "idle" /\ ~Torn /\ config' \in configs \ {config}
    /\ UNCHANGED <<header, auto, todo, tmp, pc, newer, built>>
StartSync ==
    /\ pc = "idle"
    /\ LET r == conf_sync[<<config, auto>>] IN config' = r.config /\ todo' = r.touch /\ tmp' = r.tmp
    /\ pc' = "touch" /\ UNCHANGED <<header, auto, newer, built>>
TouchDep ==
    /\ pc = "touch" /\ todo # <<>>
    /\ newer' = newer \cup {Head(todo)} /\ todo' = Tail(todo)
    /\ UNCHANGED <<config, header, auto, tmp, pc, built>>
\* Variant: auto.conf is replaced first.
AutoFirst == <<"auto.conf", "autoconf.h">>
RenameOrder == <<"autoconf.h", "auto.conf">>
Rename(k, next) ==
    /\ header' = IF RenameOrder[k] = "autoconf.h" THEN tmp ELSE header
    /\ auto' = IF RenameOrder[k] = "auto.conf" THEN tmp ELSE auto
    /\ pc' = next /\ UNCHANGED <<config, todo, tmp, newer, built>>
FirstRename == pc = "touch" /\ todo = <<>> /\ Rename(1, "renamed")
LastRename == pc = "renamed" /\ Rename(2, "idle")
Stopped ==
    /\ pc # "idle" /\ pc' = "idle" /\ todo' = <<>>
    /\ UNCHANGED <<config, header, auto, tmp, newer, built>>
Compile(s) ==
    /\ pc = "idle" /\ header # nofile /\ s \in newer
    /\ built' = [built EXCEPT ![s] = ValueIn(header, s)] /\ newer' = newer \ {s}
    /\ UNCHANGED <<config, header, auto, todo, tmp, pc>>
SNext ==
    EditConfig \/ StartSync \/ TouchDep \/ FirstRename \/ LastRename \/ Stopped \/ \E s \in Names : Compile(s)
SSpec == SInit /\ [][SNext]_svars

\* confdata.c: an object that make takes for current was compiled with the value autoconf.h has for its symbol, wherever conf was
\* stopped before and whatever was compiled in between.
ObjectsCurrent == \A s \in Names \ newer : built[s] = ValueIn(header, s)
\* A synchronisation touches exactly the files of the symbols whose value it changes.
SyncSettles ==
    pc = "idle" /\ ~Torn /\ header # nofile =>
        LET r == conf_sync[<<config, auto>>]
        IN  {r.touch[k] : k \in DOMAIN r.touch} = {s \in Names : ValueIn(r.tmp, s) # ValueIn(header, s)}
=============================================================================
