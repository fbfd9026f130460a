-------------------------------- MODULE Sdb --------------------------------
(***************************************************************************)
(* The debugger of the simulator, npc/sim/sdb: main loop and commands      *)
(* (main.cpp), the execution loop (cpu-exec.cpp), watchpoints and          *)
(* breakpoints.  SIGINT arrives between any two steps.                     *)
(*                                                                         *)
(* The core and differential testing are the environment: a cycle may      *)
(* trace an instruction (exu_inst_trace_ready), call ebreak_handler, and   *)
(* end with a mismatch.  All watchpoints watch one expression, which a     *)
(* cycle changes arbitrarily and whose evaluation may fail.                *)
(***************************************************************************)
EXTENDS Integers, FiniteSets

CONSTANTS NR_WP, NR_BP,   \* 32 each in the code
          Values,         \* values of the watched expression
          Pcs,            \* program counters breakpoints are set at
          MaxSi           \* bound on N of the command si N

ASSUME PoolsAssumption == NR_WP \in Nat \ {0} /\ NR_BP \in 1 .. NR_WP
ASSUME ValuesAssumption == Values # {} /\ "error" \notin Values
ASSUME PcsAssumption == Pcs # {} /\ "elsewhere" \notin Pcs
ASSUME MaxSiAssumption == MaxSi \in Nat

VARIABLES
    sdb_state, sdb_halt_ret, is_batch_mode, resume_from_ctrl_c, sim_stop_requested,
    at,                             \* where the program is
    n,                              \* what execute still has to run; 0 outside
    wp_next, wp_head, wp_free,      \* wp_pool
    last_val,                       \* by watchpoint; "error" if !last_val_valid
    bp_next, bp_head, bp_free, bp_addr,
    got_ebreak, value,              \* the core
    mismatched                      \* history: difftest has met a mismatch

state_vars == <<sdb_state, sdb_halt_ret, mismatched>>
mode_vars == <<is_batch_mode, resume_from_ctrl_c>>
pool_vars == <<wp_next, wp_head, wp_free, bp_next, bp_head, bp_free, bp_addr>>
core_vars == <<got_ebreak, value>>
vars == <<sdb_state, sdb_halt_ret, mismatched, is_batch_mode, resume_from_ctrl_c,
          sim_stop_requested, at, n, wp_next, wp_head, wp_free, last_val, bp_next,
          bp_head, bp_free, bp_addr, got_ebreak, value>>

WP == INSTANCE Pool WITH NR <- NR_WP, next <- wp_next, head <- wp_head, free_ <- wp_free
BP == INSTANCE Pool WITH NR <- NR_BP, next <- bp_next, head <- bp_head, free_ <- bp_free

Unbounded == -1        \* cpu_exec(-1): 2^64 - 1 instructions are never used up
Watched == WP!Listed(wp_head)

(***************************************************************************)
(* cpu_exec and execute.                                                   *)
(***************************************************************************)
CpuExec(k) ==
    \/ /\ sdb_state \in {"End", "Abort", "Quit"}
       /\ UNCHANGED <<sdb_state, n, at>>
    \/ /\ sdb_state \notin {"End", "Abort", "Quit"}
       /\ sdb_state' = "Running"
       /\ n' = k
       /\ at' = IF k = 0 THEN "return" ELSE "cycle"

\* wp_update_one on a watchpoint whose last value was v, when the expression
\* evaluates to x.
Updated(v, x) == IF x = "error" THEN v ELSE x
Changed(v, x) == v # "error" /\ x # "error" /\ v # x

BpHit(pc) == \E i \in BP!Listed(bp_head) : bp_addr[i] = pc
WpHit(x) == \E i \in Watched : Changed(last_val[i], x)

\* Mutant: only the newest watchpoint is looked at.
HitNewest(x, pc) == BpHit(pc) \/ (wp_head # WP!Null /\ Changed(last_val[wp_head], x))
Hit(x, pc) == BpHit(pc) \/ WpHit(x)

\* wp_update and bp_update: stop, unless execution is over already.
\* Mutant: stop in any case.
StoppedAnyway(st, hit) == IF hit THEN "Stop" ELSE st
Stopped(st, hit) == IF hit /\ st = "Running" THEN "Stop" ELSE st

\* The state after a cycle: ebreak first, then watchpoints and breakpoints,
\* then the comparison with the reference.
\* Mutant: the comparison comes before ebreak.
AfterCycleDiffFirst(ebreak, hit, mismatch) ==
    IF ebreak THEN "End" ELSE IF mismatch THEN "Abort" ELSE Stopped(sdb_state, hit)
AfterCycle(ebreak, hit, mismatch) ==
    IF mismatch THEN "Abort" ELSE Stopped(IF ebreak THEN "End" ELSE sdb_state, hit)

\* single_cycle, ebreak, trace_and_difftest, the break, and the count.
Cycle(ready, ebreak, mismatch, x, pc, a0) ==
    /\ at = "cycle"
    /\ got_ebreak' = ebreak
    /\ value' = x
    /\ sdb_state' = AfterCycle(ebreak, ready /\ Hit(x, pc), mismatch)
    /\ sdb_halt_ret' = IF ebreak THEN a0 ELSE sdb_halt_ret
    /\ mismatched' = (mismatched \/ mismatch)
    /\ last_val' = LET watched == IF ready THEN Watched ELSE {}
                   IN  [i \in WP!Nodes |-> IF i \in watched THEN Updated(last_val[i], x) ELSE last_val[i]]
    /\ at' = IF sdb_state' = "Running" THEN "poll" ELSE "return"
    /\ n' = IF sdb_state' = "Running" /\ ready /\ n # Unbounded THEN n - 1 ELSE n
    /\ UNCHANGED <<mode_vars, sim_stop_requested, pool_vars>>

\* sim_stop_requested is noticed behind the break, so the loop runs one more
\* cycle before it stops.
\* Mutant: the request is recorded and the loop goes on.
RequestedRunsOn == sdb_state
Requested == "Stop"

Poll ==
    /\ at = "poll"
    /\ at' = IF n = 0 THEN "return" ELSE "cycle"
    /\ \/ /\ sim_stop_requested
          /\ sdb_state' = Requested
          /\ sim_stop_requested' = FALSE
          /\ resume_from_ctrl_c' = TRUE
       \/ /\ ~sim_stop_requested
          /\ UNCHANGED <<sdb_state, sim_stop_requested, resume_from_ctrl_c>>
    /\ UNCHANGED <<sdb_halt_ret, mismatched, is_batch_mode, n, pool_vars, last_val, core_vars>>

\* The end of cpu_exec; in batch mode the main loop ends with it, unless it was
\* interrupted.
Return ==
    /\ at = "return"
    /\ sdb_state' = IF sdb_state = "Running" THEN "Stop" ELSE sdb_state
    /\ at' = IF is_batch_mode /\ ~resume_from_ctrl_c THEN "exited" ELSE "prompt"
    /\ is_batch_mode' = (is_batch_mode /\ ~resume_from_ctrl_c)
    /\ resume_from_ctrl_c' = (resume_from_ctrl_c /\ ~is_batch_mode)
    /\ n' = 0
    /\ UNCHANGED <<sdb_halt_ret, mismatched, sim_stop_requested, pool_vars, last_val, core_vars>>

(***************************************************************************)
(* The commands that change something.                                     *)
(***************************************************************************)
BatchC ==
    /\ at = "batch"
    /\ CpuExec(Unbounded)
    /\ UNCHANGED <<sdb_halt_ret, mismatched, mode_vars, sim_stop_requested, pool_vars, last_val, core_vars>>

CmdC ==
    /\ at = "prompt"
    /\ CpuExec(Unbounded)
    /\ UNCHANGED <<sdb_halt_ret, mismatched, mode_vars, sim_stop_requested, pool_vars, last_val, core_vars>>

CmdSi(k) ==
    /\ at = "prompt"
    /\ CpuExec(k)
    /\ UNCHANGED <<sdb_halt_ret, mismatched, mode_vars, sim_stop_requested, pool_vars, last_val, core_vars>>

CmdQ ==
    /\ at = "prompt"
    /\ sdb_state' = "Quit"
    /\ at' = "exited"
    /\ UNCHANGED <<sdb_halt_ret, mismatched, mode_vars, sim_stop_requested, n, pool_vars, last_val, core_vars>>

\* rl_gets returns nullptr at the end of the input.
EndOfInput ==
    /\ at = "prompt"
    /\ at' = "exited"
    /\ UNCHANGED <<state_vars, mode_vars, sim_stop_requested, n, pool_vars, last_val, core_vars>>

Crash ==
    /\ at' = "crashed"
    /\ UNCHANGED <<wp_next, wp_head, wp_free, bp_next, bp_head, bp_free, bp_addr, last_val>>

\* w: wp_create evaluates the expression once.
CmdW ==
    /\ at = "prompt"
    /\ \/ /\ WP!Available
          /\ WP!New
          /\ last_val' = [last_val EXCEPT ![wp_free] = value]
          /\ UNCHANGED <<at, bp_next, bp_head, bp_free, bp_addr>>
       \/ /\ ~WP!Available
          /\ Crash
    /\ UNCHANGED <<state_vars, mode_vars, sim_stop_requested, n, core_vars>>

\* b: at the prompt bp_update_one finds nothing running.
CmdB(pc) ==
    /\ at = "prompt"
    /\ \/ /\ BP!Available
          /\ BP!New
          /\ bp_addr' = [bp_addr EXCEPT ![bp_free] = pc]
          /\ UNCHANGED <<at, wp_next, wp_head, wp_free, last_val>>
       \/ /\ ~BP!Available
          /\ Crash
    /\ UNCHANGED <<state_vars, mode_vars, sim_stop_requested, n, core_vars>>

\* d: numbers from NR_WP on are breakpoints; bp_delete takes the number itself
\* as the index of the node.  The last value of a free node is dead: wp_create
\* starts from last_val_valid = false.
CmdD(no) ==
    /\ at = "prompt"
    /\ \/ /\ no < NR_WP /\ WP!InList(no)
          /\ WP!Free(no)
          /\ last_val' = [last_val EXCEPT ![no] = "error"]
          /\ UNCHANGED <<at, bp_next, bp_head, bp_free, bp_addr>>
       \/ /\ no < NR_WP /\ ~WP!InList(no)
          /\ Crash
       \/ /\ no >= NR_WP /\ ~BP!InList(no)
          /\ Crash
    /\ UNCHANGED <<state_vars, mode_vars, sim_stop_requested, n, core_vars>>

\* sig_handler, at any time.
Signal ==
    /\ at \notin {"exited", "crashed"}
    /\ sim_stop_requested' = TRUE
    /\ UNCHANGED <<state_vars, mode_vars, at, n, pool_vars, last_val, core_vars>>

-----------------------------------------------------------------------------
Init ==
    /\ sdb_state = "Stop" /\ sdb_halt_ret = 0 /\ mismatched = FALSE
    /\ is_batch_mode \in BOOLEAN
    /\ at = IF is_batch_mode THEN "batch" ELSE "prompt"
    /\ resume_from_ctrl_c = FALSE /\ sim_stop_requested = FALSE
    /\ n = 0
    /\ WP!InitPool /\ BP!InitPool
    /\ last_val = [i \in WP!Nodes |-> "error"]
    /\ bp_addr \in [BP!Nodes -> {CHOOSE pc \in Pcs : TRUE}]
    /\ got_ebreak = FALSE
    /\ value \in Values

SomeCycle ==
    \E ready, ebreak, mismatch \in BOOLEAN, x \in Values \cup {"error"},
       pc \in Pcs \cup {"elsewhere"}, a0 \in {0, 1} :
        Cycle(ready, ebreak, mismatch, x, pc, a0)

Next ==
    \/ SomeCycle \/ Poll \/ Return
    \/ BatchC \/ CmdC \/ CmdQ \/ EndOfInput \/ CmdW
    \/ \E k \in 0 .. MaxSi : CmdSi(k)
    \/ \E pc \in Pcs : CmdB(pc)
    \/ \E no \in 0 .. NR_WP + NR_BP - 1 : CmdD(no)
    \/ Signal

Spec == Init /\ [][Next]_vars

\* The program runs: execute never waits for anybody.
LiveSpec == Spec /\ WF_vars(SomeCycle \/ Poll \/ Return)

-----------------------------------------------------------------------------
\* Every variable holds a value of its type.
TypeOK ==
    /\ sdb_state \in {"Running", "Stop", "End", "Quit", "Abort"}
    /\ sdb_halt_ret \in {0, 1}
    /\ at \in {"batch", "prompt", "cycle", "poll", "return", "exited", "crashed"}
    /\ n \in -1 .. MaxSi
    /\ wp_next \in [WP!Nodes -> WP!Pointers] /\ {wp_head, wp_free} \subseteq WP!Pointers
    /\ bp_next \in [BP!Nodes -> BP!Pointers] /\ {bp_head, bp_free} \subseteq BP!Pointers
    /\ last_val \in [WP!Nodes -> Values \cup {"error"}] /\ bp_addr \in [BP!Nodes -> Pcs]
    /\ value \in Values \cup {"error"}
    /\ {is_batch_mode, resume_from_ctrl_c, sim_stop_requested, got_ebreak, mismatched} \subseteq BOOLEAN

\* The assertion of single_cycle ("single_cycle called after ebreak."): no
\* sequence of commands, watchpoints and signals clocks the core again after
\* the program has ended.
NoCycleAfterEbreak == at = "cycle" => ~got_ebreak

\* However points are created and deleted, each node of a pool is in one list.
PoolsPartition == WP!Partition /\ BP!Partition

\* After any sequence of creations and deletions every node of a pool is in
\* exactly one of its two lists, and the lists end.
PoolsRight == TypeOK /\ PoolsPartition

\* Without q, the exit status is good exactly if the program ended with result
\* 0 and no instruction differed from the reference.
is_exit_status_bad == ~((sdb_state = "End" /\ sdb_halt_ret = 0) \/ sdb_state = "Quit")
ExitStatusIsTheVerdict ==
    at = "exited" /\ sdb_state # "Quit" =>
      (is_exit_status_bad <=> ~(got_ebreak /\ sdb_halt_ret = 0 /\ ~mismatched))

\* A cycle after which execution goes on has not changed any watched value.
WatchesStop ==
    [][at = "cycle" /\ at' = "poll" =>
         \A i \in Watched : last_val[i] \in {"error", last_val'[i]}]_vars

\* The lists implement what the user sees.
Points == INSTANCE PointSet WITH
            Numbers <- 0 .. NR_WP + NR_BP - 1,
            points <- Watched \cup {NR_WP + i : i \in BP!Listed(bp_head)}
ImplementsPointSet == Points!PointSpec

\* A request to stop reaches a running program: the prompt comes back, or the
\* program ends.
CtrlCStops == (sim_stop_requested /\ at \in {"cycle", "poll"}) ~> (at \in {"prompt", "exited"})
=============================================================================
