-------------------------------- MODULE Nemu --------------------------------
(***************************************************************************)
(* NEMU as a program of its own: the debugger's main loop (sdb.c), the     *)
(* execution loop (cpu-exec.c), differential testing against a reference   *)
(* (dut.c), and the host's window with the keyboard (device.c, keyboard.c).*)
(*                                                                         *)
(* The guest program is arbitrary: every instruction is one of Kinds.  The *)
(* architectural state is a pc, a register x and a word m of memory.  The  *)
(* pools of watchpoints and breakpoints are those of module Pool; here     *)
(* they are the set of what is watched and where to stop.                  *)
(***************************************************************************)
EXTENDS Integers, Sequences, FiniteSets

CONSTANTS
    Builds,           \* configurations: [device, difftest, events, kinds]: events bounds
                      \* those of the host, kinds are the instructions of the guest
    NPc, NVal,        \* numbers of pcs and of register values
    KEY_QUEUE_LEN,    \* 1024 in the code
    keymap,           \* by scancode, 0 .. 255: the AM key, NEMU_KEY_NONE if none
    Scancodes,        \* scancodes the host's keyboard sends
    BreakPcs,         \* pcs breakpoints are set at
    MaxSi             \* bound on N of the command si N

VARIABLES
    build, is_batch_mode,
    nemu_state, halt_ret, at, n,
    dut, ref, is_skip_ref,                \* difftest
    wps, bps,                             \* watched expressions, pcs to stop at
    sdl,                                  \* events the host has queued
    key_queue, key_f, key_r,
    sent,                                 \* events so far
    accepted, taken,                      \* history: keys queued, keys read
    peeked, wrong, ended, late            \* history: see the properties

run_vars == <<nemu_state, halt_ret, at, n>>
diff_vars == <<dut, ref, is_skip_ref>>
key_vars == <<key_queue, key_f, key_r, accepted, taken>>
vars == <<build, is_batch_mode, nemu_state, halt_ret, at, n, dut, ref, is_skip_ref, wps, bps, sdl,
          key_queue, key_f, key_r, sent, accepted, taken, peeked, wrong, ended, late>>

Pcs == 0 .. NPc - 1
Vals == 0 .. NVal - 1
Cpu == [pc : Pcs, x : Vals, m : Vals]
Kinds == {"alu", "store", "load", "device", "trap", "invalid", "unmapped"}
NEMU_KEY_NONE == 0
KEYDOWN_MASK == 32768
Over == {"END", "ABORT", "QUIT"}
Unbounded == -1

ASSUME SizesAssumption == NPc \in Nat \ {0} /\ NVal \in Nat \ {0} /\ KEY_QUEUE_LEN \in Nat \ {0} /\ MaxSi \in Nat
ASSUME BuildsAssumption ==
    Builds \subseteq [device : BOOLEAN, difftest : BOOLEAN, events : Nat, kinds : SUBSET Kinds]
ASSUME KeysAssumption == keymap \in [0 .. 255 -> 0 .. KEYDOWN_MASK - 1] /\ Scancodes \subseteq Nat

NotWatched == -2           \* the value of a watchpoint that is not set

(***************************************************************************)
(* The keyboard: a ring of KEY_QUEUE_LEN entries, full one entry early.    *)
(***************************************************************************)
Queue == [key_queue |-> key_queue, key_f |-> key_f, key_r |-> key_r, ok |-> TRUE]
key_enqueue(q, key) ==
    LET r == (q.key_r + 1) % KEY_QUEUE_LEN
    IN  [key_queue |-> [q.key_queue EXCEPT ![q.key_r] = key], key_f |-> q.key_f, key_r |-> r,
         ok |-> q.ok /\ r # q.key_f]
key_dequeue(q) ==
    IF q.key_f = q.key_r THEN [q |-> q, key |-> NEMU_KEY_NONE]
    ELSE [q |-> [q EXCEPT !.key_f = (@ + 1) % KEY_QUEUE_LEN], key |-> q.key_queue[q.key_f]]
\* The scancode is cut to eight bits on the way (device_update).
am_scancode(e) ==
    LET key == keymap[e.scancode % 256]
    IN  IF key = NEMU_KEY_NONE THEN NEMU_KEY_NONE ELSE key + (IF e.down THEN KEYDOWN_MASK ELSE 0)
\* __am_input_keybrd, on the guest's side.
__am_input_keybrd(key) == [keydown |-> key >= KEYDOWN_MASK, keycode |-> key % KEYDOWN_MASK]
Pressed(e) == [keydown |-> e.down, keycode |-> keymap[e.scancode % 256]]
Pending(q) == [k \in 1 .. (q.key_r + KEY_QUEUE_LEN - q.key_f) % KEY_QUEUE_LEN |->
                 __am_input_keybrd(q.key_queue[(q.key_f + k - 1) % KEY_QUEUE_LEN])]
\* A read of the data register, by the guest or by the debugger.
ReadKey(reads) ==
    LET d == key_dequeue(Queue) IN
    IF ~reads THEN UNCHANGED key_vars
    ELSE /\ key_queue' = d.q.key_queue /\ key_f' = d.q.key_f /\ key_r' = d.q.key_r
         /\ taken' = IF d.key = NEMU_KEY_NONE THEN taken ELSE Append(taken, __am_input_keybrd(d.key))
         /\ UNCHANGED accepted

(***************************************************************************)
(* One instruction, on the emulated machine and on the reference.          *)
(***************************************************************************)
Advance(c) == [c EXCEPT !.pc = (@ + 1) % NPc]
Semantics(c, kind) ==
    CASE kind = "alu"   -> [Advance(c) EXCEPT !.x = (@ + 1) % NVal]
      [] kind = "store" -> [Advance(c) EXCEPT !.m = c.x]
      [] kind = "load"  -> [Advance(c) EXCEPT !.x = c.m]
      [] OTHER          -> Advance(c)
\* find_mapid_by_addr and set_nemu_state call difftest_skip_ref.
difftest_skip_ref(kind) == kind \in {"device", "trap", "invalid"}
\* checkregs compares registers and pc; memory shows when it is loaded.
isa_difftest_checkregs(r, d) == r.x = d.x /\ r.pc = d.pc
\* Variant: the flag stays set when the registers have been copied.
DifftestStepSticky(d, r, skip, kind) ==
    IF skip THEN [ref |-> [r EXCEPT !.pc = d.pc, !.x = d.x], abort |-> FALSE, skip |-> TRUE]
    ELSE LET s == Semantics(r, kind) IN [ref |-> s, abort |-> ~isa_difftest_checkregs(s, d), skip |-> FALSE]
difftest_step(d, r, skip, kind) ==
    IF skip THEN [ref |-> [r EXCEPT !.pc = d.pc, !.x = d.x], abort |-> FALSE, skip |-> FALSE]
    ELSE LET s == Semantics(r, kind) IN [ref |-> s, abort |-> ~isa_difftest_checkregs(s, d), skip |-> FALSE]
NoDifftest(skip) == [ref |-> ref, abort |-> FALSE, skip |-> skip]
set_nemu_state(kind) == CASE kind = "trap" -> "END" [] kind = "invalid" -> "ABORT" [] OTHER -> nemu_state

\* wp_update, bp_update: watching a register, or the keyboard's data register.
Eval(w, d) == IF w = "x" THEN d.x ELSE key_dequeue(Queue).key
Exprs == IF build.device THEN {"x", "key"} ELSE {"x"}
Watching == {w \in Exprs : wps[w] # NotWatched}
Hit(d) == (\E w \in Watching : wps[w] # Eval(w, d)) \/ d.pc \in bps
Stopped(st, hit) == IF hit /\ st = "RUNNING" THEN "STOP" ELSE st

\* Variant: a closed window is left to the next call of cpu_exec.
BreaksUnlessQuit(st) == st \notin {"RUNNING", "QUIT"}
Breaks(st) == st # "RUNNING"

\* exec_once, trace_and_difftest and the break of execute.  The result of an
\* instruction that writes x may come out wrong (err).
ExecOnce(kind, val, err) ==
    LET right == Semantics(dut, kind)
        d     == CASE kind = "device" -> [right EXCEPT !.x = val]
                   [] err -> [right EXCEPT !.x = (@ + 1) % NVal]
                   [] OTHER -> right
        skip  == is_skip_ref \/ difftest_skip_ref(kind)
        diff  == IF build.difftest THEN difftest_step(d, ref, skip, kind) ELSE NoDifftest(skip)
        st    == IF diff.abort THEN "ABORT" ELSE set_nemu_state(kind)
        peeks == "key" \in Watching
    IN  /\ at = "exec"
        /\ dut' = d /\ ref' = diff.ref
        /\ is_skip_ref' = (build.difftest /\ (diff.skip \/ peeks))
        /\ peeked' = (peeked \/ peeks)
        /\ wrong' = (wrong \/ d # [right EXCEPT !.x = IF kind = "device" THEN val ELSE @])
        /\ ended' = (ended \/ kind = "trap")
        /\ late' = IF nemu_state = "QUIT" THEN late + 1 ELSE late
        /\ nemu_state' = Stopped(st, Hit(d))
        /\ halt_ret' = CASE kind = "trap" -> dut.x [] kind = "invalid" -> -1 [] OTHER -> halt_ret
        /\ wps' = [w \in DOMAIN wps |-> IF w \in Watching THEN Eval(w, d) ELSE wps[w]]
        /\ ReadKey(kind = "device" \/ peeks)
        /\ n' = IF n = Unbounded THEN n ELSE n - 1
        /\ at' = CASE kind = "unmapped" -> "crashed"
                   [] kind # "unmapped" /\ Breaks(nemu_state') -> "return"
                   [] kind # "unmapped" /\ ~Breaks(nemu_state') /\ build.device -> "devices"
                   [] OTHER -> IF n' = 0 THEN "return" ELSE "exec"
        /\ UNCHANGED <<build, is_batch_mode, bps, sdl, sent>>

(***************************************************************************)
(* device_update: nothing until the next tick of the host's clock, then    *)
(* every event is handled; send_key drops keys unless the guest runs.      *)
(***************************************************************************)
LoopEnd == IF n = 0 THEN "return" ELSE "exec"
DeviceUpdateEarly ==
    /\ at = "devices"
    /\ at' = LoopEnd
    /\ UNCHANGED <<build, is_batch_mode, nemu_state, halt_ret, n, diff_vars, wps, bps, sdl, key_vars, sent, peeked, wrong, ended, late>>

\* The state after an event, with the queue and the keys accepted.
HandleEvent(h, e) ==
    CASE e.type = "quit" -> [h EXCEPT !.state = "QUIT"]
      [] e.type = "key" /\ h.state = "RUNNING" /\ am_scancode(e) # NEMU_KEY_NONE ->
           [h EXCEPT !.q = key_enqueue(h.q, am_scancode(e)), !.accepted = Append(@, Pressed(e))]
      [] OTHER -> h
HandleEvents(h, events) ==
    LET handle[k \in 0 .. Len(events)] == IF k = 0 THEN h ELSE HandleEvent(handle[k - 1], events[k])
    IN  handle[Len(events)]
PollEvents ==
    LET h == HandleEvents([state |-> nemu_state, q |-> Queue, accepted |-> accepted], sdl)
    IN  /\ at = "devices"
        /\ sdl' = <<>>
        /\ nemu_state' = h.state
        /\ key_queue' = h.q.key_queue /\ key_f' = h.q.key_f /\ key_r' = h.q.key_r
        /\ accepted' = h.accepted
        /\ at' = IF h.q.ok THEN LoopEnd ELSE "crashed"
        /\ UNCHANGED <<build, is_batch_mode, halt_ret, n, diff_vars, wps, bps, sent, taken, peeked, wrong, ended, late>>

\* The host queues an event at any time.
Event(e) ==
    /\ build.device /\ sent < build.events
    /\ at \notin {"exited", "crashed"}
    /\ sdl' = Append(sdl, e)
    /\ sent' = sent + 1
    /\ UNCHANGED <<build, is_batch_mode, run_vars, diff_vars, wps, bps, key_vars, peeked, wrong, ended, late>>

(***************************************************************************)
(* cpu_exec and the commands.  sdb_mainloop empties the host's event queue *)
(* before it runs a command.                                               *)
(***************************************************************************)
CpuExec(k) ==
    \/ /\ nemu_state \in Over
       /\ UNCHANGED <<nemu_state, n, at>>
    \/ /\ nemu_state \notin Over
       /\ nemu_state' = "RUNNING"
       /\ n' = k
       /\ at' = IF k = 0 THEN "return" ELSE "exec"
Return ==
    /\ at = "return"
    /\ nemu_state' = IF nemu_state = "RUNNING" THEN "STOP" ELSE nemu_state
    /\ at' = IF is_batch_mode THEN "exited" ELSE "prompt"
    /\ n' = 0
    /\ UNCHANGED <<build, is_batch_mode, halt_ret, diff_vars, wps, bps, sdl, key_vars, sent, peeked, wrong, ended, late>>
BatchC ==
    /\ at = "batch"
    /\ CpuExec(Unbounded)
    /\ UNCHANGED <<build, is_batch_mode, halt_ret, diff_vars, wps, bps, sdl, key_vars, sent, peeked, wrong, ended, late>>

Command == at = "prompt" /\ sdl' = <<>> /\ UNCHANGED <<build, is_batch_mode, sent, wrong, ended, late, dut, ref>>
CmdRun(k) ==
    /\ Command /\ CpuExec(k)
    /\ UNCHANGED <<halt_ret, is_skip_ref, wps, bps, key_vars, peeked>>
CmdQ ==
    /\ Command
    /\ nemu_state' = "QUIT" /\ at' = "exited"
    /\ UNCHANGED <<halt_ret, n, is_skip_ref, wps, bps, key_vars, peeked>>
EndOfInput ==
    /\ at = "prompt" /\ at' = "exited"
    /\ UNCHANGED <<build, is_batch_mode, nemu_state, halt_ret, n, diff_vars, wps, bps, sdl, key_vars, sent, peeked, wrong, ended, late>>
\* The debugger reads the keyboard's data register: p, x, or the first
\* evaluation of a watchpoint.
Peek(w) ==
    /\ is_skip_ref' = (is_skip_ref \/ (w = "key" /\ build.difftest))
    /\ peeked' = (peeked \/ w = "key")
    /\ ReadKey(w = "key")
CmdP(w) ==
    /\ Command /\ w \in Exprs /\ Peek(w)
    /\ UNCHANGED <<run_vars, wps, bps>>
CmdW(w) ==
    /\ Command /\ w \in Exprs /\ wps[w] = NotWatched /\ Peek(w)
    /\ wps' = [wps EXCEPT ![w] = Eval(w, dut)]
    /\ UNCHANGED <<run_vars, bps>>
CmdB(pc) ==
    /\ Command
    /\ bps' = bps \cup {pc}
    /\ UNCHANGED <<run_vars, is_skip_ref, wps, key_vars, peeked>>
CmdD(w) ==
    /\ Command /\ w \in Watching
    /\ wps' = [wps EXCEPT ![w] = NotWatched]
    /\ UNCHANGED <<run_vars, is_skip_ref, bps, key_vars, peeked>>

-----------------------------------------------------------------------------
Reset == [pc |-> 0, x |-> 0, m |-> 0]
Init ==
    /\ build \in Builds /\ is_batch_mode \in BOOLEAN
    /\ nemu_state = "STOP" /\ halt_ret = 0 /\ n = 0
    /\ at = IF is_batch_mode THEN "batch" ELSE "prompt"
    /\ dut = Reset /\ ref = Reset /\ is_skip_ref = FALSE
    /\ wps = [w \in {"x", "key"} |-> NotWatched] /\ bps = {}
    /\ sdl = <<>> /\ sent = 0
    /\ key_queue = [k \in 0 .. KEY_QUEUE_LEN - 1 |-> 0] /\ key_f = 0 /\ key_r = 0
    /\ accepted = <<>> /\ taken = <<>>
    /\ peeked = FALSE /\ wrong = FALSE /\ ended = FALSE /\ late = 0

SomeInstruction ==
    \E kind \in Kinds, val \in Vals, err \in BOOLEAN :
        /\ kind \in build.kinds
        /\ kind # "device" => val = 0
        /\ err => kind \in {"alu", "load"} /\ build.difftest
        /\ ExecOnce(kind, val, err)
Events == [type : {"key"}, scancode : Scancodes, down : BOOLEAN] \cup {[type |-> "quit"]}
Next ==
    \/ SomeInstruction \/ DeviceUpdateEarly \/ PollEvents \/ Return
    \/ BatchC \/ CmdQ \/ EndOfInput
    \/ \E e \in Events : Event(e)
    \/ \E k \in {Unbounded} \cup 0 .. MaxSi : CmdRun(k)
    \/ \E w \in {"x", "key"} : CmdP(w) \/ CmdW(w) \/ CmdD(w)
    \/ \E pc \in BreakPcs : CmdB(pc)
Spec == Init /\ [][Next]_vars
\* The loop runs, and the host's clock ticks: device_update is not early forever.
LiveSpec == Spec /\ WF_vars(SomeInstruction \/ DeviceUpdateEarly \/ Return) /\ SF_vars(PollEvents)

-----------------------------------------------------------------------------
\* Every variable holds a value of its type.
TypeOK ==
    /\ nemu_state \in {"RUNNING", "STOP"} \cup Over
    /\ at \in {"batch", "prompt", "exec", "devices", "return", "exited", "crashed"}
    /\ n \in -1 .. MaxSi /\ dut \in Cpu /\ ref \in Cpu
    /\ key_f \in 0 .. KEY_QUEUE_LEN - 1 /\ key_r \in 0 .. KEY_QUEUE_LEN - 1
\* keyboard.c, device.c, AM input.c: the keys read are the keys pressed while the
\* guest ran, in order and with their direction, none lost or repeated; what is
\* not read yet is in the ring.  A full ring ends NEMU instead.
KeysInOrder == at # "crashed" => taken \o Pending(Queue) = accepted
\* dut.c: a program that computes rightly is never stopped by the comparison,
\* unless the debugger has read a device register: its access sets is_skip_ref,
\* and a store skipped because of it never reaches the reference's memory.
NoFalseAlarm == nemu_state = "ABORT" /\ halt_ret # -1 => wrong \/ peeked
\* dut.c: a wrong result is reported at the instruction that computes it, with
\* the same exception.
ErrorsFound == wrong /\ at \notin {"crashed", "exited"} => nemu_state = "ABORT" \/ peeked
is_exit_status_bad == ~((nemu_state = "END" /\ halt_ret = 0) \/ nemu_state = "QUIT")
\* cpu-exec.c, state.c: without q or a closed window, the exit status is good
\* exactly if the program hit the good trap and no result was wrong.
ExitVerdict ==
    /\ at = "exited" /\ nemu_state # "QUIT" /\ ~peeked =>
          (is_exit_status_bad <=> ~(ended /\ halt_ret = 0 /\ ~wrong))
    /\ at = "exited" /\ is_batch_mode => nemu_state \in Over
\* device.c, cpu-exec.c: execute looks at the state before device_update, so one
\* instruction runs after the window is closed, never a second one.
QuitRunsOneMore == late <= 1
\* dut.c: with devices, traps and the skip flag in any order, a processor that
\* makes no mistake is never reported, and one that does is, unless the
\* instruction was skipped.
ComparisonRight == NoFalseAlarm /\ ErrorsFound
\* keyboard.c, device.c, cpu-exec.c, state.c: keys reach the guest once and in
\* order from a queue that wraps, a closed window stops the program after at
\* most one more instruction, and the exit status is the verdict.
EventsRight == TypeOK /\ KeysInOrder /\ QuitRunsOneMore /\ ExitVerdict
\* A closed window ends the run: the prompt comes back or NEMU exits.
QuitHonoured ==
    (at \in {"exec", "devices"} /\ \E k \in DOMAIN sdl : sdl[k].type = "quit") ~> at \in {"prompt", "exited", "crashed"}
=============================================================================
