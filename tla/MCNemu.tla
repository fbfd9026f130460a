------------------------------ MODULE MCNemu ------------------------------
(***************************************************************************)
(* NEMU and the parts of the abstract machine that meet a device or a      *)
(* trap: one of four systems runs, the others rest.                        *)
(***************************************************************************)
EXTENDS Nemu, Audio, Uptime, Cte
VARIABLE system
all_vars == <<system, vars, audio_vars, time_vars, cte_vars>>

MCBuilds == {[device |-> TRUE, difftest |-> FALSE, events |-> 3, kinds |-> {"alu", "device", "trap"}],
             [device |-> TRUE, difftest |-> TRUE, events |-> 1, kinds |-> Kinds],
             [device |-> FALSE, difftest |-> TRUE, events |-> 0, kinds |-> Kinds \ {"device"}]}
MCkeymap == [k \in 0 .. 255 |-> CASE k = 4 -> 1 [] k = 6 -> 2 [] OTHER -> 0]

Resting == ~is_batch_mode /\ build = CHOOSE b \in Builds : TRUE
TimePorts == {"nemu", "npc", "ysyxsoc"}
MCInit ==
    /\ system \in {"nemu", "audio", "uptime", "cte"}
    /\ Init /\ AudioInit
    /\ system # "nemu" => Resting
    /\ \E p \in TimePorts : (system # "uptime" => p = "nemu") /\ TimeInit(p)
    /\ \E p \in Ports, t \in Threads : (system # "cte" => p = npc_trap /\ t = 0) /\ CteInit(p, t)
MCNext ==
    /\ UNCHANGED system
    /\ \/ system = "nemu" /\ Next /\ UNCHANGED <<audio_vars, time_vars, cte_vars>>
       \/ system = "audio" /\ AudioNext /\ UNCHANGED <<vars, time_vars, cte_vars>>
       \/ system = "uptime" /\ TimeNext /\ UNCHANGED <<vars, audio_vars, cte_vars>>
       \/ system = "cte" /\ CteNext /\ UNCHANGED <<vars, audio_vars, time_vars>>
MCSpec ==
    /\ MCInit /\ [][MCNext]_all_vars
    /\ WF_vars(SomeInstruction \/ DeviceUpdateEarly \/ Return) /\ SF_vars(PollEvents)
    /\ WF_audio_vars(system = "audio" /\ AudioDriver) /\ WF_audio_vars(system = "audio" /\ sdl_audio_callback)

\* audio.c, timer.c, trap.S: the callback plays what the guest wrote, a time read
\* by two loads is wrong only as the port's register allows, and a thread finds
\* its registers as it left them after any number of switches.
GuestsUndisturbed == AudioInOrder /\ UptimeRight /\ ThreadsUndisturbed
\* device.c, audio.c: a closed window is noticed by a program that runs on, and a
\* driver that waits for room gets to the end of its samples.
Progress == QuitHonoured /\ AudioDrains
===========================================================================
