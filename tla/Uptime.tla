------------------------------ MODULE Uptime ------------------------------
(***************************************************************************)
(* A 64-bit time read as two words: NEMU's rtc, which latches both halves  *)
(* when the high one is read (device/timer.c, platform/nemu/ioe/timer.c),  *)
(* and the live mtime of the npc and ysyxsoc ports (timer.c).  A word has  *)
(* TimeBase values.                                                        *)
(***************************************************************************)
LOCAL INSTANCE Integers

CONSTANTS TimeBase,    \* 2^32 in the code
          MaxTime      \* bound on the clock
ASSUME UptimeAssumption == TimeBase \in Nat \ {0, 1} /\ MaxTime \in Nat

VARIABLES time_port, clock, latch, first, reading, since, uptime
time_vars == <<time_port, clock, latch, first, reading, since, uptime>>

Lo(t) == t % TimeBase
Hi(t) == t \div TimeBase
NoTime == [us |-> -1, since |-> 0, now |-> 0]
TimeInit(port) ==
    /\ time_port = port /\ clock = 0 /\ latch = 0
    /\ first = 0 /\ reading = FALSE /\ since = 0 /\ uptime = NoTime

Tick ==
    /\ clock < MaxTime /\ clock' = clock + 1
    /\ UNCHANGED <<time_port, latch, first, reading, since, uptime>>
rtc_io_handler(offset) == IF offset = 4 THEN clock ELSE latch
npc_cycle_per_us == 7
ysyxsoc_cycle_per_us == 1

\* __am_timer_uptime: the first load, then the second one.
nemu_first == latch' = rtc_io_handler(4) /\ first' = Hi(latch')
nemu_second == LET t == rtc_io_handler(0) IN latch' = t /\ uptime' = [us |-> first * TimeBase + Lo(t), since |-> since, now |-> clock]
live_first == first' = Lo(clock) /\ UNCHANGED latch
live_second(cycle_per_us) ==
    /\ uptime' = [us |-> (Hi(clock) * TimeBase + first) * cycle_per_us, since |-> since, now |-> clock]
    /\ UNCHANGED latch
UptimeFirst ==
    /\ ~reading /\ reading' = TRUE /\ since' = clock
    /\ IF time_port = "nemu" THEN nemu_first ELSE live_first
    /\ UNCHANGED <<time_port, clock, uptime>>
UptimeSecond ==
    /\ reading /\ reading' = FALSE
    /\ CASE time_port = "nemu" -> nemu_second
         [] time_port = "npc" -> live_second(npc_cycle_per_us)
         [] OTHER -> live_second(ysyxsoc_cycle_per_us)
    /\ UNCHANGED <<time_port, clock, first, since>>
TimeNext == Tick \/ UptimeFirst \/ UptimeSecond

\* timer.c: the time returned lies between the call and the return.  The live
\* register is wrong when its low word wraps between the loads: the result is
\* then ahead of the clock by less than a low word.
UptimeRight ==
    LET scale == IF time_port = "npc" THEN npc_cycle_per_us ELSE 1
        between == uptime.us \in {scale * t : t \in uptime.since .. uptime.now}
        wrapped == Hi(uptime.since) # Hi(uptime.now)
    IN  uptime # NoTime =>
          \/ between
          \/ /\ time_port # "nemu" /\ wrapped
             /\ uptime.us > scale * uptime.now /\ uptime.us < scale * (uptime.now + TimeBase)
===========================================================================
