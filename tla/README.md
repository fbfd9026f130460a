# A TLA+ verification project for bailuwan

bailuwan is a RISC-V (RV32E + Zicsr + Zifencei) processor written in Chisel
(`src/npc/bailuwan`), with the simulator and debugger that drive it
(`src/npc/sim`), trace-driven simulators (`src/npc/tracesim`), a reference
interpreter it is compared with (`src/nemu`, with the configuration system under
`src/nemu/tools`) and a bare-metal runtime (`src/abstract-machine`).  This
directory models the parts that carry the logic, model-checks them on small
instances with TLC and proves their central properties with TLAPS for every value
of the parameters.

## 1. Inventory

| component | state | operations | talks to | hard because |
|---|---|---|---|---|
| IFU, BPU (`core/IFU.scala`, `core/BPU.scala`) | pc, response queue, BTB, RAS | request, enqueue, redirect, predict | ICache, IDU, EXU | answers arrive late or after a redirect |
| IDU (`core/IDU.scala`) | - (combinational) | decode, forward, stall | register file, EXU, LSU, WBU | three older instructions in flight |
| EXU (`core/EXU.scala`) | - | ALU, CSR read, branch resolution, BTB write | IFU, CSR file | may be flushed after it has been observed |
| LSU (`core/LSU.scala`) | state, read_reg, access_fault | AXI load, AXI store, byte lanes | arbiter, WBU | a flush must not tear a transaction |
| WBU, RegFile, CSRFile | registers, CSRs | commit, exception entry, redirect, fence.i | all | several redirect reasons at once |
| ICache (`core/ICache.scala`) | state, lines, fill registers, req_killed, err | hit, fill, kill, flush | IFU, arbiter | kill, flush and errors during a burst |
| AXI4Arbiter, AXI4CrossBar, AXI4ErrorSlave | owner and state per direction | grant, route, release | LSU, ICache, slaves | answers must go back to who asked |
| CLINT, DPICMem | mtime and latched address; burst registers | read, write | crossbar | latched addresses, same-edge read and write |
| sdb (`npc/sim/sdb`) | sdb_state, watchpoint and breakpoint pools, stop request | c, si, w, b, d, q, SIGINT | simulated core, difftest | signal against loop, list surgery |
| difftest (`npc/sim/sdb/difftest.cpp`) | expected pc, reference machine | step, skip device accesses | sdb, NEMU | state read after retirement |
| evaluators (`expr.cpp`, `expr.c`) | tokens | lex, check, evaluate | w, b, p, x of both debuggers | a parser written by hand |
| ELF reader, ftrace | function table | read symbols, print a jump | both simulators | tail calls, symbols of several tables |
| NEMU (`nemu/src`) | guest state, monitor, key queue | exec, difftest, events, commands | window, reference | devices, events and skipped accesses in one loop |
| audio (`ioe/audio.c`, `device/audio.c`) | ring, two pointers | play, callback | host thread | two threads, no lock |
| clocks (`timer.c`) | 64-bit time | two loads | rtc, CLINT | time passes between the loads |
| CTE (`cte.c`, `trap.S`) | contexts on stacks | yield, trap, switch, kcontext | kernel | one frame layout in C and in assembly |
| minirv, libgcc, klib | - | macros, arithmetic, strings, printf, malloc | programs | wrap-around, overlapping buffers |
| tracesim | caches, predictors | replay a trace | NEMU as trace source | batches, replacement |
| Kconfig: expr.c, menu.c, parser.y, preprocess.c | menu tree, expressions, variables | parse, expand, finalize, simplify | symbols | rewriting must keep the value |
| Kconfig: symbol.c, confdata.c, conf.c, mconf.c | symbols with caches, .config | set, calculate, read, write, ask | the user, the build | caches that go stale, files written in two renames |
| Kconfig: syncconfig, fixdep | auto.conf, autoconf.h, a file per symbol | touch, rename, scan | make | stopped between two steps |

How the parts interact.  The five stages are combinational between pipeline
registers (`utils/PipelineConnect.scala`); valid/ready travels along the
pipeline, hazards travel from EXU, LSU and WBU back to IDU, redirects from EXU
and WBU back to IFU.  IFU asks the ICache through a kill-able request port;
ICache and LSU are the two masters of one AXI arbiter, behind which a crossbar
chooses memory, CLINT or the error slave by address.  The simulator clocks the
core one cycle at a time; ebreak calls the host from EXU, a commit in WBU makes
the host step NEMU and compare.  SIGINT sets a flag the execution loop polls.
NEMU is also a program of its own: its loop polls the window for keys, its devices
call back on a host thread, and it can itself be compared with a reference.  The
configuration system writes the `.config` from which the builds of NEMU differ;
`conf --syncconfig` turns it into the files that `fixdep` makes objects depend on.

What makes each part correct:

- **pipeline**: every program commits the instructions of the sequential machine
  with the same results, whatever the timing of fetches and of the bus; memory is
  written by committed instructions only; a bus request is stable and belongs to
  an instruction; the pipeline never wedges.
- **instruction cache**: an answer is a word memory has held there since the last
  `fence.i`, or an error; a killed fetch is never answered and its burst is
  consumed to the end.
- **bus**: an answer reaches the master that asked, from the slave its address
  selects; nobody starves.
- **sdb**: a finished program is never clocked again; what the user set makes the
  loop stop; the exit status is the verdict; points behave as a set of numbers.
- **difftest**, here and in NEMU: no alarm for a correct core, an alarm for a wrong
  one.
- **NEMU's devices and the runtime**: keys and samples arrive once and in order, a
  time lies between call and return, a thread finds its state as it left it.
- **pure algorithms** (decoders, evaluators, libraries, macros, trace simulators):
  each computes its mathematical meaning.
- **configuration**: rewriting an expression keeps its value, values are fresh
  whatever was edited in which order, files read back to what was written, and no
  object survives a change of a symbol it uses.

The hazards of the code, line by line, are listed in `PROJECT.json`.

## 2. Modules

| module | models | remarks |
|---|---|---|
| `Isa` | `core/IDU.scala` (decode table), `core/ALU.scala`, exception codes, NEMU's `decode_exec` and `isa_raise_intr` | the sequential machine `ExecOnce` |
| `Core` | IFU, BPU, IDU, EXU, LSU, WBU, register and CSR file, `PipelineConnect` | EXTENDS `Isa`; one step is one clock edge |
| `FetchPort` | what `Core` assumes of the instruction cache | abstract specification |
| `ICache` | `core/ICache.scala` | implements `FetchPort` |
| `Interconnect` | `amba/AXI4Arbiter.scala`, `amba/AXI4CrossBar.scala` (with its error slave), `core/CLINT.scala`, `utils/DPICMem.scala`, and the bus side of LSU and ICache | one step is one clock edge |
| `Pool` | the linked lists of `watchpoint.cpp` and `breakpoint.cpp` | used twice by `Sdb` |
| `PointSet` | what the user of the debugger sees of both pools | abstract specification |
| `Sdb` | `sdb/main.cpp`, `cpu-exec.cpp`, `watchpoint.cpp`, `breakpoint.cpp`, the signal handler, `single_cycle` | implements `PointSet` |
| `Difftest` | `sdb/difftest.cpp` | EXTENDS `Isa`: the reference is `ExecOnce` |
| `Nemu` | `sdb.c`, `cpu-exec.c`, `dut.c`, `device.c`, `keyboard.c` | NEMU as a program of its own |
| `Audio`, `Uptime`, `Cte` | the audio ring, the clocks, context switching | composed with `Nemu` in `MCNemu` |
| `MiniRV`, `IntLib`, `Klib`, `Expr`, `Ftrace`, `TraceSim` | `tools/minirv`, the double-word routines of libgcc with NEMU's M extension, klib, the evaluators, ftrace, tracesim | operators, each with its meaning beside it |
| `Words` | 32-bit arithmetic, shifts and logic | a word is four bytes; used by `MiniRV` and `Datapath` |
| `Datapath` | `Inst.scala`, `IDU.scala`, `ALU.scala`, `EXU.scala`, byte lanes of `LSU.scala`, SDRAM addresses of `dpic.cpp`; `inst.c`, `decode.h`, `host.h` | one instruction executed by the core and by NEMU, at full width |
| `Libgcc` | `div.S`, `muldi3.S` | a state machine: one step is one basic block |
| `KExpr`, `KMenu`, `Macro` | `expr.c`; `parser.y`, `menu.c`; `preprocess.c` | operators |
| `Kconfig`, `ConfData`, `Conf`, `MConf` | `symbol.c`; `confdata.c`; `conf.c`; `mconf.c` | `MConf` is a state machine: keys, edits, saves |
| `ConfSync`, `FixDep` | `conf_write_autoconf` with the build; `fixdep.c` | `ConfSync` is a state machine that may stop anywhere; what conf computes is its parameter `conf_sync` |
| `IsaProofs`, `PipelineProofs`, `ICacheProofs`, `InterconnectProofs`, `DifftestProofs`, `SdbProofs`, `NemuProofs`, `SoftwareProofs` | - | lemmas and theorems |
| `MCCore`, `MCICache`, `MCInterconnect`, `MCDifftest`, `MCNemu`, `MCSoftware`, `MCKconfig` | - | instances for TLC |

### Isa

A word has `XLEN` bits.  An address counts halfwords: an odd address is a
misaligned one, slot `a \div 2` holds the instruction or datum at address `a`,
and the code's `+ 4` is `+ 2`.  An instruction is the record `InstOf` gives to a
word rather than a bit pattern (the bit patterns are `Datapath`'s); code and data
share one memory, so a store can change code.  `InstDecodeTable` has a row for each
row of the table in `IDU.scala`, with the same operand selectors, so the pipeline
computes results the way the RTL does.  `ExecOnce` computes them from NEMU's
expressions instead (`NemuValue`, `NemuDnpc`, `NemuCsrs`): a wrong row of either
shows as a disagreement in `Sequential`.  Two adjustments make NEMU the reference of
this core and not of another: illegal instructions, misaligned fetches and error
responses raise the core's exceptions (NEMU would panic, or accept), with the causes
the core uses.  The assumption `XLEN \in {4, 8, 16, 32}` says that the shift amount
`b % XLEN` is the low bits of `b` and that an exception code fits a word.

### Core

A register of the RTL is a variable, a wire is an operator of the current state.
The contents of a pipeline register whose valid bit is off are never read and are
left out (`Bubble`).  The two memory ports are open: `Edge(fetched, answered)`
says whether the instruction cache and the bus responded in this cycle, and both
are chosen freely at each edge, so every latency and every relative order of
instruction and data accesses is covered.  What a fetch may return is `code`: the
words the slot has held since the last `fence.i`, which is what `FetchPort`
promises.  The BTB is a table with a slot for each address; a return may be
predicted to go to any return address that was ever pushed, which includes all
that the 16-entry stack of `BPU.scala` can hold.  The BTB of the code has 16 entries,
more than the 8 slots of the runs, so none is ever evicted there.

`ref` is the sequential machine, stepped once for each instruction that leaves WBU,
as the test bench does.  It also keeps what a program did that the pipeline does
not promise, or does not manage, to execute as the sequential machine
(`RefWaivers`): running a word stored to since the last `fence.i` (allowed by the
ISA) and three disagreements described in section 5.  The runs leave a behaviour
when it has earned a waiver, and `Sequential` speaks of the others.

### ICache and FetchPort

All registers of the cache are variables; the environment chooses requests, kill,
flush, room in the response queue and the pauses of the memory at each edge.
`FetchPort` has three states (idle, busy with an address, killed); the refinement
mapping reads them off `state`, `fill_addr` and `req_killed`.  The refinement
needs two conditions the code does not establish: no flush during a fill
(`FlushDuringFill = FALSE`; the run `icache_flush` shows what happens otherwise) and no
block that answers with an error in a set that other blocks use (`NoFaultAlias`).

### Interconnect

Arbiter, crossbar, error slave, CLINT and simulated memory register by register,
together with the states of LSU and ICache that drive the channels.  When a master
asks and for what is arbitrary.  `DPICMem` calls `pmem_read` and `pmem_write` in
two always blocks of one edge, so a read at the edge of a write to the same word
may see either value.

### Sdb, Pool and PointSet

`at` is the place in the program: at the prompt, before a cycle, before the poll of
the stop request, at the return of `cpu_exec`, left.  A cycle is the whole body of
the loop in `execute` up to the break: `single_cycle`, ebreak, the trace with
watchpoints and breakpoints, and the comparison.  SIGINT can come between any two
steps.  What the core does in a cycle (trace an instruction, ebreak, mismatch,
change the watched value, make its evaluation fail) is arbitrary.  `Pool` has the
lists as the code threads them, `next`, `head` and `free_`; the order of a list is
what `Walk` finds by following `next`.

### Difftest

`dut` is a core that retires in order, which `Core` shows it does; `ref` is NEMU's
machine, whose memory has no devices.  The core may get one instruction wrong: a
register, the next pc, or a stored word.  `difftest_step` has the three outcomes of
the code: skip and copy, execute and compare, and the panic of a reference that
meets an address or instruction it does not support.

### Nemu, Audio, Uptime and Cte

`Nemu` is the monitor: `at` is the place in `sdb_mainloop`, `execute` or
`cpu_exec`; an instruction is one of `Kinds` and computes, loads, stores, touches a
device, traps or fails; host events queue in `sdl` until `PollEvents`.  A build says
whether devices and the comparison are compiled in.  `Audio` interleaves the guest's
copying, byte by byte, with the callback's; `Uptime` lets the clock tick between the
two loads of a 64-bit time, latched (NEMU) or not (npc, ysyxsoc); `Cte` has the
frame word by word, so that a frame overlapping a live word, or a register saved
after it was used, shows.  `MCNemu` runs one of the four at a time.

### The operators of MCSoftware and MCKconfig

A job is an input; the single step `RunJob` runs it, and the properties are action
properties that compare, for that step, what the code computes with what it should
mean.  The meaning is never the same algorithm: macros are compared with the
instruction they replace, division with the Euclidean definition, formatted output
with the digits of the number, the evaluators with a grammar, the RTL's decoder with
NEMU's, the cache simulators with a queue of the lines in order of use, an expression
after rewriting with its value under every assignment.

`SymCalc` is the constant of `Kconfig` through which `symbol.c` calls itself
(`sym_calc_value` calculates the symbols a symbol depends on); `MCKconfig_kconfig.cfg`
gives it the definition `sym_calc_value` itself, which closes the recursion.
Everything else is a function of a tree `u` and a database `db` of symbols.
`MConf` is a state machine over these functions.  `ConfSync` knows of them only the table
`conf_sync`: for a `.config` and an `auto.conf`, the `.config` conf writes, the files it
touches and the file it renames to `autoconf.h` and `auto.conf`.  `SyncAssumption` says of
the table that a symbol whose value changes has its file touched and that a written
`.config` means the same when it is read again.  `MCKconfig` computes the table with
`syncconfig` of `Conf`, so that TLC evaluates the assumption on what the modelled program
does before the run begins.

### Libgcc

A call is a routine with two words; `at` is the label the next basic block starts at, and
`ret` stands for the return address `__udivsi3` was entered with: nothing, the negation of
the quotient, the remainder or its negation.  Every block is one step, with the registers
`a0` to `a3` wrapping at `WORD`.  The blocks are those of the assembly: the zero divisor
is tested in the entry block, `.L1` doubles the divisor until it passes the dividend or its top bit is set, `.L3`
subtracts and shifts back.  `IntLib` has the routines on double words, which are compiled
from C, and NEMU's instructions of the M extension.

## 3. Runs

Every passing run finishes; a run with "violated" shows a disagreement of section 5.

| run | module, bounds | checks | shows |
|---|---|---|---|
| `core_program` | `MCCore`; 4-bit words, 3 registers, queue of 2, 8 slots; 343 loops of three instructions out of 7 and 100 self-modifying loops | `TypeOK`, `Sequential`, `FetchPath`, `RequestStable` | forwarding, load-use stalls, prediction, both flushes and `fence.i` are invisible at every latency |
| `core_trap` | `MCCore`; a trap handler, a faulting slot, two free instructions out of 12 | `Sequential`, `LsuOwnsRequest`, `FlushFindsLsuIdle`, `HaltSeesRegisters` | exceptions are precise; the result of the program is read when it is final |
| `core_live` | `MCCore`; four loops with loads, stores, calls, branches | `AlwaysCommits` | no stall blocks the pipeline |
| `core_csr` | as `core_trap` | `CsrLockstep` (violated) | section 5 |
| `icache_port` | `MCICache`; two sets, two tags, blocks of two words; set 0 has two blocks that evict each other, one stored to, set 1 a block that cannot be read | `WellFormed`, `LineFresh`, `ImplementsPort`, `BackToIdle` | the cache implements the port `Core` assumes |
| `icache_flush` | `MCICache`; one set, flushes at any time | `AnswerMatchesMem` (violated) | section 5 |
| `bus` | `MCInterconnect`; words of two bytes, blocks of two words, one address each for memory, CLINT and nobody, two blocks for fills | `TypeOK`, `ChannelsAgree`, `AnswersRight`, `Served` | answers go where they belong, nobody starves |
| `sdb_points` | `Sdb`; three watchpoints, one breakpoint, two values | `PoolsRight`, `NoCycleAfterEbreak`, `ExitStatusIsTheVerdict`, `WatchesStop`, `ImplementsPointSet`, `CtrlCStops` | the loop, the pools and the exit status under any order of events |
| `difftest` | `MCDifftest`; 4-bit words, 3 registers, a device, a faulting device; 729 programs of three instructions out of 9 | `NoFalseAlarm`, `ErrorsAreFound`, `RegistersAgree` | what the comparison promises, and no more |
| `nemu` | `MCNemu`; three builds, two pcs, two values, a key queue of 3; a ring of 3 bytes, 5 bytes played; words of 3 values and times to 8; two threads | `ComparisonRight`, `EventsRight`, `GuestsUndisturbed`, `Progress` | NEMU's loop under events at any point; the audio ring, the clocks and context switches |
| `software` | `MCSoftware`; 6-bit registers, 4-bit halves, 8-bit addresses and values, buffers of 4, a table of 3 functions; `Libgcc` on every pair of 6-bit words; `Datapath` on every opcode and funct3, five values of funct7, three sets of operands | `ExpansionsRight`, `LibraryRight`, `EvaluatorsRight`, `DatapathAgrees`, `ToolsRight`, `RoutinesRight` | each algorithm computes its meaning |
| `kconfig` | `MCKconfig`; 1717 expressions and 3025 pairs, 196 Kconfig texts, 880 macro phrases, 781 source texts, 121 strings; sessions of up to three edits; synchronisations without bound | `ExpressionsRight`, `MenusRight`, `SessionsRight`, `ObjectsCurrent` | the configuration system; builds never mix two configurations |

Some properties are conjunctions of named parts; the parts are defined, with their
comments, beside the state they speak of:

- `Sequential`: what retires agrees with the reference in pc, registers and CSRs
  (`Lockstep`), and while no store is in LSU or WBU, memory is that of the reference
  (`PreciseMemory`).
- `AnswersRight`: loads, stores, CLINT reads and the beats of a fill; `Served`: fills
  and accesses are answered; `ChannelsAgree`: both directions.
- `ComparisonRight`, `EventsRight`, `GuestsUndisturbed`, `Progress`: no false alarm and
  wrong instructions stopped; keys in order and a closed window ends the loop;
  samples, times, threads; a closed window is noticed and the driver gets out of its
  loop.
- the properties of `software` and `kconfig` have a part for each kind of job.

Why the bounds are enough.

- *Core.*  A hazard involves an instruction and the three in front of it; three
  free instructions in a loop give every distance and every pair that shares a
  register, in both directions round the loop.  Four bits give wrap-around and
  signs; x1 is a link register, so calls and returns are predicted as such.  A queue
  of two is full, and empty, with one request outstanding.  There is no bound on
  time: every program runs as long as it likes.
- *ICache.*  Two tags in a set give eviction and aliasing, two words give a first
  and a last beat with a kill, flush or error between them.  The constraint
  `QuietSetOne` only fixes the initial contents of set 1, which no step changes.
- *Interconnect.*  All pairs of concurrent targets occur; a burst of two beats lets
  the other master compete in the middle.
- *Sdb.*  Three nodes let the first, the middle and the last of a list be deleted.
  `MaxSi = 1` bounds the argument of `si`; longer counts repeat the same loop.
- *Difftest.*  The three free instructions follow each other in a loop, so a
  mistake, a skipped access and a gap occur in each order.
- *Nemu.*  A queue of three keys wraps and fills; two pcs and two values tell a right
  from a wrong instruction and a watched value that changes from one that does not.
  A ring of three bytes with buffers of one and two wraps inside a buffer and can be
  filled to the last byte; times to 8 with words of 3 wrap twice; `StackWords = 14`
  holds a frame below the deepest stack (`MaxDepth = 3`), one word away from the next
  thread's.
- *Libgcc.*  Six bits (`WORD = 64`, `Bits` the six powers of 2) are enough for every exit
  of both loops, the most negative dividend and every pair of signs.
- *Software.*  Operands are all values of narrow registers, or the corners of wide
  ones: `MiniRV` and `Datapath` have 32-bit words as four bytes, with the corner values
  of each byte.  Texts are all those of up to three characters out of 12 and of four
  out of 8; traces are all of up to four accesses, and those of five that start with a
  read at 0.
- *Datapath.*  `MCInstWords` has every opcode with every funct3, the values of funct7 that
  select something and one that does not, register fields that give immediates of both
  signs and both values of the bits that the formats move about, and words whose low bits
  are not 11.  The operands of `MCSources` are once equal, once less as signed and as unsigned
  numbers, and once of different signs, so that every branch is taken and not taken.
- *Kconfig.*  Expressions have every connective over every kind of leaf and nest twice.
  The session's tree has a menu, a choice, a select, an imply, a range and a default
  that depends on another symbol; two symbols suffice for `ConfSync`, one of which
  hides the other, with four `.config` files, one of which leaves a symbol out, and an
  `auto.conf` of an earlier tree with a symbol that is gone.

Deadlock is checked except in the runs `sdb_points`, `difftest`, `nemu`, `software` and
`kconfig`: a debugger exits, a session ends and a job runs once.

Fairness.

- `Core!LiveSpec`: an edge at which the cache answers, and one at which the bus
  answers, come again and again.  `DPICMem` and the error slave answer in a
  bounded number of cycles, `icache_port` (`BackToIdle`) and `bus` (`Served`) show that
  cache and bus pass the answers on.
- `ICache!LiveSpec`: memory goes on answering and the response queue goes on having
  room; it empties because the pipeline does not wedge (`core_live`).
- `Interconnect!LiveSpec`: the clock ticks, nothing else.  That the LSU does not
  starve the fills is a consequence of its state machine, not an assumption.
- `Sdb!LiveSpec`: `execute` waits for nobody.  Nothing is assumed of the user or of
  the program: `CtrlCStops` holds although the program may never end.
- `MCNemu!MCSpec`: the loop goes on; `PollEvents` is taken if it is possible again and
  again (strong, because `device_update` returns early until the host's clock has moved
  on, and it does move on); the guest's driver and SDL's audio thread each
  go on.

## 4. Proofs

All theorems hold for every value of the constants that satisfies the named
assumptions of the modules: all programs, word widths, geometries, pool and queue
sizes, memory maps, numbers of threads.  The assumptions say that sizes are positive
numbers, that maps are maps, that bits are the powers of 2 below the word
(`BitsAssumption`), and what the code guarantees of its environment: a block
that starts in memory lies in memory (`BlocksAssumption`), nobody fetches from the
CLINT (`FillsAssumption`), a stack holds a frame (`CteAssumption`), conf touches what it
changes (`SyncAssumption`).

| module | theorem | states |
|---|---|---|
| `PipelineProofs` | `PipelineIsSequential` | `Spec => []Sequential` |
| | `CoreTypeCorrect` | `Spec => []TypeOK` |
| | `LsuNeverOrphaned`, `FlushIsPrecise`, `HaltReadsFinalRegisters`, `OneFetchPath` | `[]` of `LsuOwnsRequest`, `FlushFindsLsuIdle`, `HaltSeesRegisters`, `FetchPath` |
| | `RequestsAreStable` | the action property `RequestStable` |
| `ICacheProofs` | `BurstsStayAligned` | `[]WellFormed` |
| | `LinesStayFresh`, `CacheImplementsPort` | `[]LineFresh` and the refinement, under the two conditions of section 2 |
| `InterconnectProofs` | `TypeCorrect`, `ChannelsStayApart`, `AnswersCorrect` | `[]` of `TypeOK`, `ChannelsAgree`, `AnswersRight` |
| `DifftestProofs` | `NoFalseAlarms`, `RegistersAlwaysAgree`, `ErrorsAreReported` | `[]` of `NoFalseAlarm`, `RegistersAgree`, `ErrorsAreFound` |
| `SdbProofs` | `NeverClockedAfterEbreak`, `ExitStatusSound`, `PoolsStayRight` | `[]` of `NoCycleAfterEbreak`, `ExitStatusIsTheVerdict`, `PoolsRight` |
| | `PoolsImplementPointSet`, `WatchesAlwaysStop` | the refinement, and the action property `WatchesStop` |
| `NemuProofs` | `ComparisonIsRight`, `EventsAreRight` | `[]` of `ComparisonRight`, `EventsRight` |
| | `GuestsStayUndisturbed` | `MCSpec => []GuestsUndisturbed` |
| `SoftwareProofs` | `RoutinesCorrect` | `LSpec => RoutinesRight`: results and termination, for every word width and every pair of operands |
| | `ObjectsStayCurrent` | `SSpec => []ObjectsCurrent`, for any symbols, files and conf |
| | `InstructionsAgree` | `DSpec => DatapathAgrees`: the core and NEMU agree on every 32-bit instruction word and all operands |

**PipelineProofs, control.**  `LsuInv == LsuOwnsRequest /\ FlushFindsLsuIdle` is inductive, while
neither half is alone: a transaction stays with its instruction because no flush can
come while it runs, and no flush can come because WBU is empty until the LSU is
through.  `HaltReadsFinalRegisters`: ebreak leaves IDU only when no hazard is
outstanding, and lemma `StagesPassOn` says that what leaves a stage writes a register
only if what was in it does.  `OneFetchPath` rests on `PathInv`, which adds that the
queue is a sequence of valid entries; lemmas `ChainTail` and `ChainAppend` carry a path
over the queue's operations, `IfuKeepsPath`, `StagesKeepPath` and `RedirectEmpties`
over the two kinds of edge.

**PipelineProofs, data.**  `Sequential` speaks of WBU only; the invariant has to say what every
stage holds.  `AfterWbu`, `AfterLsu` and `AfterExu` are the states of the sequential
machine once it has executed what is in WBU, in LSU too, in EXU too.  An instruction is
*on the path* when no older one is going to redirect; then, and while the program is
inside the contract (`Clean`), its stage holds what the sequential machine computes from
the state before it (`WbuInv`, `LsuRegInv`, `ExuInv`), and the next pc to enter EXU is the
machine's (`FrontInv`).  An instruction off the path is not constrained at all, except by
what it was fetched as (`FetchedInv`, `ExcpInv`), because it will be flushed.  Memory is
that of `MemState`, which counts the LSU's instruction once its access has been made
(`MemInv`); code that was not stored to since the last `fence.i` is fetched as it is in
memory (`CodeInv`); and only a slot that holds or held a branch is predicted taken
(`BtbInv`), which is what EXU's check of predictions relies on.  An edge either flushes
from WBU, or every stage stays or hands on; the lemmas on forwarding say that the value
IDU reads is the register of `AfterExu`, because the youngest older writer, wherever it
is, forwards or stalls.  `IsaProofs` has what the instruction set contributes: the
decode table's computation is NEMU's for every operation, the bitwise operations by a
least counterexample over the bits.

**ICacheProofs.**  `BurstsStayAligned` needs no condition.  Under the two conditions of
section 2, the invariant adds to `LineFresh` what is true in the middle of a fill: the
beats written so far are fresh (`FillFresh`), the word an answer will carry is fresh
(`RespFresh`), `err` is set exactly if the block of the fill is a faulty one (`ErrKnown`),
and no valid line is of a faulty block (`LineReadable`).  `LinesStayFresh` follows, and
`CacheImplementsPort`: each edge is a step of the port or stutters.

**InterconnectProofs.**  `IInv` has a part for each kind of transaction: who owns the
arbiter, which slave the crossbar has selected and what the slave has latched, in each
phase of a read, a fill, a load and a write.  `TypeOK` is in it because a beat counter
stays in range only while the burst it counts is the one that was asked for.

**SdbProofs.**  For the exit status the invariant says which values of `sdb_state` each
place of the program allows, and what `End`, `Abort` and a mismatch mean for the core; it
does not depend on the pools.  A pool is *threaded* when its nodes can be put in an order
of which the first m are the list in use and the others the free list (`Threaded`);
creating and deleting a point rotates the order, so the order is the witness that both
lists end and share no node.  That `Walk` finds this order is shown by uniqueness: two
walks from the same head agree at a least place where they could differ.  The refinement
of `PointSet` maps a threaded pool to the set of its first m nodes.

**DifftestProofs.**  `NoFalseAlarms`: without a mistake or a gap, both machines agree
on registers, CSRs and the slots where there is memory, and `expected_pc` is the
core's pc.  Lemma `ExecAgrees` says that one instruction keeps two such machines in
agreement unless it accesses a device, `MemoryAccess` that the register
`is_accessing_device` reads is the one the instruction used, unless it is a load into
its own base.  `RegistersAlwaysAgree` has its own invariant and holds whatever the
core does.  `ErrorsAreReported` adds that a wrong pc stays different from the expected
one until the next instruction retires (`FoundInv`).

**NemuProofs.**  The invariant of the loop has the places and states that go together
(`Control`), what batch mode excludes (`Batch`), the agreement with the reference while
nothing was wrong and the debugger has read no device (`Compare`), and the keys
(`KeysInOrder`).  The ring is handled by what it holds as a sequence: `Enqueued` appends,
`Dequeued` takes the head; the loop over the events of one poll is a recursive function,
shown right by a least counterexample.  The guests have an invariant each.  `AudioInv`: as
long as the ring was never filled to the last byte, the bytes between the pointers, and
those the driver has written beyond, are the next ones to be played, and the callback's
copies of the pointers enclose a part of them.  `UptimeInv`: what the first load left.
`CteInv`: every suspended thread would see, through its context, what it last saw
(`Suspended`); a trap touches only the stack of the thread that traps, and stacks are
disjoint.

**SoftwareProofs, division.**  `LibInv` has a part for each label.  At `.L1` the divisor has
been multiplied by the bit in `a3` and is still below the dividend; at `.L3` the quotient
found so far times the divisor, plus what is left of the dividend, is the dividend
(`L3Holds`), the quotient has no bit below the next one to be tried, and what is left is
small enough that only those bits are missing.  That `a3` is a *bit* is what makes `or`
an addition, and what `BitsAssumption` is for.  At `.L5` the pair is the Euclidean one; the
signed routines follow by cases on the signs (`SignedDivResult`, `SignedModResult`), the
most negative dividend being its own negation.  For the product, `a0 + a1 a2` is the product modulo
`WORD` (`MulHolds`), by distributivity and no more.  Every routine ends because every
step lowers the pair of `CodeLeft` and `LoopLeft` (`LibNearer`), which the theorem states as a
step property: no fairness is needed to say that a loop runs only so often.

**SoftwareProofs, synchronisation.**  `ObjectsCurrent` is not inductive: between the two
renames the header is new and `auto.conf` old, and after a stop there a synchronisation
compares with the old file.  `SyncInv` adds that a symbol whose value in `.tmpconfig`
differs from that in `auto.conf` has its file touched or about to be (`ChangesCovered`), that
`.tmpconfig` and, after such a stop, the header are what the present `.config` leads to whatever
`auto.conf` is there (`TmpSettles`, `TornSettles`), so that the repeated synchronisation changes nothing,
and that the header is the new file between the renames (`RenamedHeader`).  With the renames in the other
order (`AutoFirst`) TLC finds the stale object.

**SoftwareProofs, instructions.**  The invariant is the type of word and operands, and the work
is in the step: whatever the word, what the two sides do with it agrees.  `NemuUnique`: two
patterns with a common word have one opcode, and the tables `Funct3Of24` ... `Rs2Of28` give
the fields in which the patterns of an opcode differ.  `SamePatterns` carries that over to the
core's list under the names of `NemuName`, so that a word is one instruction of both sides, one
of NEMU's alone, or none (`Decoded`), and both reads of the word become reads of one row and one
pattern.  There follows one lemma per group of instructions, in which adding, shifting and
logic stay unexpanded: both sides apply the same operation to the same operands.  Where they
do not, there is a lemma on words: the immediates are the same although inst.c sign extends
only the upper part (`ImmediatesAgree`), adding 0 is nothing (`PlusZero`, for lui), and a
difference is 0 exactly for equal operands (`DifferenceZero`, for beq and bne, along the carries
of the bytes).  `ShiftedByte` turns the bitwise shift of store data by whole bytes into a move
of bytes, which makes strobes and `host_write` the same; `SdramAgrees` is about quotients and
remainders.  Of the arithmetic that both sides share, the theorem says only that
they share it.

Where an argument is an induction over numbers (bits of a word, events of a poll, places
of a walk) it is made by a least counterexample, from the theorems on well-founded
relations that have no operator parameter.

Only model-checked: liveness (`AlwaysCommits`, `BackToIdle`, `Served`, `CtrlCStops`,
`Progress`), which is out of the prover's reach; the properties of `software` and
`kconfig` other than `RoutinesRight`, `DatapathAgrees` and `ObjectsCurrent` (`ExpansionsRight`, `LibraryRight`,
`EvaluatorsRight`, `ToolsRight`, `ExpressionsRight`, `MenusRight`,
`SessionsRight`), which are about recursive operators (parsers, expression rewriting,
symbol calculation, bitwise operations on bytes) over inputs of bounded size, for which the
prover has no induction; that conf satisfies `SyncAssumption`, which TLC evaluates for
the tree of `kconfig`; and the two properties that fail.

## 5. Where the code and its texts disagree

Shown by a run:

- `core_csr`: a CSR instruction in EXU reads the CSR file while an older write is
  in LSU or WBU (`EXU.scala:84`); there is no forwarding and no stall for CSRs.
- `icache_flush`: a flush during a fill is undone by the end of the fill
  (`ICache.scala:136`).

Found while reading and proving, modelled as the code has it, without a run of their
own.

The core:

- The BTB survives `fence.i`, and EXU checks a prediction only for branches
  (`EXU.scala:172`), so a non-branch that replaced a taken branch is followed by the old
  target.  Waived as `stale_btb`; the proof of `PipelineIsSequential` needs the waiver.
- A fill that ends in an error leaves the line it overwrote valid, with the new tag and
  words (`ICache.scala:136`); hence `NoFaultAlias`.
- WBU's target looks at mret and `fence.i` before it looks at the exception
  (`WBU.scala:64-70`): a fetch exception on a word that decodes as one of them goes
  to `mepc` or `pc + 4`, not to `mtvec` as `nemu/src/isa/riscv32/system/intr.c:21-23`
  does.  Waived as `trap_priority`.
- What EXU shows the test bench (`EXU.scala:201`) may still be flushed by an older
  exception in WBU.
- A store that is answered with an error raises `StoreAMOPageFault`
  (`LSU.scala:226`), not the access fault.
- The crossbar compares with an exclusive upper bound (`AXI4CrossBar.scala:111`)
  while the map of `Core.scala:155` lists inclusive ends.
- Pushes and pops of the return-address stack do not wait for the fetch to be
  accepted (`BPU.scala:135-140`); only predictions suffer.
- The LSU raises no exception for misaligned data addresses.

The debuggers and the comparison:

- `bp_delete` takes the number of a breakpoint as an index (`breakpoint.cpp:130`), so
  deleting one by its number panics.
- A SIGINT at the prompt stops the next command (`main.cpp:414`); a SIGINT in the loop
  lets one more cycle run.
- `difftest.cpp:195-197` says that `dnpc` is always `difftest_pc + 4` after a device
  access, which a faulting access is not; `is_accessing_device` reads the base
  register after the instruction has retired (`difftest.cpp:170`).  Both are the gaps
  of `Gap`.  A pc error that is followed by a device access is not noticed, although
  the comment at lines 103-107 says that the next call checks it
  (`witness = "skipped"` in `ErrorsAreFound`).
- The evaluators apply only the innermost of two unary operators (`!!x`, `-~x`), accept
  `5 ! 3` and any single token, evaluate both sides of `&&` and `||`, and take `$x1foo`
  for a register.
- The function trace does not report a tail call by `jal x0` whose offset bits 19 to 15
  are `00001`.
- In tracesim, a program that ends exactly at the end of a batch records one more
  instruction.

NEMU and the runtime:

- Reading a device register from the debugger (`p`, `x`, a watchpoint) sets
  `is_skip_ref`: the next instruction is not compared, a store it makes never reaches the
  reference, and a later comparison may raise a false alarm; reading the keyboard this way
  also takes a key from the guest.  The properties of the comparison are stated for what
  happens without it (`peeked`).
- Closing the window lets one more instruction run, and is lost if it happens at the prompt.
  Scancodes of 256 and more alias others; a full key queue ends the emulator.
- `paddr_write` misses a semicolon under `CONFIG_MTRACE`.
- The audio driver waits for `freespace >= len`, so a buffer that fits exactly makes the full
  ring read as empty and its bytes are lost (`filled`).
- The npc and ysyxsoc ports read the 64-bit timer as two loads without a second look
  at the high half (`abstract-machine/am/src/riscv/npc/timer.c:11`); `UptimeRight` says how
  far the result may be ahead.
- An unknown ecall is delivered as `EVENT_ERROR` without advancing `mepc`.
- klib: `malloc` wraps for huge sizes, a format that ends in `%l` stores the terminator, `%s`
  ignores a width, `atoi` ignores a sign, `printf` returns the truncated count.  The minirv
  macro for `seqz s0` loses its result.

The configuration system:

- `expr_trans_compare` treats a negated tristate as a boolean, `expr_trans_bool` does not
  keep the value of `m`, and an ordering comparison of a tristate with `y`, `m` or `n` is by
  the alphabet.
- Whether a cycle through a named choice is found depends on the order of the hash table.
- `sym_calc_choice` drops the choice's `DEF_USER`, so that recalculating a tristate choice
  without a picked value changes its mode.
- `sym_set_string_value`: reading a file clears only the flag of a hidden text value and keeps
  the text; typing that same text once the symbol is shown returns early, without invalidating
  the caches, so that the default stays shown and is written (`symbol.c:643-690`).
- `conf_string` asks forever for an int without default that is answered with an empty line;
  `conf_write` has a moment without a `.config` between two renames.
- After a stop between the renames of `autoconf.h` and `auto.conf`, building and then
  reverting `.config` before the next synchronisation leaves stale objects; `EditConfig`
  excludes this order (`Torn`).
- An environment variable that is unset when it is referenced is not recorded in
  `auto.conf.cmd`; `EnvironmentRecorded` is about those that are set.
- `a := ... $(a) ...` reads a freed value (`preprocess.c:279-322`), and exactly
  `FUNCTION_MAX_ARGS` commas write one past the array (`preprocess.c:384-399`); both are
  marked undefined in `Macro`.

## 6. Plan

Done: the core with its reference, the cache, the bus, the debugger, both comparisons, the
runtime's devices and traps, the pure algorithms and the configuration system are modelled
and checked; every safety invariant and step property whose definitions are free of
recursive operators is proved, libgcc's routines and the synchronisation included.

Left:

1. `Bpu`: BTB sets and the exact stack, shown to produce only predictions `Core` allows.
2. The latency from a fault to its trap and other bounds on time, which `AlwaysCommits`
   leaves open.
3. mconf's other screens: search, loading another file, `show_all_options`.

## 7. Not modelled

Wiring and Verilog generation (`Top.scala`, `Elaborate.scala`); performance counters,
probes and random delays, on which no signal of the core depends; `mcycle` and the
identification CSRs; the NVBoard and fast hosts, which clock the core until ebreak;
memory images, logging and argument parsing; NEMU's devices without a queue or a clock
(serial, disk, vga, sdcard), its other instruction sets and the calendar registers; the start
code, the tables of handlers, MPE, VME and the other ports of the abstract machine;
`longlong.h`, the vendored GCC header; of the configuration system lxdialog, the lexer,
help texts, randconfig, listnewconfig and helpnewconfig, `KCONFIG_ALLCONFIG` and
`KCONFIG_NOSILENTUPDATE`, `allnoconfig_y` and `defconfig_list`; `gen-expr`, a generator of
random test inputs; ysyxSoC, a submodule whose contents are not part of the tree.
