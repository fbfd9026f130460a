-------------------------------- MODULE Cte --------------------------------
(***************************************************************************)
(* Context switching of the RISC-V ports of the abstract machine (cte.c,   *)
(* trap.S): a yield saves the registers in a frame on the thread's stack,  *)
(* __am_irq_handle turns the trap into an event, the kernel's handler      *)
(* returns a context and the trap code restores it.  Registers: ra, sp, a0 *)
(* (the argument, and used by the trap code), t1 (used by the trap code)   *)
(* and a5 (GPR1).  Memory is words; every thread has a stack.              *)
(***************************************************************************)
LOCAL INSTANCE Integers

CONSTANTS NThreads,     \* threads the kernel creates
          StackWords,   \* words of a stack
          MaxDepth,     \* bound on the words a thread has on its stack
          MaxSteps,     \* bound on the instructions of a thread between traps
          MaxPc         \* bound on the instructions of a thread
Threads == 0 .. NThreads - 1

VARIABLES
    port,
    thread,                    \* who runs
    regs, pc, mstatus,         \* the hart: registers, sp and a counter of instructions
    stack,                     \* memory
    pcb,                       \* the kernel's table: context of each thread
    own,                       \* history: what each thread last saw of its state
    steps, event               \* bound; the event last delivered
cte_vars == <<port, thread, regs, pc, mstatus, stack, pcb, own, steps, event>>

\* Words of the frame, the order of struct Context: gpr[], mcause, mstatus, mepc, pdir.
RA == 1
SP == 2
A0 == 3
T1 == 4
A5 == 5
NR_REGS == 6
OFFSET_CAUSE == NR_REGS
OFFSET_STATUS == NR_REGS + 1
OFFSET_EPC == NR_REGS + 2
ContextWords == NR_REGS + 4
\* A stack has room for what a thread keeps there and for a frame.
ASSUME CteAssumption ==
    /\ NThreads \in Nat \ {0} /\ MaxDepth \in Nat \ {0}
    /\ StackWords \in Nat /\ StackWords >= ContextWords + MaxDepth
Saved == {RA, A0, T1, A5}
MinusOne == 99
ECALL_M == 11

\* The ports have the same cte.c; this is what their trap.S reserves.  NEMU's also sets mstatus.MPRV while it
\* handles, which the restored status overwrites.
nemu_trap == [of |-> "nemu", context_size |-> NR_REGS + 3]
npc_trap == [of |-> "npc", context_size |-> NR_REGS + 4]
ysyxsoc_trap == [of |-> "ysyxsoc", context_size |-> NR_REGS + 4]
Ports == {nemu_trap, npc_trap, ysyxsoc_trap}

kstack_end(t) == StackWords * (t + 1)
Memory == 0 .. kstack_end(NThreads - 1) - 1
\* The context of a new thread at the end of its stack; the other words of the
\* frame keep what the stack held.
kcontext(m, t, entry, arg) ==
    LET c == kstack_end(t) - ContextWords
    IN  [c |-> c, m |-> [m EXCEPT ![c + OFFSET_EPC] = entry, ![c + OFFSET_STATUS] = 6144, ![c + A0] = arg]]

\* Variant: the frame is filled after the csrr instructions have used t1.
PushAfterCsr(m, r, status, epc, p) ==
    LET sp == r[SP] - p.context_size
    IN  [a \in DOMAIN m |->
            CASE a - sp \in Saved \ {T1} -> r[a - sp]
              [] a - sp = T1 -> status
              [] a - sp = OFFSET_CAUSE -> ECALL_M
              [] a - sp = OFFSET_STATUS -> status
              [] a - sp = OFFSET_EPC -> epc
              [] OTHER -> m[a]]
\* __am_asm_trap: the registers, then the three CSRs.
PushContext(m, r, status, epc, p) ==
    LET sp == r[SP] - p.context_size
    IN  [a \in DOMAIN m |->
            CASE a - sp \in Saved -> r[a - sp]
              [] a - sp = OFFSET_CAUSE -> ECALL_M
              [] a - sp = OFFSET_STATUS -> status
              [] a - sp = OFFSET_EPC -> epc
              [] OTHER -> m[a]]
\* Everything but sp comes from the frame, sp from where the frame is.
PopContext(m, c, p) ==
    [regs |-> [k \in 1 .. NR_REGS - 1 |-> IF k = SP THEN c + p.context_size ELSE m[c + k]],
     mstatus |-> m[c + OFFSET_STATUS], pc |-> m[c + OFFSET_EPC]]
IsYield(m, c) == m[c + OFFSET_CAUSE] = ECALL_M /\ m[c + A5] = MinusOne
\* A yield is skipped over; any other call is an error and mepc stays.
__am_irq_handle(m, c) ==
    IF IsYield(m, c)
    THEN [event |-> "YIELD", m |-> [m EXCEPT ![c + OFFSET_EPC] = @ + 4]]
    ELSE [event |-> "ERROR", m |-> m]

\* The state a thread can see: registers, program counter, its stack above sp.
View(r, p, status, m, t) ==
    [regs |-> r, pc |-> p, status |-> status,
     stack |-> [a \in r[SP] .. kstack_end(t) - 1 |-> m[a]]]

\* The kernel has created every thread and enters the first through a trap.
Entry(t) == 1000 * (t + 1)
\* Contexts do not overlap: a word is what creating the thread left whose stack it is in.
Created ==
    LET blank == [a \in Memory |-> 0]
        made(t) == kcontext(blank, t, Entry(t), t).m
    IN  [a \in Memory |-> made(a \div StackWords)[a]]
CteInit(p, first) ==
    LET m == Created
        at(t) == kstack_end(t) - ContextWords
        s(t) == PopContext(m, at(t), p)
    IN  /\ port = p /\ thread = first
        /\ regs = s(first).regs /\ pc = s(first).pc /\ mstatus = s(first).mstatus
        /\ stack = m /\ pcb = [t \in Threads |-> at(t)]
        /\ own = [t \in Threads |-> View(s(t).regs, s(t).pc, s(t).mstatus, m, t)]
        /\ steps = 0 /\ event = "none"

\* The thread computes, pushes a word or pops one; what it writes names it.
Mark == 10 * (thread + 1)
Compute(r) ==
    /\ steps < MaxSteps
    /\ regs' = [regs EXCEPT ![r] = Mark] /\ pc' = pc + 4 /\ steps' = steps + 1
    /\ own' = [own EXCEPT ![thread] = View(regs', pc', mstatus, stack, thread)]
    /\ UNCHANGED <<port, thread, mstatus, stack, pcb, event>>
PushWord ==
    /\ steps < MaxSteps /\ regs[SP] > kstack_end(thread) - MaxDepth
    /\ regs' = [regs EXCEPT ![SP] = @ - 1] /\ pc' = pc + 4 /\ steps' = steps + 1
    /\ stack' = [stack EXCEPT ![regs[SP] - 1] = Mark]
    /\ own' = [own EXCEPT ![thread] = View(regs', pc', mstatus, stack', thread)]
    /\ UNCHANGED <<port, thread, mstatus, pcb, event>>
\* ecall with x in a5 (yield: -1): the hart traps to __am_asm_trap, the kernel
\* stores the context and picks a thread, the trap code restores it.
Trap(x, to) ==
    LET r == [regs EXCEPT ![A5] = x]
        c == regs[SP] - port.context_size
        h == __am_irq_handle(PushContext(stack, r, mstatus, pc, port), c)
        next == IF to = thread THEN c ELSE pcb[to]
        s == PopContext(h.m, next, port)
    IN  /\ event' = h.event /\ stack' = h.m
        /\ pcb' = [pcb EXCEPT ![thread] = c]
        /\ own' = [own EXCEPT ![thread] = View(r, IF x = MinusOne THEN pc + 4 ELSE pc, mstatus, h.m, thread)]
        /\ steps' = 0
        /\ thread' = to /\ regs' = s.regs /\ pc' = s.pc /\ mstatus' = s.mstatus
        /\ UNCHANGED port
CteNext ==
    /\ pc < Entry(thread) + 4 * MaxPc
    /\ \/ \E r \in {A0, T1} : Compute(r)
       \/ PushWord
       \/ \E x \in {MinusOne, 1}, to \in Threads : Trap(x, to)

\* cte.c, trap.S: whatever the order of yields, the running thread finds its
\* registers, its stack pointer, its status and its stack as it left them.
ThreadsUndisturbed == View(regs, pc, mstatus, stack, thread) = own[thread]
=============================================================================
