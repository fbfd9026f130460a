------------------------------ MODULE Ftrace ------------------------------
(***************************************************************************)
(* The function trace of the two simulators (npc/sim/sdb/elf.cpp, isa.cpp; *)
(* nemu/src/utils/elf.c, inst.c): the table of functions read from the ELF *)
(* file and the line a jump produces.  A file is the record of the header  *)
(* fields the reader looks at and its sections; a section of symbols has   *)
(* the symbols in order.                                                   *)
(***************************************************************************)
EXTENDS Datapath
LOCAL INSTANCE Integers
LOCAL INSTANCE Sequences
LOCAL INSTANCE FiniteSets
LOCAL INSTANCE FiniteSetsExt
LOCAL INSTANCE SequencesExt

CONSTANT FTRACE_TABLE_MAXSIZE     \* 8192 in the code
ASSUME FtraceAssumption == FTRACE_TABLE_MAXSIZE \in Nat

\* The program stopped at an Assert.
Aborted == [tab |-> <<>>, ok |-> FALSE]
ftrace_table_push(t, sym) ==
    IF Len(t.tab) >= FTRACE_TABLE_MAXSIZE THEN Aborted
    ELSE [t EXCEPT !.tab = Append(@, [addr |-> sym.value, size |-> sym.size, name |-> sym.name])]
PushSection(t, sec) ==
    FoldLeft(LAMBDA x, sym : IF x.ok /\ sym.type = "FUNC" /\ ~sym.undef THEN ftrace_table_push(x, sym) ELSE x, t, sec.syms)
init_ftrace(file) ==
    IF ~file.elf32lsb \/ file.sections = <<>> THEN Aborted
    ELSE FoldLeft(LAMBDA t, sec : IF sec.type \in {"SYMTAB", "DYNSYM"} THEN PushSection(t, sec) ELSE t,
                  [tab |-> <<>>, ok |-> TRUE], file.sections)
nemu_init_ftrace(file) == init_ftrace(file)

ftrace_search(tab, pc) ==
    LET hits == {k \in DOMAIN tab : pc >= tab[k].addr /\ pc < tab[k].addr + tab[k].size}
    IN  IF hits = {} THEN None ELSE tab[Min(hits)]
ftrace_get_address_of(tab, name) ==
    LET hits == {k \in DOMAIN tab : tab[k].name = name} IN IF hits = {} THEN 0 ELSE tab[Min(hits)].addr
ftrace_dump(tab, rd, rs1, im, pc, dnpc) ==
    LET is_call == rd = 1 \/ (rd = 0 /\ rs1 # 1)
        is_ret  == rd = 0 /\ rs1 = 1 /\ im = 0
        callee  == ftrace_search(tab, dnpc)
        self    == ftrace_search(tab, pc)
    IN  CASE is_call = is_ret -> None
          [] is_call /\ ~is_ret -> IF callee = None THEN None
                                   ELSE IF dnpc # callee.addr THEN None
                                   ELSE <<IF rd = 1 THEN "call" ELSE "tail", callee.name>>
          [] OTHER -> IF self = None THEN None ELSE <<"ret", self.name>>
isa_ftrace_dump(tab, i, pc, dnpc) ==
    CASE i.lo = 3 /\ i.op = 27 -> ftrace_dump(tab, i.rd, i.rs1, imm(i, "J"), pc, dnpc)
      [] i.lo = 3 /\ i.op = 25 /\ i.f3 = 0 -> ftrace_dump(tab, i.rd, i.rs1, imm(i, "I"), pc, dnpc)
      [] OTHER -> None
nemu_isa_ftrace_dump(tab, i, pc, dnpc) ==
    LET p == First(i, [jal |-> P(Op(27), "J"), jalr |-> P(OpF3(25, 0), "I")])
    IN  IF p = Invalid THEN None ELSE ftrace_dump(tab, i.rd, i.rs1, nemu_imm(i, p.type), pc, dnpc)

(***************************************************************************)
(* Reference: the functions a file defines, and the jumps of a program     *)
(* that calls, returns and tail-calls as the comments in ftrace_dump say.  *)
(***************************************************************************)
Functions(file) ==
    {sym \in UNION {ToSet(file.sections[k].syms) : k \in {j \in DOMAIN file.sections : file.sections[j].type # "PROGBITS"}} :
        sym.type = "FUNC" /\ ~sym.undef}
Covers(sym, pc) == pc \in sym.value .. sym.value + sym.size - 1
TableRight(file, pc) ==
    LET t == nemu_init_ftrace(file)  f == ftrace_search(t.tab, pc) IN
    t.ok => /\ (f = None) = (\A sym \in Functions(file) : ~Covers(sym, pc))
            /\ f # None => \E sym \in Functions(file) : Covers(sym, pc) /\ sym.name = f.name
            /\ \A sym \in Functions(file) : ftrace_get_address_of(t.tab, sym.name) \in {s.value : s \in Functions(file)}
Kind(i) ==
    CASE i.rd = 1 -> "call"
      [] i.rd = 0 /\ i.op = 25 /\ i.rs1 = 1 -> IF imm(i, "I") = 0 THEN "ret" ELSE "other"
      [] i.rd = 0 /\ (i.op = 27 \/ i.rs1 # 1) -> "tail"
      [] OTHER -> "other"
\* A jal has no rs1: bits 19..15 belong to its offset, so j is reported only
\* when they are not 00001.
JumpRight(tab, i, pc, dnpc) ==
    LET r == isa_ftrace_dump(tab, i, pc, dnpc)  to == ftrace_search(tab, dnpc) IN
    /\ r = nemu_isa_ftrace_dump(tab, i, pc, dnpc)
    /\ i.op \in {25, 27} /\ i.f3 = 0 /\ ~(i.op = 27 /\ i.rd = 0 /\ i.rs1 = 1) =>
          CASE Kind(i) \in {"call", "tail"} ->
                 (r # None) = (to # None /\ to.addr = dnpc)
            [] Kind(i) = "ret" -> (r # None) = (ftrace_search(tab, pc) # None)
            [] OTHER -> r = None
    /\ r # None /\ ~(i.op = 27 /\ i.rd = 0 /\ i.rs1 = 1) => r[1] = Kind(i)
===========================================================================
