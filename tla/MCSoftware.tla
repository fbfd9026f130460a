----------------------------- MODULE MCSoftware -----------------------------
(***************************************************************************)
(* The algorithms of the software side, the decoders and the tools around  *)
(* the simulators (function trace, trace-driven simulators), each checked  *)
(* against its reference on bounded inputs: a job is an algorithm with its *)
(* input, and the one step runs it; a call of a libgcc routine; or an      *)
(* instruction.                                                            *)
(***************************************************************************)
EXTENDS Integers, Sequences, FiniteSets, MiniRV, IntLib, Libgcc, Klib, Expr, Ftrace, TraceSim

VARIABLES job, out
vars == <<job, out, lvars, dvars>>

(***************************************************************************)
(* minirv: every macro on words at the sign and byte boundaries, and every *)
(* choice of registers, the ones the macros borrow included.               *)
(***************************************************************************)
W(a, b, c, d) == [k \in Bytes |-> CASE k = 0 -> a [] k = 1 -> b [] k = 2 -> c [] k = 3 -> d]
Corners == {W(0, 0, 0, 0), W(1, 0, 0, 0), W(255, 255, 255, 255), W(0, 0, 0, 128), W(255, 255, 255, 127),
            W(0, 1, 0, 0), W(90, 200, 7, 129), W(33, 0, 128, 64)}
Inst(op, rd, rs1, rs2, n) == [op |-> op, rd |-> rd, rs1 |-> rs1, rs2 |-> rs2, imm |-> n]
State0(s, t, u, v) ==
    [r |-> [x \in {"x0", "ra", "sp", "gp", "tp", "s0", "s1", "a0", "a1"} |->
               CASE x = "x0" -> Zero [] x = "sp" -> WordOf(StackPointer)
                 [] x = "a0" -> s [] x = "a1" -> t [] x = "s0" -> u [] x = "s1" -> v
                 [] OTHER -> W(17, 34, 51, 68)],
     m |-> [a \in {}  |-> 0], pc |-> NextInst]
Binary == RType \cup BType
ImmOf(op) == IF op \in {"slli", "srli", "srai"} THEN 0 .. 31 ELSE {-2048, -1, 0, 1, 255, 2047}
Borrowed == {"a0", "s0", "s1"}
MiniRvInsts ==
    {[i |-> Inst(op, "a0", "a0", "a1", 0), st |-> State0(s, t, s, t)] : op \in Binary, s \in Corners, t \in Corners}
    \cup {[i |-> Inst(op, rd, rs1, rs2, 0), st |-> State0(W(1, 2, 3, 4), s, W(9, 0, 0, 130), s)] :
            op \in Binary, rd \in Borrowed, rs1 \in Borrowed \cup {"x0"}, rs2 \in Borrowed \cup {"x0"},
            s \in {W(1, 2, 3, 4), W(255, 255, 255, 255)}}
    \cup {[i |-> Inst(op, rd, rs1, "x0", 0), st |-> State0(s, s, s, s)] :
            op \in UnaryType \cup BzType, rd \in Borrowed, rs1 \in Borrowed, s \in Corners}
    \cup UNION {{[i |-> Inst(op, rd, "a0", "x0", n), st |-> State0(s, s, s, s)] :
            rd \in {"a0", "s0"}, n \in ImmOf(op), s \in Corners} : op \in IType}
    \cup {[i |-> Inst(op, rd, "a1", rs2, n), st |-> [State0(s, WordOf(DataAddr), s, s)
              EXCEPT !.m = [a \in DataAddr .. DataAddr + 3 |-> s[a - DataAddr]]]] :
            op \in LoadType \cup {"sh"}, rd \in {"a0", "a1", "s0"}, rs2 \in {"a0", "s0"}, n \in 0 .. 2, s \in Corners}
    \cup {[i |-> Inst(op, rd, "x0", "x0", 0), st |-> State0(Zero, Zero, Zero, Zero)] :
            op \in JType, rd \in {"x0", "ra"}}

(***************************************************************************)
(* klib: every memory of five bytes, every format of up to four characters *)
(* and every list of three requests to the allocator.                      *)
(***************************************************************************)
Memories == {m \in [0 .. 4 -> 0 .. 2] : m[4] = 0 \/ m[3] = 0}
FmtChars == {"%", "0", "3", "d", "s", "l", "x", "A"}
Formats == UNION {[1 .. n -> FmtChars] : n \in 0 .. 4}
Args == [i \in 1 .. 4 |-> [d |-> IF i = 1 THEN -5 ELSE 40, s |-> <<"h", "i">>]]
Numbers == -2^(ABITS - 1) .. 2^(ABITS - 1) - 1
Heaps == {[start |-> a, end |-> b] : a \in {16, 21}, b \in {40, 56}}
Requests == [1 .. 3 -> {0, 1, 7, 8, 9, 24, 2^ABITS - 64}]


(***************************************************************************)
(* The expression evaluator: every text of up to five tokens out of eight, *)
(* every pair of operators between three operands, every pair of a unary   *)
(* and a binary operator, two parenthesised operands, every text of up to  *)
(* three characters and every one of four characters out of eight.         *)
(***************************************************************************)
MCMemAt(a) == (a * 5 + 3) % 2^EBITS
MCGprNames == <<"zero", "ra", "sp", "gp">>
MCSimMem == {4, 5, 8, 12}
Tok(t, v) == [t |-> t, v |-> v]
Name(k, n, v) == [k |-> k, n |-> n, v |-> v]
TextTokens == {Tok("NUM", 4), Tok("REG", Name("name", "mepc", 8)), Tok("SUB", 0), Tok("MUL", 0),
               Tok("LNOT", 0), Tok("LPAR", 0), Tok("RPAR", 0), Tok("LT", 0)}
Texts == UNION {[1 .. n -> TextTokens] : n \in 1 .. 5}
Operands == {<<13, 3, 2>>, <<200, 1, 0>>}
Pairs == {<<Tok("NUM", o[1]), Tok(s, 0), Tok("NUM", o[2]), Tok(t, 0), Tok("NUM", o[3])>> :
             o \in Operands, s \in Binary2, t \in Binary2}
         \cup {<<Tok(u, 0), Tok("NUM", 300), Tok(t, 0), Tok(w, 0), Tok("REG", r)>> :
                 u \in {"SUB", "NOT", "LNOT", "MUL"}, w \in {"SUB", "NOT", "LNOT", "MUL"}, t \in Binary2 \ {"SHL", "LSHR", "ASHR"},
                 r \in {Name("x", 3, 0), Name("x", 4, 0), Name("pc", "pc", 12), Name("name", "sp", 0), Name("name", "mtvec", 5),
                        Name("name", "none", 0)}}
Grouped == {<<Tok("LPAR", 0), Tok("NUM", 9), Tok(s, 0), Tok("NUM", 4), Tok("RPAR", 0), Tok(t, 0),
              Tok("LPAR", 0), Tok("NUM", 3), Tok(s, 0), Tok("NUM", 2), Tok("RPAR", 0)>> :
                s \in {"SUB", "MUL"}, t \in {"SUB", "DIV", "LT"}}
LexChars == {"<", ">", "=", "!", "&", "0", "x", "u", "$", " ", "(", "#"}
Lexemes == UNION {[1 .. n -> LexChars] : n \in 1 .. 3} \cup [1 .. 4 -> LexChars \ {"&", "u", "(", " "}]

(***************************************************************************)
(* Instruction words: every opcode and funct3, the funct7 values a table   *)
(* names and one it does not, register fields with single bits set.        *)
(***************************************************************************)
Encoded(f7, rs2, rs1, f3, rd, op, lo) == [f7 |-> f7, rs2 |-> rs2, rs1 |-> rs1, f3 |-> f3, rd |-> rd, op |-> op, lo |-> lo]
MCInstWords == {Encoded(f7, rs2, rs1, f3, rd, op, 3) : f7 \in {0, 1, 32, 24, 127}, rs2 \in {0, 1, 2, 31}, rs1 \in {0, 1},
                                                f3 \in 0 .. 7, rd \in {0, 17}, op \in 0 .. 31}
               \cup {Encoded(0, 0, 0, f3, 0, op, lo) : f3 \in 0 .. 7, op \in 0 .. 31, lo \in 0 .. 2}
MCSources == {[pc |-> W(0, 0, 0, 128), rs1 |-> W(255, 239, 85, 253), rs2 |-> W(3, 0, 0, 128), csr |-> W(9, 9, 9, 9),
               mem |-> W(1, 200, 3, 250)],
              [pc |-> W(252, 255, 255, 127), rs1 |-> W(4, 16, 0, 130), rs2 |-> W(4, 16, 0, 130), csr |-> W(255, 0, 0, 0),
               mem |-> W(128, 127, 255, 0)]}

(***************************************************************************)
(* ELF files of up to three symbols in two tables, and jumps between two   *)
(* functions.                                                              *)
(***************************************************************************)
Sym(t, u, v, s, n) == [type |-> t, undef |-> u, value |-> v, size |-> s, name |-> n]
Symbols == {Sym("FUNC", FALSE, 4, 4, "f"), Sym("FUNC", FALSE, 8, 8, "g"), Sym("FUNC", TRUE, 4, 12, "printf"),
            Sym("OBJECT", FALSE, 4, 8, "data"), Sym("FUNC", FALSE, 8, 0, "label")}
Sections == {[type |-> t, syms |-> s] : t \in {"SYMTAB", "DYNSYM", "PROGBITS"}, s \in UNION {[1 .. n -> Symbols] : n \in 0 .. 2}}
Files == [elf32lsb : BOOLEAN, sections : {<<>>} \cup {<<a>> : a \in Sections}
            \cup {<<a, b>> : a \in {x \in Sections : Len(x.syms) <= 1}, b \in {x \in Sections : Len(x.syms) <= 1}}]
JumpTable == <<[addr |-> 4, size |-> 4, name |-> "f"], [addr |-> 8, size |-> 8, name |-> "g"]>>
JumpWords == {Encoded(f7, rs2, rs1, f3, rd, op, 3) : f7 \in {0, 32}, rs2 \in {0, 1}, rs1 \in {0, 1, 2}, f3 \in 0 .. 1,
                                             rd \in {0, 1, 2}, op \in {24, 25, 27}}

(***************************************************************************)
(* Traces of up to five accesses to three blocks, and of up to three       *)
(* branches at three addresses.                                            *)
(***************************************************************************)
MemAccess == [addr : {0, 8, 20}, type : {"READ", "WRITE"}]
MemTraces == UNION {[1 .. n -> MemAccess] : n \in 0 .. 4}
             \cup {t \in [1 .. 5 -> MemAccess] : t[1].addr = 0 /\ t[1].type = "READ"}
Policies(size, ways) ==
    sweep({size}, [b \in {4} |-> 24], {ways}, {"LRU", "FIFO", "RANDOM"}, {"WRITE_BACK", "WRITE_THROUGH"},
          {"WRITE_ALLOCATE", "NO_WRITE_ALLOCATE"})
Configs == Policies(8, 2) \cup {p \in Policies(8, 1) : p.repl = "LRU"}
Branch == [pc : {4, 8, 20}, target : {0, 12}, is_uncond : BOOLEAN, taken : BOOLEAN]
BranchTraces == UNION {[1 .. n -> {b \in Branch : b.is_uncond => b.taken}] : n \in 0 .. 3}
Codes == [1 .. 7 -> {"ldstr", "branch", "other"}]

Jobs == [alg : {"minirv"}, in : MiniRvInsts]
        \cup [alg : {"nemu_reg"}, in : XWords]
        \cup [alg : {"dword", "bits"}, in : DWords]
        \cup [alg : {"mem"}, in : Memories]
        \cup [alg : {"format"}, in : Formats]
        \cup [alg : {"number"}, in : Numbers]
        \cup [alg : {"expr"}, in : Texts \cup Pairs \cup Grouped]
        \cup [alg : {"lex"}, in : Lexemes]
        \cup [alg : {"malloc"}, in : Heaps \X Requests]
        \cup [alg : {"elf"}, in : Files]
        \cup [alg : {"jump"}, in : JumpWords]
        \cup [alg : {"cache"}, in : MemTraces]
        \cup [alg : {"btb"}, in : BranchTraces]
        \cup [alg : {"drain"}, in : Codes]

\* A call of div.S or muldi3.S runs step by step; an instruction runs on the core and on NEMU.
Routine == [alg |-> "routine"]
Instruction == [alg |-> "instruction"]
NoRoutine == call = <<>> /\ a0 = 0 /\ a1 = 0 /\ a2 = 0 /\ a3 = 0 /\ ret = "" /\ at = "done"
NoInstruction == inst = None /\ src = None /\ core = None /\ nemu = None
Init ==
    /\ out = <<>>
    /\ \/ job \in Jobs /\ NoRoutine /\ NoInstruction
       \/ job = Routine /\ LInit /\ NoInstruction
       \/ job = Instruction /\ DInit /\ NoRoutine
RunJob ==
    /\ job \notin {Routine, Instruction} /\ out = <<>>
    /\ out' = CASE job.alg = "minirv" -> Run(job.in.st, Expand(job.in.i))
                [] job.alg = "nemu_reg" -> MRow(job.in)
                [] job.alg = "dword" -> DRow(job.in)
                [] job.alg = "bits" -> BitRow(job.in)
                [] job.alg = "expr" -> <<expr(job.in)>>
                [] job.alg = "lex" -> <<make_token(job.in)>>
                [] OTHER -> <<TRUE>>
    /\ UNCHANGED <<job, lvars, dvars>>
Next ==
    \/ RunJob
    \/ job = Routine /\ LNext /\ UNCHANGED <<job, out, dvars>>
    \/ job = Instruction /\ DNext /\ UNCHANGED <<job, out, lvars>>
Spec == Init /\ [][Next]_vars

\* The step runs the algorithm; the properties are about its input and what it returns, out'.
Ran(alg) == job.alg = alg /\ out' # <<>>

\* inst-replace.h: every expansion leaves in rd, and at the pc, what the
\* instruction it replaces would, whichever registers are named: the ones the
\* macros borrow (s0, s1), rd = rs1, x0.  Only seqz into s0 is left out: its
\* POP of s0 comes after the write of rd.
MiniRvValue ==
    Ran("minirv") /\ ~(job.in.i.op = "seqz" /\ job.in.i.rd = "s0") => SameResult(job.in.i, job.in.st, out')
\* inst-replace.h: an expansion gives back every register it borrows but the
\* reserved tp and gp, and writes nothing but its scratch words below sp, the
\* mark array and the store's own bytes.
MiniRvFrame == Ran("minirv") => FrameKept(job.in.i, job.in.st, out')
\* inst-replace.h: a program for the full base set runs on the eight
\* instructions of minirv unchanged: whichever registers an instruction names,
\* its expansion has its result and disturbs nothing else.
ExpansionsRight == [][MiniRvValue /\ MiniRvFrame]_vars

\* inst.c: the M instructions of NEMU give, on every pair of words, what RISC-V
\* says and Libgcc's routines give a program built without them, and the high
\* halves of the signed, mixed and unsigned products.
MulDivInstructions == Ran("nemu_reg") => out' = RefMRow(job.in)
\* int64.c and multi3.c: 64-bit division and multiplication built from halves
\* give C's results on every pair with a nonzero divisor, through every branch
\* of __udivmoddi4.
DwordArithmetic == Ran("dword") => out' = RefDRow(job.in)
\* ashldi3.c and the zero counts of int64.c: shifting across the halves loses
\* no bit, and the halving windows find the first and the last one bit.
DwordBits == Ran("bits") => out' = RefBitRow(job.in)
\* string.c: memmove copies the old bytes whatever the overlap, memcpy does when
\* there is none, and memcmp orders by the first difference.
MemoryRoutines == Ran("mem") => \A d, s \in 0 .. 4, n \in 0 .. 3 : CopiesRight(job.in, d, s, n)
\* string.c: copies end with the terminator or pad to n, strcat joins, and the
\* comparisons order as the byte sequences do and stop at the terminator or n.
StringRoutines ==
    Ran("mem") => \A d, s \in 0 .. 4, n \in 0 .. 3 :
                      Terminated(job.in, s) /\ Terminated(job.in, d) => StringsRight(job.in, d, s, n)
\* stdio.c: a short buffer changes nothing but where the text ends: the count
\* returned is that of the whole text, the terminator is in the buffer, and
\* printf puts out the first BUF_SZ - 1 characters.
Truncation == Ran("format") => \A n \in 0 .. 6 : TruncationRight(job.in, Args, n)
\* stdio.c and stdlib.c: what print_integer prints decodes to the argument in
\* every base, width, padding and sign, the most negative number included, fills
\* the width exactly, and atoi reads it back.
Numerals ==
    Ran("number") => \A zero \in BOOLEAN, width \in 0 .. 6, length \in 0 .. 2, conv \in {"d", "u", "x"} :
                         NumberRight(job.in, zero, width, length, conv)
\* stdlib.c: blocks handed out by malloc are aligned, inside the heap and
\* disjoint, for requests below the wrap-around of size_t.
Blocks == Ran("malloc") => BlocksRight(job.in[1], job.in[2])
\* inst.c, multi3.c, int64.c and klib: double-word arithmetic, the M instructions
\* and the C routines programs link against do what C says up to every boundary:
\* zero divisors, overlapping copies, full buffers, the most negative number.
LibraryRight ==
    [][/\ MulDivInstructions /\ DwordArithmetic /\ DwordBits
       /\ MemoryRoutines /\ StringRoutines /\ Truncation /\ Numerals /\ Blocks]_vars

\* expr.cpp: syntax_check, which guards the w command, accepts every expression
\* of the grammar and everything that later evaluates.
ExprSyntax == Ran("expr") => SyntaxRight(job.in)
\* expr.cpp, expr.c: picking the dominant operator gives the value of C's grammar
\* (precedence, left association, wrap-around) for every text of the grammar
\* where no unary operator hides what stands before it, accepts no other text,
\* and both debuggers agree on the value.
ExprValue == Ran("expr") => ValueRight(job.in)
\* expr.cpp: the first rule of the table that matches is also the longest match,
\* and the tokens are the text without its blanks, nothing lost or doubled.
ExprLexing == Ran("lex") => LexRight(job.in)
\* expr.cpp, expr.c: what a user types at p, x, w or b is read, checked and
\* evaluated as C would, by both debuggers alike.
EvaluatorsRight == [][ExprSyntax /\ ExprValue /\ ExprLexing]_vars

\* elf.cpp, elf.c: the table holds the functions the file defines, from every
\* symbol table; a pc is found exactly if one covers it, under its name.
FunctionTable == Ran("elf") => \A pc \in 0 .. 17 : TableRight(job.in, pc)
\* isa.cpp, inst.c: a jump is reported as the call, tail call or return it is, by
\* both simulators alike, and no other instruction is.
JumpsReported == Ran("jump") => \A pc \in {0, 4, 12}, dnpc \in {2, 4, 8, 12} : JumpRight(JumpTable, job.in, pc, dnpc)
\* cachesim.cpp: no store is lost or written twice under any policy and any
\* random victim: it is still dirty in the cache, written back or written through.
StoresAccounted == Ran("cache") => \A p \in Configs, idx \in 1 .. 2 : StoresKept(p, job.in, idx)
\* cachesim.cpp: timestamps give the misses, write-backs and write-throughs of
\* the queues that define LRU and FIFO, for every write and allocation policy.
ReplacementRight == Ran("cache") => \A p \in Configs : CacheRight(p, job.in)
\* branchsim.cpp: a misprediction is counted exactly when the last branch that
\* shares the entry makes the static rule predict wrongly.
MispredictionsCounted == Ran("btb") => \A n \in {1, 2} : BranchRight(n, job.in)
\* trace.cpp, ref.c: batches hand over every instruction once and in order, with
\* one surplus record when the program ends on a batch boundary.
TraceDrained == Ran("drain") => \A n \in 1 .. 6, size \in 2 .. 4 : DrainRight(job.in, n, size)
\* elf.cpp, isa.cpp, cachesim.cpp, branchsim.cpp, trace.cpp and NEMU's elf.c,
\* inst.c, ref.c: what the tools report is what the program did: its functions,
\* calls, tail calls and returns and no others, and the counters of the policies
\* the trace-driven simulators are named after, on the instructions it executed.
ToolsRight ==
    [][/\ FunctionTable /\ JumpsReported
       /\ StoresAccounted /\ ReplacementRight /\ MispredictionsCounted /\ TraceDrained]_vars
=============================================================================
