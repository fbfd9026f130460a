-------------------------------- MODULE Core --------------------------------
(***************************************************************************)
(* The five-stage pipeline of Core.scala: IFU, IDU, EXU, LSU and WBU with  *)
(* the registers PipelineConnect puts between them, the register and CSR   *)
(* files, the branch target buffer, and, as differential testing does, the *)
(* sequential machine of Isa beside it, stepped once per commit.           *)
(*                                                                         *)
(* One step is one clock edge.  A register of the RTL is a variable, a     *)
(* wire is an operator of the current state, the contents of a pipeline    *)
(* register whose valid bit is off are never read and are left out.  The   *)
(* two memory ports are open: an edge says whether the instruction cache   *)
(* (fetched) and the bus (answered) responded during the cycle.            *)
(***************************************************************************)
EXTENDS Isa

CONSTANTS InitMems,      \* the memory images the core may start from
          QueueEntries,  \* entries of the IFU's response queue (4 in the code)
          ResetVector    \* CoreParams.ResetVector

ASSUME InitMemsAssumption == InitMems \subseteq [Slots -> Word]
ASSUME QueueEntriesAssumption == QueueEntries \in Nat \ {0}
ASSUME ResetVectorAssumption == ResetVector \in Word

VARIABLES
    pc, fetch, queue,      \* IFU: pc, the request the ICache works on, resp_queue
    btb, ras,              \* BPU: target buffer; return addresses pushed so far
    idu, exu, lsu, wbu,    \* the registers in front of the four later stages
    lsu_state, read_reg, access_fault,   \* LSU
    regs, csrs,            \* RegFile and CSRFile
    mem,                   \* the memory behind the bus
    code,                  \* what a fetch of a slot may return since the last fence.i
    ref                    \* the reference of differential testing

bpu_vars == <<btb, ras>>
lsu_vars == <<lsu_state, read_reg, access_fault>>
vars == <<pc, fetch, queue, btb, ras, idu, exu, lsu, wbu, lsu_state, read_reg,
          access_fault, regs, csrs, mem, code, ref>>

Bubble == [valid |-> FALSE]
NoEntry == [valid |-> FALSE]
NoPrediction == [taken |-> FALSE, target |-> 0]
Idle == [st |-> "idle"]
Killed == [st |-> "killed"]

LsuStates == {"s_idle", "s_r_addr", "s_r_wait_mem", "s_w_addr", "s_w_data",
              "s_w_wait_mem", "s_wait_ready"}

In(r) == InstOf[r.inst]
D(r) == InstDecodeTable[In(r).op]

(***************************************************************************)
(* WBU and its redirect.                                                   *)
(***************************************************************************)
wbu_flush == wbu.valid /\ (wbu.excp.valid \/ D(wbu).exec \in {"MRet", "FenceI"})

wbu_target == CASE D(wbu).exec = "MRet"   -> csrs["mepc"]
                [] D(wbu).exec = "FenceI" -> Plus(wbu.pc, Four)
                [] OTHER -> csrs["mtvec"]

\* Mutant: fence.i only refetches, it does not invalidate the cache.
FenceWithoutFlush == FALSE
icache_flush == wbu.valid /\ D(wbu).exec = "FenceI"

(***************************************************************************)
(* LSU.  WBU is always ready.                                              *)
(***************************************************************************)
\* Mutant: an instruction that carries an exception still accesses memory.
ReqOpDespiteExcp == D(lsu).lsu
req_op == IF lsu.excp.valid THEN "Nop" ELSE D(lsu).lsu

\* Mutant: the row of the store is missing, MuxLookup falls back to s_idle.
EntryStateWithoutStore == CASE req_op = "Nop" -> "s_wait_ready"
                            [] req_op = "LW"  -> "s_r_addr"
                            [] OTHER -> "s_idle"
entry_state == CASE req_op = "Nop" -> "s_wait_ready"
                 [] req_op = "LW"  -> "s_r_addr"
                 [] req_op = "SW"  -> "s_w_addr"

\* Mutant: take the next request once the read address has been accepted.
LsuReadyEarly == \/ lsu_state = "s_idle" /\ ~lsu.valid
                 \/ lsu_state \in {"s_r_wait_mem", "s_wait_ready"}
lsu_ready == (lsu_state = "s_idle" /\ ~lsu.valid) \/ lsu_state = "s_wait_ready"

\* Mutant: start the request although WBU flushes it at this edge.
LsuEnterDespiteFlush == lsu.valid
LsuEnter == lsu.valid /\ ~wbu_flush

\* Mutant: posted stores, passed on before their response.
LsuOutValidPosted == lsu_state \in {"s_w_wait_mem", "s_wait_ready"}
lsu_out_valid == lsu_state = "s_wait_ready"

lsu_excp == IF lsu.excp.valid THEN lsu.excp
            ELSE IF access_fault
                 THEN Excp(IF req_op = "SW" THEN "StoreAMOPageFault" ELSE "LoadAccessFault", lsu.addr)
                 ELSE NoExcp

ls_out == CASE req_op = "Nop" -> lsu.ex_out
            [] req_op = "LW"  -> read_reg
            [] OTHER -> 0

LsuOut == [valid |-> TRUE, pc |-> lsu.pc, inst |-> lsu.inst, ls_out |-> ls_out,
           csr_data |-> lsu.csr_data, excp |-> lsu_excp]

(***************************************************************************)
(* EXU.                                                                    *)
(***************************************************************************)
Oper(type) == CASE type = "Rs1"  -> exu.rs1_data
                [] type = "Rs2"  -> exu.rs2_data
                [] type = "Imm"  -> In(exu).imm
                [] type = "Zero" -> 0
                [] type = "Four" -> Four
                [] type = "PC"   -> exu.pc
                [] type = "CSR"  -> csrs[In(exu).csr]

alu_result == ALU(D(exu).alu, Oper(D(exu).op1), Oper(D(exu).op2))

csr_rd_data == LET old == csrs[In(exu).csr]
                   src == Oper(D(exu).op2)
               IN  CASE D(exu).csr = "Nop" -> 0
                     [] D(exu).csr = "RW"  -> src
                     [] D(exu).csr = "RS"  -> BitOr(old, src)
                     [] D(exu).csr = "RC"  -> BitClear(old, src)

ex_out == CASE D(exu).exec = "ALU" -> alu_result
            [] D(exu).exec = "CSR" -> csrs[In(exu).csr]
            [] OTHER -> 0

exu_excp == IF exu.excp.valid THEN exu.excp
            ELSE CASE D(exu).exec = "EBreak" -> Excp("Breakpoint", exu.pc)
                   [] D(exu).exec = "ECall"  -> Excp("EnvironmentCallFromMMode", exu.pc)
                   [] OTHER -> NoExcp

ExuOut == [valid |-> TRUE, pc |-> exu.pc, inst |-> exu.inst, ex_out |-> ex_out,
           addr |-> alu_result, data |-> exu.rs2_data, csr_data |-> csr_rd_data,
           excp |-> exu_excp]

exu_fire == exu.valid /\ lsu_ready

br_op == D(exu).br
br_target == IF br_op = "JALR" THEN Plus(exu.rs1_data, In(exu).imm)
             ELSE Plus(exu.pc, In(exu).imm)
br_taken == CASE br_op \in {"JAL", "JALR"}  -> TRUE
              [] br_op = "BEQ"              -> alu_result = 0
              [] br_op = "BNE"              -> alu_result # 0
              [] br_op \in {"BLT", "BLTU"}  -> alu_result % 2 = 1
              [] br_op \in {"BGE", "BGEU"}  -> alu_result % 2 = 0
              [] OTHER -> FALSE

valid_br == exu_fire /\ br_op # "Nop"

IsLink(r) == r \in {1, 5}
is_uncond == br_op \in {"JAL", "JALR"}
is_call == is_uncond /\ IsLink(In(exu).rd)
is_ret == br_op = "JALR" /\ IsLink(In(exu).rs1) /\ In(exu).rd = 0
br_type == IF is_call THEN "Call" ELSE IF is_ret THEN "Ret"
           ELSE IF is_uncond THEN "Jump" ELSE "Branch"

predict_mismatch == \/ exu.predict.taken # br_taken
                    \/ exu.predict.taken /\ exu.predict.target # br_target

exu_flush == valid_br /\ predict_mismatch
correct_target == IF br_taken THEN br_target ELSE Plus(exu.pc, Four)

(***************************************************************************)
(* IDU: forwarding and stalling.                                           *)
(***************************************************************************)
NoHazard == [valid |-> FALSE, rd |-> 0, data_valid |-> FALSE, data |-> 0]

exu_hazard == IF exu.valid /\ D(exu).we
              THEN [valid |-> TRUE, rd |-> In(exu).rd, data |-> ex_out,
                    data_valid |-> D(exu).exec \in {"ALU", "CSR"}]
              ELSE NoHazard
lsu_hazard == IF lsu.valid /\ D(lsu).we
              THEN [valid |-> TRUE, rd |-> In(lsu).rd, data |-> ls_out,
                    data_valid |-> req_op = "Nop" \/ lsu_state = "s_wait_ready"]
              ELSE NoHazard
wbu_hazard == IF wbu.valid /\ D(wbu).we /\ ~wbu.excp.valid
              THEN [valid |-> TRUE, rd |-> In(wbu).rd, data |-> wbu.ls_out, data_valid |-> TRUE]
              ELSE NoHazard
Hazards == {exu_hazard, lsu_hazard, wbu_hazard}

\* Mutant: the older result in LSU wins over the younger one in EXU.
ForwardOldest(rs) ==
    LET Match(h) == rs # 0 /\ h.valid /\ h.rd = rs /\ h.data_valid
    IN  IF Match(lsu_hazard) THEN lsu_hazard.data
        ELSE IF Match(exu_hazard) THEN exu_hazard.data
        ELSE IF Match(wbu_hazard) THEN wbu_hazard.data
        ELSE regs[rs]

forward_reg(rs) ==
    LET Match(h) == rs # 0 /\ h.valid /\ h.rd = rs /\ h.data_valid
    IN  IF Match(exu_hazard) THEN exu_hazard.data
        ELSE IF Match(lsu_hazard) THEN lsu_hazard.data
        ELSE IF Match(wbu_hazard) THEN wbu_hazard.data
        ELSE regs[rs]

rs1_read == D(idu).fmt \in {"R", "I", "S", "B"} \/ (D(idu).fmt = "C" /\ D(idu).op2 = "Rs1")
rs2_read == D(idu).fmt \in {"R", "S", "B"}

need_stall(rs, read) ==
    rs # 0 /\ read /\ \E h \in Hazards : h.valid /\ h.rd = rs /\ ~h.data_valid

\* Mutant: ebreak only waits for the instruction right before it.
WaitEbreakExu == D(idu).exec = "EBreak" /\ exu_hazard.valid
wait_ebreak == D(idu).exec = "EBreak" /\ \E h \in Hazards : h.valid

hazard_stall == idu.valid /\ (\/ need_stall(In(idu).rs1, rs1_read)
                              \/ need_stall(In(idu).rs2, rs2_read)
                              \/ wait_ebreak)

idu_excp == IF idu.excp.valid THEN idu.excp
            ELSE IF D(idu).fmt = "E" THEN Excp("IllegalInstruction", idu.inst) ELSE NoExcp

IduOut == [valid |-> TRUE, pc |-> idu.pc, inst |-> idu.inst,
           rs1_data |-> forward_reg(In(idu).rs1), rs2_data |-> forward_reg(In(idu).rs2),
           excp |-> idu_excp, predict |-> idu.predict]

idu_ready == lsu_ready /\ ~hazard_stall

(***************************************************************************)
(* IFU.  The BTB has a slot of its own for every address of the model, so  *)
(* it is exact; what the return address stack holds is over-approximated   *)
(* by every address ever pushed.                                           *)
(***************************************************************************)
redirect == wbu_flush \/ exu_flush
redirect_target == IF wbu_flush THEN wbu_target ELSE correct_target

Predictions ==
    LET e == btb[Slot(pc)] IN
    CASE ~e.valid -> {NoPrediction}
      [] e.valid /\ e.btype = "Ret" -> {[taken |-> TRUE, target |-> t] : t \in ras \cup {e.target}}
      [] e.valid /\ e.btype = "Branch" /\ ~(e.target < pc) -> {NoPrediction}
      [] OTHER -> {[taken |-> TRUE, target |-> e.target]}

FetchOut(addr, word, p) ==
    [valid |-> TRUE, pc |-> addr, inst |-> word, predict |-> p,
     excp |-> IF IsMisaligned(addr) THEN Excp("InstructionAddressMisaligned", addr)
              ELSE IF Slot(addr) \in FaultSlots THEN Excp("InstructionAccessFault", addr)
              ELSE NoExcp]

queue_deq == queue # << >> /\ idu_ready /\ ~redirect
queue_rest == IF queue_deq THEN Tail(queue) ELSE queue
\* Mutant: off by one.
QueueRoomOffByOne == Len(queue) <= QueueEntries
queue_room == Len(queue) < QueueEntries

\* The ICache answers the request for addr, or starts to work on it.
Respond(addr, p, fetched) ==
    IF fetched /\ queue_room
    THEN /\ \E word \in code[Slot(addr)] : queue' = Append(queue_rest, FetchOut(addr, word, p))
         /\ fetch' = Idle
    ELSE /\ queue' = queue_rest
         /\ fetch' = [st |-> "busy", addr |-> addr, predict |-> p]

IfuEdge(fetched) ==
    \/ /\ redirect
       /\ pc' = redirect_target
       /\ queue' = << >>
       /\ fetch' = IF fetch.st = "idle" \/ fetched THEN Idle ELSE Killed
    \/ /\ ~redirect
       /\ fetch.st = "idle"
       /\ \E p \in Predictions : /\ pc' = IF p.taken THEN p.target ELSE Plus(pc, Four)
                                 /\ Respond(pc, p, fetched)
    \/ /\ ~redirect
       /\ fetch.st = "busy"
       /\ Respond(fetch.addr, fetch.predict, fetched)
       /\ pc' = pc
    \/ /\ ~redirect
       /\ fetch.st = "killed"
       /\ fetch' = IF fetched THEN Idle ELSE fetch
       /\ queue' = queue_rest
       /\ pc' = pc

BpuEdge ==
    /\ btb' = IF valid_br
              THEN [btb EXCEPT ![Slot(exu.pc)] = [valid |-> TRUE, target |-> br_target, btype |-> br_type]]
              ELSE btb
    /\ ras' = LET e == btb[Slot(pc)] IN
              IF e.valid /\ e.btype = "Call" THEN ras \cup {Plus(pc, Four)} ELSE ras

(***************************************************************************)
(* The pipeline registers.                                                 *)
(***************************************************************************)
\* Mutant: inject_bubble is ignored.
ConnectWithoutBubble(prev_valid, prev_out, this_ready, this, invalidate, inject_bubble) ==
    IF invalidate THEN Bubble
    ELSE IF ~this_ready THEN this
    ELSE IF prev_valid THEN prev_out ELSE Bubble

PipelineConnect(prev_valid, prev_out, this_ready, this, invalidate, inject_bubble) ==
    IF invalidate THEN Bubble
    ELSE IF ~this_ready THEN this
    ELSE IF prev_valid /\ ~inject_bubble THEN prev_out ELSE Bubble

PipelineEdge ==
    /\ idu' = PipelineConnect(queue # << >> /\ ~redirect, Head(queue), idu_ready, idu,
                              wbu_flush \/ exu_flush, FALSE)
    /\ exu' = PipelineConnect(idu.valid /\ ~hazard_stall, IduOut, lsu_ready, exu,
                              wbu_flush, exu_flush)
    /\ lsu' = PipelineConnect(exu.valid, ExuOut, lsu_ready, lsu, wbu_flush, FALSE)
    /\ wbu' = PipelineConnect(lsu_out_valid, LsuOut, TRUE, wbu, wbu_flush, FALSE)

(***************************************************************************)
(* The LSU's state machine and the memory.  answered: the handshake the    *)
(* LSU waits for happens in this cycle.  Write data is never accepted      *)
(* before the address.                                                     *)
(***************************************************************************)
LsuFault == Slot(lsu.addr) \in FaultSlots

Store ==
    IF LsuFault THEN UNCHANGED <<mem, code>>
    ELSE /\ mem' = [mem EXCEPT ![Slot(lsu.addr)] = lsu.data]
         /\ code' = [code EXCEPT ![Slot(lsu.addr)] = @ \cup {lsu.data}]

\* A fence.i in WBU invalidates the ICache at this edge.
NoStore ==
    /\ mem' = mem
    /\ code' = IF icache_flush THEN [s \in Slots |-> {mem[s]}] ELSE code

LsuEdge(answered) ==
    \/ /\ lsu_state = "s_idle"
       /\ lsu_state' = IF LsuEnter THEN entry_state ELSE "s_idle"
       /\ access_fault' = FALSE
       /\ UNCHANGED read_reg
       /\ NoStore
    \/ /\ lsu_state = "s_r_addr"
       /\ lsu_state' = IF answered THEN "s_r_wait_mem" ELSE lsu_state
       /\ UNCHANGED <<read_reg, access_fault>>
       /\ NoStore
    \/ /\ lsu_state = "s_r_wait_mem"
       /\ lsu_state' = IF answered THEN "s_wait_ready" ELSE lsu_state
       /\ read_reg' = IF answered THEN mem[Slot(lsu.addr)] ELSE read_reg
       /\ access_fault' = (access_fault \/ (answered /\ LsuFault))
       /\ NoStore
    \/ /\ lsu_state = "s_w_addr"
       /\ \/ /\ ~answered
             /\ lsu_state' = lsu_state
             /\ NoStore
          \/ /\ answered
             /\ lsu_state' = "s_w_data"
             /\ NoStore
          \/ /\ answered
             /\ lsu_state' = "s_w_wait_mem"
             /\ Store
       /\ UNCHANGED <<read_reg, access_fault>>
    \/ /\ lsu_state = "s_w_data"
       /\ lsu_state' = IF answered THEN "s_w_wait_mem" ELSE lsu_state
       /\ IF answered THEN Store ELSE NoStore
       /\ UNCHANGED <<read_reg, access_fault>>
    \/ /\ lsu_state = "s_w_wait_mem"
       /\ lsu_state' = IF answered THEN "s_wait_ready" ELSE lsu_state
       /\ access_fault' = (access_fault \/ (answered /\ LsuFault))
       /\ UNCHANGED read_reg
       /\ NoStore
    \/ /\ lsu_state = "s_wait_ready"
       /\ lsu_state' = "s_idle"
       /\ UNCHANGED <<read_reg, access_fault>>
       /\ NoStore

(***************************************************************************)
(* RegFile and CSRFile, written from WBU.                                  *)
(***************************************************************************)

RegFileEdge ==
    regs' = IF wbu.valid /\ D(wbu).we /\ ~wbu.excp.valid /\ In(wbu).rd # 0
            THEN [regs EXCEPT ![In(wbu).rd] = wbu.ls_out] ELSE regs

CSRFileEdge ==
    csrs' = CASE wbu.valid /\ wbu.excp.valid ->
                   [csrs EXCEPT !["mepc"] = wbu.pc, !["mcause"] = wbu.excp.cause,
                                !["mtval"] = wbu.excp.tval]
              [] wbu.valid /\ ~wbu.excp.valid /\ D(wbu).exec = "CSR" ->
                   [csrs EXCEPT ![In(wbu).csr] = wbu.csr_data]
              [] OTHER -> csrs

(***************************************************************************)
(* Differential testing: ref_difftest_exec(1) for every instruction that   *)
(* leaves WBU.  ref also keeps what a program did that the pipeline does   *)
(* not promise, or does not manage, to execute as the sequential machine:  *)
(*   stale_code     executing a slot stored to since the last fence.i      *)
(*   csr_raw        a CSR instruction right after one on the same CSR      *)
(*   stale_btb      no branch where there was one before the code changed  *)
(*   trap_priority  a fetch exception on a word that is mret or fence.i    *)
(***************************************************************************)
RefWaivers(r) ==
    LET s == Slot(r.pc)
        in == InstOf[r.mem[s]]
        fetchExcp == IsMisaligned(r.pc) \/ s \in FaultSlots
    IN  {w \in {"stale_code", "csr_raw", "stale_btb", "trap_priority"} :
            \/ w = "stale_code" /\ s \in r.dirty
            \/ w = "csr_raw" /\ in.op \in DOMAIN OpCsr /\ r.last = in.csr /\ ~fetchExcp
            \/ w = "stale_btb" /\ s \in r.wasBranch /\ InstDecodeTable[in.op].br = "Nop"
            \/ w = "trap_priority" /\ fetchExcp /\ in.op \in {"MRET", "FENCE_I"}}

RefStep(r) ==
    LET in == InstOf[r.mem[Slot(r.pc)]]
        excp == SequentialExcp(r, r.mem[Slot(r.pc)]).valid
        next == ExecOnce(r)
        changed == {s \in Slots : next.mem[s] # r.mem[s]}
        branches == {s \in changed : InstDecodeTable[InstOf[r.mem[s]].op].br # "Nop"}
    IN  [next EXCEPT !.waived = r.waived \cup RefWaivers(r),
                     !.dirty = IF in.op = "FENCE_I" /\ ~excp THEN {} ELSE r.dirty \cup changed,
                     !.wasBranch = r.wasBranch \cup branches,
                     !.last = IF in.op \in DOMAIN OpCsr /\ ~excp THEN in.csr ELSE "none"]

DifftestStep == ref' = IF wbu.valid THEN RefStep(ref) ELSE ref

-----------------------------------------------------------------------------
Init ==
    /\ pc = ResetVector
    /\ fetch = Idle
    /\ queue = << >>
    /\ btb = [s \in Slots |-> NoEntry]
    /\ ras = {}
    /\ idu = Bubble /\ exu = Bubble /\ lsu = Bubble /\ wbu = Bubble
    /\ lsu_state = "s_idle" /\ read_reg = 0 /\ access_fault = FALSE
    /\ regs = [r \in Regs |-> 0]
    /\ csrs = [c \in CSRs |-> 0]
    /\ mem \in InitMems
    /\ code = [s \in Slots |-> {mem[s]}]
    /\ ref = [pc |-> ResetVector, regs |-> regs, csrs |-> csrs, mem |-> mem,
              dirty |-> {}, wasBranch |-> {}, last |-> "none", waived |-> {}]

Edge(fetched, answered) ==
    /\ IfuEdge(fetched)
    /\ BpuEdge
    /\ PipelineEdge
    /\ LsuEdge(answered)
    /\ RegFileEdge
    /\ CSRFileEdge
    /\ DifftestStep

Next == \E fetched, answered \in BOOLEAN : Edge(fetched, answered)

Spec == Init /\ [][Next]_vars

\* The instruction cache and the bus keep answering: DPICMem serves every
\* request in a bounded number of cycles.
Fairness == /\ WF_vars(\E answered \in BOOLEAN : Edge(TRUE, answered))
            /\ WF_vars(\E fetched \in BOOLEAN : Edge(fetched, TRUE))

LiveSpec == Spec /\ Fairness

-----------------------------------------------------------------------------
ExcpInfo == [valid : BOOLEAN, cause : 0 .. 15, tval : Word]
Prediction == [taken : BOOLEAN, target : Word]
IfuReg == [valid : {TRUE}, pc : Word, inst : Word, predict : Prediction, excp : ExcpInfo]
IduReg == [valid : {TRUE}, pc : Word, inst : Word, rs1_data : Word, rs2_data : Word,
           excp : ExcpInfo, predict : Prediction]
ExuReg == [valid : {TRUE}, pc : Word, inst : Word, ex_out : Word, addr : Word, data : Word,
           csr_data : Word, excp : ExcpInfo]
LsuReg == [valid : {TRUE}, pc : Word, inst : Word, ls_out : Word, csr_data : Word, excp : ExcpInfo]
BtbEntry == [valid : {TRUE}, target : Word, btype : {"Call", "Ret", "Jump", "Branch"}]

\* Every register of the core holds a value of its width, and the response
\* queue never holds more than its entries.
TypeOK ==
    /\ pc \in Word
    /\ fetch \in {Idle, Killed} \cup [st : {"busy"}, addr : Word, predict : Prediction]
    /\ queue \in Seq(IfuReg) /\ Len(queue) <= QueueEntries
    /\ btb \in [Slots -> BtbEntry \cup {NoEntry}] /\ ras \subseteq Word
    /\ idu \in IfuReg \cup {Bubble} /\ exu \in IduReg \cup {Bubble}
    /\ lsu \in ExuReg \cup {Bubble} /\ wbu \in LsuReg \cup {Bubble}
    /\ lsu_state \in LsuStates /\ read_reg \in Word /\ access_fault \in BOOLEAN
    /\ regs \in [Regs -> Word] /\ csrs \in [CSRs -> Word]
    /\ mem \in [Slots -> Word] /\ code \in [Slots -> SUBSET Word]

\* What check_regs of difftest.cpp compares after every commit: the pc of the
\* instruction in WBU, the general registers and the CSRs are those of the
\* reference.
Agree == /\ wbu.valid => wbu.pc = ref.pc
         /\ regs = ref.regs
         /\ csrs = ref.csrs

\* Forwarding, stalls, prediction and both flushes are invisible: whatever the
\* timing of fetches and of the bus, a program inside the contract commits
\* exactly the instructions of the sequential machine with the same results.
Lockstep == ref.waived = {} => Agree

\* No store of a flushed or wrong-path instruction reaches memory: but for a
\* store that the LSU has already issued and that has not left WBU yet, memory
\* is the sequential machine's.
StoreInFlight == \/ lsu.valid /\ req_op = "SW" /\ lsu_state \in {"s_w_wait_mem", "s_wait_ready"}
                 \/ wbu.valid /\ D(wbu).lsu = "SW"
PreciseMemory == ref.waived = {} /\ ~StoreInFlight => mem = ref.mem

\* The pipeline is the sequential machine, only later: what retires agrees with
\* the reference in pc, registers and CSRs, and but for a store the LSU has
\* issued and WBU has not retired, memory is the sequential machine's.
Sequential == Lockstep /\ PreciseMemory

\* The bus transaction of the LSU always belongs to the instruction in its
\* input register: no flush empties the register under a running transaction.
LsuOwnsRequest == lsu_state # "s_idle" => lsu.valid

\* When an instruction sits in WBU, and so may flush the pipeline, the LSU has
\* not started the next one.
FlushFindsLsuIdle == wbu.valid => lsu_state = "s_idle"

\* When ebreak is in EXU, where the handler of the test bench takes a0 as the
\* result of the program, no older instruction has a register left to write.
HaltSeesRegisters == exu.valid /\ D(exu).exec = "EBreak" =>
                       ~(lsu.valid /\ D(lsu).we) /\ ~(wbu.valid /\ D(wbu).we)

\* Address, data and operation of a bus request stay what they were until the
\* transaction is over (AXI requires a valid request to be stable).
RequestStable == [][lsu_state \notin {"s_idle", "s_wait_ready"} => lsu' = lsu]_vars

\* The instructions being fetched form one path: each is the successor that was
\* predicted for the one before it, and pc is the successor of the last.  A
\* flush leaves no instruction of the path it cut off.
NextFetch(addr, p) == IF p.taken THEN p.target ELSE Plus(addr, Four)
FetchPc == IF fetch.st = "busy" THEN fetch.addr ELSE pc
FirstOf(q, end) == IF q # << >> THEN Head(q).pc ELSE end
Chain(q, end) == \A i \in 1 .. Len(q) :
                    NextFetch(q[i].pc, q[i].predict) = IF i < Len(q) THEN q[i + 1].pc ELSE end
FetchPath ==
    /\ fetch.st = "busy" => pc = NextFetch(fetch.addr, fetch.predict)
    /\ Chain(queue, FetchPc)
    /\ idu.valid => NextFetch(idu.pc, idu.predict) = FirstOf(queue, FetchPc)
    /\ exu.valid => NextFetch(exu.pc, exu.predict) = IF idu.valid THEN idu.pc
                                                     ELSE FirstOf(queue, FetchPc)

\* The pipeline never wedges: some instruction reaches WBU again and again.
AlwaysCommits == []<>(wbu.valid)

-----------------------------------------------------------------------------
\* difftest.cpp promises to compare "the result of every instruction"; this is
\* Lockstep for programs that use the CSRs freely.
CsrLockstep == ref.waived \subseteq {"csr_raw"} => Agree
=============================================================================
