-------------------------------- MODULE Pipeline --------------------------------
(***************************************************************************)
(* PipeState (src/src/pipe.cpp, src/src/pipe.h): the five-stage core.      *)
(*                                                                         *)
(* One cycle of Simulator::cycle is the memory side's Ticks, in which the  *)
(* core's recvResp is called (stage "tick"), then the stage functions in   *)
(* the order pipeCycle calls them, one action per path through each, then  *)
(* the branch recovery.  The caches are the environment here: a request is *)
(* taken or refused and its answer comes in any later "tick".              *)
(***************************************************************************)
EXTENDS MIPS, BranchPredictor

CONSTANTS
  Programs, InitMem,
  FetchCap,          \* bound on the fetches of one address in flight
  NULL               \* the null Pipe_Op* and the empty data port

ASSUME PipelineAssumption ==
  /\ Programs \subseteq [Word -> Instruction]
  /\ InitMem \in [Word -> Word]
  /\ FetchCap \in Nat \ {0}

VARIABLES
  prog, mem,         \* text and data as the memory hierarchy answers them
  dataReq,           \* the load or store it has taken and not answered
  fetchReqs,         \* how many fetches of each address it has taken
  PC, REGS, HILO, RUN_BIT,
  fetch_op, decode_op, execute_op, mem_op, wb_op,
  branch_flush, branch_dest,
  stage,             \* what pipeCycle calls next
  oldHILO            \* history: HILO before the op now in mem_op executed

ops == <<fetch_op, decode_op, execute_op, mem_op, wb_op>>
recovery == <<branch_flush, branch_dest>>
arch == <<PC, REGS, HILO, RUN_BIT>>
memory == <<prog, mem, dataReq, fetchReqs>>
vars == <<memory, arch, ops, recovery, stage, oldHILO, bpVars>>

Op ==
  [pc : Word, ins : Instruction,
   reg_src1_value : Word, reg_src2_value : Word, mem_addr : Word,
   reg_dst_value : Word, reg_dst_value_ready : BOOLEAN,
   branch_dest : Word, branch_taken : BOOLEAN,
   isFetchIssued : BOOLEAN, memTried : BOOLEAN, waitOnPktIssue : BOOLEAN,
   readyForNextStage : BOOLEAN]

\* The op malloc and memset give pipeStageFetch.
NewOp(pc, issued) ==
  [pc |-> pc, ins |-> Nop, reg_src1_value |-> 0, reg_src2_value |-> 0,
   mem_addr |-> 0, reg_dst_value |-> 0, reg_dst_value_ready |-> FALSE,
   branch_dest |-> 0, branch_taken |-> FALSE, isFetchIssued |-> issued,
   memTried |-> FALSE, waitOnPktIssue |-> FALSE, readyForNextStage |-> FALSE]

DataRequest == [write : BOOLEAN, addr : Word, value : Word]

ASSUME NullAssumption == NULL \notin Op /\ NULL \notin DataRequest

Stages == {"tick", "wb", "mem", "ex", "dec", "fetch", "recover"}
Flushes == {"NO_FLUSH", "FLUSH_DECODE", "FLUSH_EXECUTE"}
branch_recover == branch_flush # "NO_FLUSH"

Init ==
  /\ prog \in Programs
  /\ mem = InitMem
  /\ dataReq = NULL
  /\ fetchReqs = [a \in Word |-> 0]
  /\ PC = StartPC
  /\ REGS = [r \in Regs |-> 0]
  /\ HILO = 0
  /\ RUN_BIT = TRUE
  /\ fetch_op = NULL /\ decode_op = NULL /\ execute_op = NULL
  /\ mem_op = NULL /\ wb_op = NULL
  /\ branch_flush = "NO_FLUSH"
  /\ branch_dest = 0
  /\ stage = "tick"
  /\ oldHILO = 0
  /\ BPInit

-------------------------------------------------------------------------------
(* The memory side answers: PipeState::recvResp, by packet type.            *)

LoadResp ==
  /\ stage = "tick" /\ RUN_BIT
  /\ dataReq # NULL /\ ~dataReq.write
  /\ dataReq' = NULL
  /\ mem_op' = IF mem_op.mem_addr = dataReq.addr
               THEN [mem_op EXCEPT !.reg_dst_value = mem[dataReq.addr],
                                   !.reg_dst_value_ready = TRUE,
                                   !.readyForNextStage = TRUE]
               ELSE mem_op
  /\ UNCHANGED <<prog, mem, fetchReqs, arch, fetch_op, decode_op, execute_op,
                 wb_op, recovery, stage, oldHILO, bpVars>>

StoreResp ==
  /\ stage = "tick" /\ RUN_BIT
  /\ dataReq # NULL /\ dataReq.write
  /\ dataReq' = NULL
  /\ mem' = [mem EXCEPT ![dataReq.addr] = dataReq.value]
  /\ mem_op' = [mem_op EXCEPT !.readyForNextStage = TRUE]
  /\ UNCHANGED <<prog, fetchReqs, arch, fetch_op, decode_op, execute_op,
                 wb_op, recovery, stage, oldHILO, bpVars>>

\* Mutant: the address of the answer is not compared with the fetch's.
FetchRespAny(a) ==
  /\ stage = "tick" /\ RUN_BIT
  /\ fetchReqs[a] > 0
  /\ fetchReqs' = [fetchReqs EXCEPT ![a] = @ - 1]
  /\ fetch_op' = IF fetch_op # NULL
                 THEN [fetch_op EXCEPT !.ins = prog[a],
                                       !.readyForNextStage = TRUE]
                 ELSE NULL
  /\ UNCHANGED <<prog, mem, dataReq, arch, decode_op, execute_op, mem_op,
                 wb_op, recovery, stage, oldHILO, bpVars>>

\* The answer may be to a fetch that was flushed since.
FetchResp(a) ==
  /\ stage = "tick" /\ RUN_BIT
  /\ fetchReqs[a] > 0
  /\ fetchReqs' = [fetchReqs EXCEPT ![a] = @ - 1]
  /\ fetch_op' = IF fetch_op # NULL /\ fetch_op.pc = a
                 THEN [fetch_op EXCEPT !.ins = prog[a],
                                       !.readyForNextStage = TRUE]
                 ELSE fetch_op
  /\ UNCHANGED <<prog, mem, dataReq, arch, decode_op, execute_op, mem_op,
                 wb_op, recovery, stage, oldHILO, bpVars>>

EndTick ==
  /\ stage = "tick" /\ RUN_BIT
  /\ stage' = "wb"
  /\ UNCHANGED <<memory, arch, ops, recovery, oldHILO, bpVars>>

-------------------------------------------------------------------------------
(* pipeStageWb                                                              *)

ExitCall(op) == op.ins.kind = "syscall" /\ op.reg_src1_value = ExitCode

WbEmpty ==
  /\ stage = "wb" /\ wb_op = NULL
  /\ stage' = "mem"
  /\ UNCHANGED <<memory, arch, ops, recovery, oldHILO, bpVars>>

WbRetire ==
  /\ stage = "wb" /\ wb_op # NULL
  /\ wb_op' = NULL
  /\ REGS' = Written(REGS, wb_op.ins.dst, wb_op.reg_dst_value)
  /\ IF ExitCall(wb_op)
     THEN PC' = wb_op.pc /\ RUN_BIT' = FALSE /\ stage' = "tick"
     ELSE UNCHANGED <<PC, RUN_BIT>> /\ stage' = "mem"
  /\ UNCHANGED <<memory, HILO, fetch_op, decode_op, execute_op, mem_op,
                 recovery, oldHILO, bpVars>>

-------------------------------------------------------------------------------
(* pipeStageMem.  wb_op is null here, so a store always takes its value     *)
(* from the register file: the forwarding branch above it cannot run.       *)

MemEmpty ==
  /\ stage = "mem" /\ mem_op = NULL
  /\ stage' = "ex"
  /\ UNCHANGED <<memory, arch, ops, recovery, oldHILO, bpVars>>

\* Mutant: a memory op moves on once its packet is taken.
MemDoneEarly ==
  /\ stage = "mem" /\ mem_op # NULL
  /\ IsMem(mem_op.ins) => mem_op.memTried /\ ~mem_op.waitOnPktIssue
  /\ mem_op' = NULL
  /\ wb_op' = mem_op
  /\ stage' = "ex"
  /\ UNCHANGED <<memory, arch, fetch_op, decode_op, execute_op, recovery,
                 oldHILO, bpVars>>

\* The op moves on: not a memory op, or one whose answer has come.
MemDone ==
  /\ stage = "mem" /\ mem_op # NULL
  /\ IsMem(mem_op.ins) =>
       mem_op.memTried /\ ~mem_op.waitOnPktIssue /\ mem_op.readyForNextStage
  /\ mem_op' = NULL
  /\ wb_op' = IF IsStore(mem_op.ins)
              THEN [mem_op EXCEPT !.reg_src2_value = REGS[mem_op.ins.src2]]
              ELSE mem_op
  /\ stage' = "ex"
  /\ UNCHANGED <<memory, arch, fetch_op, decode_op, execute_op, recovery,
                 oldHILO, bpVars>>

\* Mutant: a refusal is taken for an acceptance.
MemIssueOnce(accepted) ==
  /\ stage = "mem" /\ mem_op # NULL /\ IsMem(mem_op.ins) /\ ~mem_op.memTried
  /\ mem_op' = [mem_op EXCEPT !.memTried = TRUE, !.readyForNextStage = FALSE,
                              !.reg_src2_value =
                                IF IsStore(mem_op.ins)
                                THEN REGS[mem_op.ins.src2] ELSE @]
  /\ dataReq' = IF accepted
                THEN [write |-> IsStore(mem_op.ins), addr |-> mem_op.mem_addr,
                      value |-> mem_op'.reg_src2_value]
                ELSE dataReq
  /\ stage' = "ex"
  /\ UNCHANGED <<prog, mem, fetchReqs, arch, fetch_op, decode_op, execute_op,
                 wb_op, recovery, oldHILO, bpVars>>

\* The packet is built and offered, or offered again after a refusal; a store
\* again reads REGS, which no op behind it can have changed meanwhile.
MemIssue(accepted) ==
  /\ stage = "mem" /\ mem_op # NULL /\ IsMem(mem_op.ins)
  /\ ~mem_op.memTried \/ mem_op.waitOnPktIssue
  /\ LET tried == [mem_op EXCEPT !.memTried = TRUE,
                                 !.waitOnPktIssue = ~accepted,
                                 !.readyForNextStage = FALSE]
     IN mem_op' = IF IsStore(mem_op.ins)
                  THEN [tried EXCEPT !.reg_src2_value = REGS[mem_op.ins.src2]]
                  ELSE tried
  /\ dataReq' = IF accepted
                THEN [write |-> IsStore(mem_op.ins), addr |-> mem_op.mem_addr,
                      value |-> IF IsStore(mem_op.ins)
                                THEN REGS[mem_op.ins.src2] ELSE 0]
                ELSE dataReq
  /\ stage' = "ex"
  /\ UNCHANGED <<prog, mem, fetchReqs, arch, fetch_op, decode_op, execute_op,
                 wb_op, recovery, oldHILO, bpVars>>

MemWait ==
  /\ stage = "mem" /\ mem_op # NULL /\ IsMem(mem_op.ins)
  /\ mem_op.memTried /\ ~mem_op.waitOnPktIssue /\ ~mem_op.readyForNextStage
  /\ stage' = "ex"
  /\ UNCHANGED <<memory, arch, ops, recovery, oldHILO, bpVars>>

-------------------------------------------------------------------------------
(* pipeRecover: a recovery already scheduled this cycle wins.               *)

\* Mutant: the last one wins.
pipeRecoverLast(flush, dest) == branch_flush' = flush /\ branch_dest' = dest

pipeRecover(flush, dest) ==
  IF branch_recover THEN UNCHANGED recovery
  ELSE branch_flush' = flush /\ branch_dest' = dest

-------------------------------------------------------------------------------
(* pipeStageExecute.  It runs only with mem_op null, so getRegisterState    *)
(* can forward from wb_op alone.                                            *)

\* Mutant: no forwarding.
RegisterValueOld(r) == Operand(REGS, r)

RegisterValue(r) ==
  IF r \notin {NoReg, 0} /\ wb_op # NULL /\ wb_op.ins.dst = r
  THEN wb_op.reg_dst_value
  ELSE Operand(REGS, r)

NotReady(r) ==
  /\ r \notin {NoReg, 0} /\ wb_op # NULL /\ wb_op.ins.dst = r
  /\ ~wb_op.reg_dst_value_ready

\* Mutant: the op in the memory stage is not waited for.
CanExecuteEarly ==
  /\ execute_op # NULL
  /\ ~NotReady(execute_op.ins.src1)
  /\ IsStore(execute_op.ins) \/ ~NotReady(execute_op.ins.src2)

CanExecute ==
  /\ mem_op = NULL /\ execute_op # NULL
  /\ ~NotReady(execute_op.ins.src1)
  /\ IsStore(execute_op.ins) \/ ~NotReady(execute_op.ins.src2)

ExecuteStall ==
  /\ stage = "ex" /\ ~CanExecute
  /\ stage' = "dec"
  /\ UNCHANGED <<memory, arch, ops, recovery, oldHILO, bpVars>>

\* Mutant: MFHI and MFLO do not mark their result ready.
ExecutedHiLoUnready(op) ==
  LET i == op.ins
      a == RegisterValue(i.src1)
      b == IF IsStore(i) THEN op.reg_src2_value ELSE RegisterValue(i.src2)
  IN [op EXCEPT
        !.reg_src1_value = a, !.reg_src2_value = b,
        !.reg_dst_value = Result(i, op.pc, a, b, HILO),
        !.reg_dst_value_ready = @ \/ i.kind \in {"alu", "mult", "mthilo"},
        !.branch_taken = @ \/ Taken(i, a, b)]

\* The op after the arithmetic switch.  JR and JALR learn their destination
\* here; a link register has had its value since decode.
Executed(op) ==
  LET i == op.ins
      a == RegisterValue(i.src1)
      b == IF IsStore(i) THEN op.reg_src2_value ELSE RegisterValue(i.src2)
  IN [op EXCEPT
        !.reg_src1_value = a,
        !.reg_src2_value = b,
        !.mem_addr = IF IsMem(i) THEN Effective(i, a) ELSE 0,
        !.reg_dst_value = IF i.kind \in {"alu", "mfhilo", "jumpreg"}
                          THEN Result(i, op.pc, a, b, HILO)
                          ELSE op.reg_dst_value,
        !.reg_dst_value_ready =
           @ \/ i.kind \in {"alu", "mult", "mfhilo", "mthilo", "jumpreg",
                            "syscall"},
        !.branch_dest = IF i.kind = "jumpreg" THEN a ELSE @,
        !.branch_taken = @ \/ Taken(i, a, b)]

\* The PC the front end followed after the op in execute_op.
FollowedPC ==
  IF decode_op # NULL THEN decode_op.pc
  ELSE IF fetch_op # NULL THEN fetch_op.pc ELSE PC

Execute ==
  /\ stage = "ex" /\ CanExecute
  /\ LET op == Executed(execute_op)
         target == IF op.branch_taken THEN op.branch_dest ELSE NextPC(op.pc)
     IN /\ mem_op' = op
        /\ HILO' = HiLoAfter(op.ins, op.reg_src1_value, op.reg_src2_value, HILO)
        /\ IF IsBranch(op.ins) /\ op.branch_dest # 0
           THEN /\ IF FollowedPC # target
                   THEN pipeRecover("FLUSH_EXECUTE", target)
                   ELSE UNCHANGED recovery
                /\ update(op.pc, op.branch_taken, target)
           ELSE UNCHANGED <<recovery, BTB>>
  /\ oldHILO' = HILO
  /\ execute_op' = NULL
  /\ stage' = "dec"
  /\ UNCHANGED <<memory, PC, REGS, RUN_BIT, fetch_op, decode_op, wb_op,
                 rasVars>>

-------------------------------------------------------------------------------
(* pipeStageDecode                                                          *)

DecodeStall ==
  /\ stage = "dec" /\ (execute_op # NULL \/ decode_op = NULL)
  /\ stage' = "fetch"
  /\ UNCHANGED <<memory, arch, ops, recovery, oldHILO, bpVars>>

\* The op after the decode switch.  A link register's value is known here.
Decoded(op) ==
  LET link == op.ins.kind \in {"branch", "jump"} /\ op.ins.dst # NoReg
  IN [op EXCEPT !.reg_dst_value = IF link THEN NextPC(op.pc) ELSE @,
                !.reg_dst_value_ready = @ \/ link,
                !.branch_taken = @ \/ op.ins.kind = "jump",
                !.branch_dest = IF op.ins.kind \in {"branch", "jump"}
                                THEN Target(op.ins, op.pc, 0) ELSE @]

\* A conditional branch: followed now only if the predictor says so.
DecodeConditional(op) ==
  /\ IF predictTaken(op.pc) /\ fetch_op.pc # op.branch_dest
     THEN pipeRecover("FLUSH_DECODE", op.branch_dest)
     ELSE UNCHANGED recovery
  /\ execute_op' = op
  /\ UNCHANGED BTB

\* Mutant: what the front end followed is stored, not the destination.
DecodeJumpFollowed(op) ==
  /\ IF fetch_op.pc # op.branch_dest
     THEN pipeRecover("FLUSH_DECODE", op.branch_dest)
     ELSE UNCHANGED recovery
  /\ update(op.pc, TRUE, fetch_op.pc)
  /\ execute_op' = [op EXCEPT !.branch_dest = 0]

\* J and JAL end here; branch_dest = 0 tells Execute that they have.
DecodeJump(op) ==
  /\ IF fetch_op.pc # op.branch_dest
     THEN pipeRecover("FLUSH_DECODE", op.branch_dest)
     ELSE UNCHANGED recovery
  /\ update(op.pc, TRUE, op.branch_dest)
  /\ execute_op' = [op EXCEPT !.branch_dest = 0]

\* No destination yet.  JALR, and not JR, consults the return address stack.
DecodeUnknown(op) ==
  /\ IF op.ins.fn = "jalr" /\ RASTop # 0 /\ fetch_op.pc # RASTop
     THEN pipeRecover("FLUSH_DECODE", RASTop)
     ELSE UNCHANGED recovery
  /\ execute_op' = op
  /\ UNCHANGED BTB

Decode ==
  /\ stage = "dec" /\ execute_op = NULL /\ decode_op # NULL
  /\ LET op == Decoded(decode_op)
     IN IF ~IsBranch(op.ins)
        THEN execute_op' = op /\ UNCHANGED <<recovery, BTB>>
        ELSE IF op.branch_dest = 0 THEN DecodeUnknown(op)
        ELSE IF op.ins.kind = "branch" THEN DecodeConditional(op)
        ELSE DecodeJump(op)
  /\ IF decode_op.ins.kind = "jump" /\ decode_op.ins.dst = RA
     THEN pushRAS(NextPC(decode_op.pc))
     ELSE IF decode_op.ins.fn = "jalr" THEN popRAS
     ELSE UNCHANGED rasVars
  /\ decode_op' = NULL
  /\ stage' = "fetch"
  /\ UNCHANGED <<memory, arch, fetch_op, mem_op, wb_op, oldHILO>>

-------------------------------------------------------------------------------
(* pipeStageFetch                                                           *)

\* inst_mem->recvReq: taken or refused.
OfferFetch(a, accepted) ==
  /\ accepted => fetchReqs[a] < FetchCap
  /\ fetchReqs' = IF accepted THEN [fetchReqs EXCEPT ![a] = @ + 1]
                  ELSE fetchReqs

FetchStall ==
  /\ stage = "fetch"
  /\ \/ decode_op # NULL
     \/ fetch_op # NULL /\ fetch_op.isFetchIssued /\ ~fetch_op.readyForNextStage
  /\ stage' = "recover"
  /\ UNCHANGED <<memory, arch, ops, recovery, oldHILO, bpVars>>

FetchRetry(accepted) ==
  /\ stage = "fetch" /\ decode_op = NULL
  /\ fetch_op # NULL /\ ~fetch_op.isFetchIssued
  /\ OfferFetch(fetch_op.pc, accepted)
  /\ fetch_op' = [fetch_op EXCEPT !.isFetchIssued = accepted]
  /\ stage' = "recover"
  /\ UNCHANGED <<prog, mem, dataReq, arch, decode_op, execute_op, mem_op,
                 wb_op, recovery, oldHILO, bpVars>>

\* Mutant: a refused fetch counts as issued.
FetchNextIssued(accepted) ==
  /\ stage = "fetch" /\ decode_op = NULL
  /\ fetch_op # NULL =>
       fetch_op.isFetchIssued /\ fetch_op.readyForNextStage
  /\ decode_op' = fetch_op
  /\ OfferFetch(PC, accepted)
  /\ fetch_op' = NewOp(PC, TRUE)
  /\ PC' = IF getTarget(PC) = NoTarget THEN NextPC(PC) ELSE getTarget(PC)
  /\ stage' = "recover"
  /\ UNCHANGED <<prog, mem, dataReq, REGS, HILO, RUN_BIT, execute_op, mem_op,
                 wb_op, recovery, oldHILO, bpVars>>

\* The fetched op, if any, moves on and the next fetch starts.
FetchNext(accepted) ==
  /\ stage = "fetch" /\ decode_op = NULL
  /\ fetch_op # NULL =>
       fetch_op.isFetchIssued /\ fetch_op.readyForNextStage
  /\ decode_op' = fetch_op
  /\ OfferFetch(PC, accepted)
  /\ fetch_op' = NewOp(PC, accepted)
  /\ PC' = IF getTarget(PC) = NoTarget THEN NextPC(PC) ELSE getTarget(PC)
  /\ stage' = "recover"
  /\ UNCHANGED <<prog, mem, dataReq, REGS, HILO, RUN_BIT, execute_op, mem_op,
                 wb_op, recovery, oldHILO, bpVars>>

-------------------------------------------------------------------------------
(* The end of pipeCycle: the recovery the stages scheduled, if any.         *)

NoRecover ==
  /\ stage = "recover" /\ ~branch_recover
  /\ stage' = "tick"
  /\ UNCHANGED <<memory, arch, ops, recovery, oldHILO, bpVars>>

\* Mutant: the op between the branch and the fetch is not flushed.
RecoverKeepsDecode ==
  /\ stage = "recover" /\ branch_recover
  /\ PC' = branch_dest
  /\ execute_op' = IF branch_flush = "FLUSH_EXECUTE" THEN NULL ELSE execute_op
  /\ fetch_op' = NULL
  /\ branch_flush' = "NO_FLUSH"
  /\ branch_dest' = 0
  /\ stage' = "tick"
  /\ UNCHANGED <<memory, REGS, HILO, RUN_BIT, decode_op, mem_op, wb_op,
                 oldHILO, bpVars>>

Recover ==
  /\ stage = "recover" /\ branch_recover
  /\ PC' = branch_dest
  /\ execute_op' = IF branch_flush = "FLUSH_EXECUTE" THEN NULL ELSE execute_op
  /\ decode_op' = NULL
  /\ fetch_op' = NULL
  /\ branch_flush' = "NO_FLUSH"
  /\ branch_dest' = 0
  /\ stage' = "tick"
  /\ UNCHANGED <<memory, REGS, HILO, RUN_BIT, mem_op, wb_op, oldHILO, bpVars>>

\* Simulator::go and run call no cycle once RUN_BIT is false.
Halted ==
  /\ ~RUN_BIT
  /\ UNCHANGED vars

Memory == LoadResp \/ StoreResp \/ (\E a \in Word : FetchResp(a)) \/ EndTick

MemIssued == \E accepted \in BOOLEAN : MemIssue(accepted)
FetchRetried == \E accepted \in BOOLEAN : FetchRetry(accepted)
FetchStarted == \E accepted \in BOOLEAN : FetchNext(accepted)

Cycle ==
  \/ WbEmpty \/ WbRetire
  \/ MemEmpty \/ MemDone \/ MemIssued \/ MemWait
  \/ ExecuteStall \/ Execute
  \/ DecodeStall \/ Decode
  \/ FetchStall \/ FetchRetried \/ FetchStarted
  \/ NoRecover \/ Recover

Next == Memory \/ Cycle \/ Halted

Spec == Init /\ [][Next]_vars
===============================================================================
