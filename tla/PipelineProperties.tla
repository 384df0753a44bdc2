--------------------------- MODULE PipelineProperties ---------------------------
(***************************************************************************)
(* What Pipeline must satisfy: its type, the facts its stages rely on      *)
(* without testing them, and that it implements ISA.                       *)
(***************************************************************************)
EXTENDS Pipeline

OpOrNull == Op \cup {NULL}

BTBEntry == [PC : Word, target : Word, valid : BOOLEAN]

TypeOK ==
  /\ prog \in [Word -> Instruction]
  /\ mem \in [Word -> Word]
  /\ dataReq \in DataRequest \cup {NULL}
  /\ fetchReqs \in [Word -> 0 .. FetchCap]
  /\ PC \in Word
  /\ REGS \in [Regs -> Word]
  /\ HILO \in Word
  /\ oldHILO \in Word
  /\ RUN_BIT \in BOOLEAN
  /\ fetch_op \in OpOrNull
  /\ decode_op \in OpOrNull
  /\ execute_op \in OpOrNull
  /\ mem_op \in OpOrNull
  /\ wb_op \in OpOrNull
  /\ branch_flush \in Flushes
  /\ branch_dest \in Word
  /\ stage \in Stages
  /\ BTB \in [BTBSlots -> BTBEntry]
  /\ RAS \in [RASSlots -> Word]
  /\ RAS_next \in RASSlots
  /\ RAS_count \in 0 .. (CountMod - 1)

-------------------------------------------------------------------------------
(* Facts the stages rely on and do not test.                                *)

\* pipeStageDecode reads fetch_op->pc through a pointer it never tests: every
\* op waiting to be decoded must have a successor in fetch_op.
DecodeHasSuccessor == decode_op # NULL => fetch_op # NULL

\* recvResp reads mem_op through a pointer it never tests, and asserts that a
\* store's answer is for it: a request in the data hierarchy is always that of
\* the op in mem_op, which is waiting for it.
DataAnswerHasOwner ==
  dataReq # NULL =>
    /\ mem_op # NULL
    /\ IsMem(mem_op.ins)
    /\ dataReq.addr = mem_op.mem_addr
    /\ dataReq.write = IsStore(mem_op.ins)
    /\ mem_op.memTried /\ ~mem_op.waitOnPktIssue /\ ~mem_op.readyForNextStage

\* Conversely an op that waits for an answer has a request that will bring it,
\* and a fetch marked issued is ready or has an answer on its way, however many
\* flushes and stale answers came between.
NoLostRequest ==
  /\ mem_op # NULL /\ IsMem(mem_op.ins) /\ mem_op.memTried
     /\ ~mem_op.waitOnPktIssue /\ ~mem_op.readyForNextStage
       => dataReq # NULL
  /\ fetch_op # NULL /\ fetch_op.isFetchIssued /\ ~fetch_op.readyForNextStage
       => fetchReqs[fetch_op.pc] > 0

\* A stale answer to a flushed fetch never gives an op the instruction of
\* another address: whatever leaves fetch is the instruction of its own PC.
OwnInstruction ==
  /\ \A op \in {decode_op, execute_op, mem_op, wb_op} \ {NULL} :
       op.ins = prog[op.pc]
  /\ fetch_op # NULL /\ fetch_op.readyForNextStage =>
       fetch_op.ins = prog[fetch_op.pc]

\* The value an op in wb_op will write exists: Execute would otherwise stall on
\* it, and the stall counters that were to model that are never effective.
WbValueReady ==
  wb_op # NULL /\ wb_op.ins.dst \notin {NoReg, 0} => wb_op.reg_dst_value_ready

\* Execute checks only branches, so the fetch stage may leave the sequential
\* path only at one: wrong-path decodes never put another PC in the BTB.  And
\* the entry of J or JAL, which Execute does not check either, is exact.
BTBOnlyBranches ==
  \A i \in BTBSlots : BTB[i].valid =>
    /\ IsBranch(prog[BTB[i].PC])
    /\ prog[BTB[i].PC].kind = "jump" =>
         BTB[i].target = Target(prog[BTB[i].PC], BTB[i].PC, 0)

\* The header's rule "the stage must not overwrite its output (otherwise an
\* instruction would be lost)": no step puts an op in a slot, or a request in
\* the data port, that holds another.
Overwritten(slot, next) ==
  slot # NULL /\ next # NULL /\ slot.pc # next.pc

NoOverwrite ==
  [][/\ ~Overwritten(fetch_op, fetch_op') \/ decode_op' = fetch_op
     /\ ~Overwritten(decode_op, decode_op')
     /\ ~Overwritten(execute_op, execute_op')
     /\ ~Overwritten(mem_op, mem_op')
     /\ ~Overwritten(wb_op, wb_op')
     /\ dataReq # NULL => dataReq' \in {NULL, dataReq}]_vars

-------------------------------------------------------------------------------
(* Refinement.  An instruction commits when a load or store is answered,    *)
(* and for any other when it leaves the memory stage.                       *)

Committed(op) == IsMem(op.ins) /\ op.memTried /\ op.readyForNextStage

MemPending == mem_op # NULL /\ ~Committed(mem_op)

archHalted == ~RUN_BIT \/ (wb_op # NULL /\ ExitCall(wb_op))

\* The PC of the oldest op that has not committed.
archPC ==
  IF ~RUN_BIT THEN PC
  ELSE IF wb_op # NULL /\ ExitCall(wb_op) THEN wb_op.pc
  ELSE IF MemPending THEN mem_op.pc
  ELSE IF execute_op # NULL THEN execute_op.pc
  ELSE FollowedPC

\* The register file with the values of committed ops not yet written to it.
RegsAfterWb ==
  IF wb_op = NULL THEN REGS
  ELSE Written(REGS, wb_op.ins.dst, wb_op.reg_dst_value)

archRegs ==
  IF mem_op = NULL \/ MemPending THEN RegsAfterWb
  ELSE Written(RegsAfterWb, mem_op.ins.dst, mem_op.reg_dst_value)

archHILO == IF mem_op = NULL THEN HILO ELSE oldHILO

Arch == INSTANCE ISA WITH
          pc <- archPC, regs <- archRegs, hilo <- archHILO,
          halted <- archHalted

\* The pipeline with its prediction, flushes, forwarding and stalls executes
\* exactly the instructions of the program, in its order, each with its effect.
ImplementsISA == Arch!ISASpec

-------------------------------------------------------------------------------
(* Liveness.  pipeCycle runs its stages without fail; a request refused is   *)
(* offered again each cycle and taken when the cache's queue has room, and   *)
(* the caches answer each request after finitely many Ticks.  Several Ticks  *)
(* may pass with nothing to do, hence strong fairness for those.             *)

Fairness ==
  /\ WF_vars(Cycle \/ EndTick)
  /\ SF_vars(LoadResp \/ StoreResp)
  /\ \A a \in Word : SF_vars(FetchResp(a))
  /\ SF_vars(MemIssue(TRUE))
  /\ SF_vars(FetchRetry(TRUE))

FairSpec == Spec /\ Fairness

\* The machine never stops short of the exit call: instructions keep being
\* executed as long as the architectural machine has one to execute.
Commit ==
  \/ LoadResp
  \/ StoreResp
  \/ MemDone /\ ~IsMem(mem_op.ins)

KeepsExecuting == <>archHalted \/ []<><<Commit>>_vars
===============================================================================
