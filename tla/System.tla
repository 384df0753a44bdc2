--------------------------------- MODULE System ---------------------------------
(***************************************************************************)
(* Simulator (src/src/simulator.cpp): the core and the memory hierarchy in *)
(* one machine, as its constructor connects them, loaded by main.cpp's     *)
(* loader and driven by cycle.  This module is the hierarchy with Pipe,    *)
(* PipeState, for its user: a request the core makes is taken if the level *)
(* 1 cache has room, and an answer is what the Ticks bring, no longer a    *)
(* choice of the environment.                                              *)
(*                                                                         *)
(* Text words have the addresses 0 .. WordSize - 1 of the hierarchy and    *)
(* data words those from DataStart on.  A word of text holds an instruction. *)
(***************************************************************************)
EXTENDS MIPS, MemProperties

CONSTANTS
  btb_size, ras_size, CountMod, FetchCap,
  DataStart,         \* MEM_DATA_START
  CommandLines       \* sequences of program files, each a sequence of words

DataAddress(a) == DataStart + a

ASSUME MapAssumption ==
  TextWords = Word /\ DataWords = {DataAddress(a) : a \in Word}

VARIABLES
  PC, REGS, HILO, RUN_BIT,
  fetch_op, decode_op, execute_op, mem_op, wb_op,
  branch_flush, branch_dest, stage, oldHILO,
  BTB, RAS, RAS_next, RAS_count,
  invalidResp        \* an assertion of PipeState::recvResp has failed

coreVars == <<PC, REGS, HILO, RUN_BIT, fetch_op, decode_op, execute_op, mem_op,
              wb_op, branch_flush, branch_dest, stage, oldHILO, BTB, RAS,
              RAS_next, RAS_count>>
sysVars == <<hvars, coreVars, invalidResp>>

-------------------------------------------------------------------------------
(* The loader: writeProgramToMem, loadProgram, initialize.                   *)

\* What memset to 0 leaves where no file reaches.
Cleared(a) == IF a \in TextWords THEN Nop ELSE 0

writeProgramToMem(memory, address, value) ==
  IF \E r \in Regions : r.start <= address /\ address < r.start + r.size
  THEN [memory EXCEPT ![address] = value] ELSE memory

loadProgram(memory, words) ==
  FoldLeft(LAMBDA m, ii : writeProgramToMem(m, StartPC + ii - 1, words[ii]),
           memory, [ii \in DOMAIN words |-> ii])

\* Every file is loaded at MEM_TEXT_START, over the one before.
initialize(files) == FoldLeft(loadProgram, [a \in Addresses |-> Cleared(a)], files)

Images == {[a \in Word |-> initialize(files)[a]] : files \in CommandLines}

-------------------------------------------------------------------------------
(* What the core's actions see of the hierarchy; they read no word of it.    *)

text == [a \in Word |-> store[a]]
dataReqSeen ==
  IF dataReq = NULL THEN NULL
  ELSE [write |-> dataReq.type = "store", addr |-> dataReq.addr - DataStart,
        value |-> dataReq.value]

Pipe == INSTANCE Pipeline WITH
          Programs <- Images, InitMem <- [a \in Word |-> 0],
          prog <- text, mem <- [a \in Word |-> store[DataAddress(a)]],
          dataReq <- dataReqSeen, fetchReqs <- fetches

SysInit ==
  /\ Constructed
  /\ \E files \in CommandLines : store = initialize(files)
  /\ Pipe!Init
  /\ invalidResp = FALSE

-------------------------------------------------------------------------------
(* Simulator::cycle.                                                         *)

\* Mutant: any fetch's answer is taken for the one in fetch_op.
recvRespAny(ops, p) ==
  CASE p.type = "fetch" ->
         IF ops.fetch # NULL
         THEN [ops EXCEPT !.fetch.ins = p.value, !.fetch.readyForNextStage = TRUE]
         ELSE ops
    [] p.type = "load" ->
         [ops EXCEPT !.mem.reg_dst_value = p.value,
                     !.mem.reg_dst_value_ready = TRUE,
                     !.mem.readyForNextStage = TRUE]
    [] p.type = "store" ->
         IF DataAddress(ops.mem.mem_addr) = p.addr
         THEN [ops EXCEPT !.mem.readyForNextStage = TRUE]
         ELSE [ops EXCEPT !.invalid = TRUE]

\* PipeState::recvResp on one packet; assert: "Invalid store response".
recvResp(ops, p) ==
  CASE p.type = "fetch" ->
         IF ops.fetch # NULL /\ ops.fetch.pc = p.addr
         THEN [ops EXCEPT !.fetch.ins = p.value, !.fetch.readyForNextStage = TRUE]
         ELSE ops
    [] p.type = "load" ->
         IF DataAddress(ops.mem.mem_addr) = p.addr
         THEN [ops EXCEPT !.mem.reg_dst_value = p.value,
                          !.mem.reg_dst_value_ready = TRUE,
                          !.mem.readyForNextStage = TRUE]
         ELSE ops
    [] p.type = "store" ->
         IF DataAddress(ops.mem.mem_addr) = p.addr
         THEN [ops EXCEPT !.mem.readyForNextStage = TRUE]
         ELSE [ops EXCEPT !.invalid = TRUE]

\* One of the four Ticks, which hands the core what it is answered.
Answered ==
  /\ stage = "tick" /\ RUN_BIT /\ ~invalidResp
  /\ Tick
  /\ LET ops == [fetch |-> fetch_op, mem |-> mem_op, invalid |-> FALSE]
         after == FoldLeft(recvResp, ops, answers')
     IN fetch_op' = after.fetch /\ mem_op' = after.mem /\ invalidResp' = after.invalid
  /\ UNCHANGED <<PC, REGS, HILO, RUN_BIT, decode_op, execute_op, wb_op,
                 branch_flush, branch_dest, stage, oldHILO, BTB, RAS, RAS_next,
                 RAS_count>>

Failed == abort # "none" \/ invalidResp

CoreRuns == phase = "core" /\ ~Failed

\* The stages that ask nothing of the hierarchy.
Step ==
  /\ CoreRuns
  /\ UNCHANGED <<hvars, invalidResp>>
  /\ \/ Pipe!EndTick
     \/ Pipe!WbEmpty \/ Pipe!WbRetire
     \/ Pipe!MemEmpty \/ Pipe!MemDone \/ Pipe!MemWait
     \/ Pipe!ExecuteStall \/ Pipe!Execute
     \/ Pipe!DecodeStall \/ Pipe!Decode
     \/ Pipe!FetchStall

\* recvReq of a level 1 cache: refused when its queue is full.
Room(c) == HasRoom(State, c)

Offer(c, p) ==
  /\ queue' = IF Room(c) THEN recvReq(State, c, p).queue ELSE queue
  /\ UNCHANGED <<blocks, mshr, store, abort, phase, answers, invalidResp>>

\* The load or store of mem_op.
Request ==
  [type |-> mem_op.ins.kind, addr |-> DataAddress(mem_op.mem_addr),
   value |-> IF IsStore(mem_op.ins) THEN REGS[mem_op.ins.src2] ELSE 0]

AskData ==
  /\ CoreRuns
  /\ stage = "mem" /\ mem_op # NULL /\ IsMem(mem_op.ins)
  /\ Offer("L1D", RequestPacket(Request))
  /\ dataReq' = IF Room("L1D") THEN Request ELSE dataReq
  /\ UNCHANGED fetches
  /\ Pipe!MemIssue(Room("L1D"))

AskFetch(a) ==
  /\ CoreRuns
  /\ Offer("L1I", Packet("fetch", a, <<>>))
  /\ fetches' = IF Room("L1I") THEN [fetches EXCEPT ![a] = @ + 1] ELSE fetches
  /\ UNCHANGED dataReq

AskAgain ==
  /\ stage = "fetch" /\ fetch_op # NULL /\ ~fetch_op.isFetchIssued
  /\ AskFetch(fetch_op.pc)
  /\ Pipe!FetchRetry(Room("L1I"))

AskNext ==
  /\ stage = "fetch"
  /\ AskFetch(PC)
  /\ Pipe!FetchNext(Room("L1I"))

\* The end of pipeCycle, and currCycle++.
Clock ==
  /\ CoreRuns
  /\ queue' = Elapsed(queue)
  /\ phase' = "Mem"
  /\ answers' = <<>>
  /\ UNCHANGED <<blocks, mshr, store, abort, dataReq, fetches, invalidResp>>
  /\ Pipe!NoRecover \/ Pipe!Recover

\* go and run return once RUN_BIT is false; a failed assertion ends the program.
Stopped == (~RUN_BIT \/ Failed) /\ UNCHANGED sysVars

Cycle == Answered \/ Step \/ AskData \/ AskAgain \/ AskNext \/ Clock

SysNext == Cycle \/ Stopped

SysSpec == SysInit /\ [][SysNext]_sysVars

\* go calls cycle as long as the machine runs.  Every step of Cycle changes stage
\* or phase, and until the machine stops one is enabled: this is the weak
\* fairness of Cycle.
SysFairSpec ==
  SysSpec /\ (<>(~RUN_BIT \/ Failed) \/ []<><<TRUE>>_<<stage, phase>>)
================================================================================
