---------------------------- MODULE PipelineProofs ----------------------------
(***************************************************************************)
(* Theorems about Pipeline, for every program, every size of word,         *)
(* register file and predictor, and every answer time of the caches.       *)
(***************************************************************************)
EXTENDS PipelineProperties, PredictorProofs

-------------------------------------------------------------------------------
(* What the operators of MIPS return.                                        *)

\* Arithmetic modulo 2^32 stays in a word.
LEMMA WordRemainder ==
  ASSUME NEW a \in Nat
  PROVE  a % WordSize \in Word
BY Remainder, MIPSAssumption DEF Word

\* PC + 4, as pipeStageFetch and the link registers compute it, is a word.
LEMMA NextPCType ==
  ASSUME NEW pc \in Word
  PROVE  NextPC(pc) \in Word
BY WordRemainder DEF NextPC, Word

\* A branch destination and a load's or store's address are words.
LEMMA TargetType ==
  ASSUME NEW i \in Instruction, NEW pc \in Word, NEW a \in Word
  PROVE  Target(i, pc, a) \in Word /\ Effective(i, a) \in Word
<1>1. i.imm \in Word
  BY DEF Instruction
<1>2. (pc + 1 + i.imm) % WordSize \in Word /\ (a + i.imm) % WordSize \in Word
  BY <1>1, WordRemainder DEF Word
<1>3. QED
  BY <1>1, <1>2 DEF Target, Effective

\* The 0 that memset leaves in an op's fields is a word.
LEMMA ZeroIsWord == 0 \in Word
BY MIPSAssumption DEF Word

\* What the arithmetic switch of pipeStageExecute computes is a word.
LEMMA ResultType ==
  ASSUME NEW i \in Instruction, NEW pc \in Word, NEW a \in Word, NEW b \in Word,
         NEW hilo \in Word
  PROVE  Result(i, pc, a, b, hilo) \in Word /\ HiLoAfter(i, a, b, hilo) \in Word
<1>1. i.imm \in Word
  BY DEF Instruction
<1>2. i.kind = "alu" => Alu(i.fn, a, b, i.imm) \in Word
  BY <1>1, AluAssumption DEF Instruction
<1>3. Mul(a, b) \in Word
  BY AluAssumption
<1>4. QED
  BY <1>2, <1>3, NextPCType, ZeroIsWord DEF Result, HiLoAfter

\* The register write of pipeStageWb keeps the register file's type.
LEMMA WrittenType ==
  ASSUME NEW regs \in [Regs -> Word], NEW r \in Regs \cup {NoReg}, NEW v \in Word
  PROVE  Written(regs, r, v) \in [Regs -> Word] /\ Operand(regs, r) \in Word
BY ZeroIsWord DEF Written, Operand

-------------------------------------------------------------------------------
(* Type correctness.  An answer finds its op (DataAnswerHasOwner) is needed  *)
(* with it: recvResp updates mem_op without testing that there is one.       *)

TypeInv == TypeOK /\ DataAnswerHasOwner

\* The op pipeStageFetch allocates is an op.
LEMMA NewOpType ==
  ASSUME NEW pc \in Word, NEW issued \in BOOLEAN
  PROVE  NewOp(pc, issued) \in Op
<1>1. Nop \in Instruction
  BY ZeroIsWord, MIPSAssumption
     DEF Nop, Instruction, Kinds, Fns, AluFns, Regs
<1>2. QED
  BY <1>1, ZeroIsWord DEF NewOp, Op

\* The constructors leave a well-typed state with no request outstanding.
LEMMA TypeInit == Init => TypeInv
<1> SUFFICES ASSUME Init
             PROVE  TypeInv
  OBVIOUS
<1>1. /\ prog \in [Word -> Instruction] /\ mem \in [Word -> Word]
      /\ fetchReqs \in [Word -> 0 .. FetchCap]
      /\ PC \in Word /\ REGS \in [Regs -> Word] /\ HILO \in Word
      /\ oldHILO \in Word /\ branch_dest \in Word
  BY PipelineAssumption, MIPSAssumption, ZeroIsWord DEF Init
<1>2. /\ BTB \in [BTBSlots -> BTBEntry] /\ RAS \in [RASSlots -> Word]
      /\ RAS_next \in RASSlots /\ RAS_count \in 0 .. (CountMod - 1)
  BY BPAssumption, ZeroIsWord
     DEF Init, BPInit, BTBEntry, BTBSlots, RASSlots
<1>3. QED
  BY <1>1, <1>2 DEF Init, TypeInv, TypeOK, DataAnswerHasOwner, OpOrNull, Stages,
                    Flushes

\* recvResp of each kind.
LEMMA TypeTick ==
  ASSUME TypeInv, LoadResp \/ StoreResp \/ (\E a \in Word : FetchResp(a)) \/ EndTick
  PROVE  TypeInv'
<1> USE DEF TypeInv, TypeOK
<1>1. CASE LoadResp
  <2>1. mem_op \in Op /\ dataReq \in DataRequest
    BY <1>1 DEF LoadResp, DataAnswerHasOwner, OpOrNull
  <2>2. mem_op' \in Op
    BY <1>1, <2>1 DEF LoadResp, Op, DataRequest
  <2>3. QED
    BY <1>1, <2>2
       DEF LoadResp, arch, recovery, bpVars, DataAnswerHasOwner, OpOrNull, RASSlots
<1>2. CASE StoreResp
  <2>1. mem_op \in Op /\ dataReq \in DataRequest
    BY <1>2 DEF StoreResp, DataAnswerHasOwner, OpOrNull
  <2>2. mem_op' \in Op /\ mem' \in [Word -> Word]
    BY <1>2, <2>1 DEF StoreResp, Op, DataRequest
  <2>3. QED
    BY <1>2, <2>2
       DEF StoreResp, arch, recovery, bpVars, DataAnswerHasOwner, OpOrNull, RASSlots
<1>3. ASSUME NEW a \in Word, FetchResp(a)
      PROVE  TypeInv'
  <2>1. fetch_op' \in OpOrNull
    BY <1>3 DEF FetchResp, Op, OpOrNull
  <2>2. fetchReqs' \in [Word -> 0 .. FetchCap]
    <3>1. fetchReqs[a] - 1 \in 0 .. FetchCap
      <4>1. fetchReqs[a] \in 0 .. FetchCap /\ fetchReqs[a] > 0
        BY <1>3 DEF FetchResp
      <4>2. QED
        BY <4>1, PipelineAssumption
    <3>2. QED
      BY <1>3, <3>1 DEF FetchResp
  <2>3. QED
    BY <1>3, <2>1, <2>2
       DEF FetchResp, arch, recovery, bpVars, DataAnswerHasOwner, RASSlots
<1>4. CASE EndTick
  BY <1>4 DEF EndTick, memory, arch, ops, recovery, bpVars, DataAnswerHasOwner,
              RASSlots, Stages
<1>5. QED
  BY <1>1, <1>2, <1>3, <1>4

\* pipeStageWb preserves the type and the owner of the request.
LEMMA TypeWb ==
  ASSUME TypeInv, WbEmpty \/ WbRetire
  PROVE  TypeInv'
<1> USE DEF TypeInv, TypeOK
<1>1. CASE WbEmpty
  BY <1>1 DEF WbEmpty, memory, arch, ops, recovery, bpVars, DataAnswerHasOwner,
              RASSlots, Stages
<1>2. CASE WbRetire
  <2>1. wb_op \in Op
    BY <1>2 DEF WbRetire, OpOrNull
  <2>2. wb_op.ins.dst \in Regs \cup {NoReg} /\ wb_op.reg_dst_value \in Word
        /\ wb_op.pc \in Word
    BY <2>1 DEF Op, Instruction
  <2>3. REGS' \in [Regs -> Word]
    BY <1>2, <2>2, WrittenType DEF WbRetire
  <2>4. PC' \in Word /\ RUN_BIT' \in BOOLEAN /\ stage' \in Stages
    BY <1>2, <2>2 DEF WbRetire, Stages
  <2>5. wb_op' \in OpOrNull
    BY <1>2 DEF WbRetire, OpOrNull
  <2>6. QED
    BY <1>2, <2>3, <2>4, <2>5
       DEF WbRetire, memory, recovery, bpVars, DataAnswerHasOwner, RASSlots
<1>3. QED
  BY <1>1, <1>2

\* pipeStageMem preserves the type; a request it hands out is its op's, and
\* the op stays until the answer has come.
LEMMA TypeMem ==
  ASSUME TypeInv, MemEmpty \/ MemDone \/ MemIssued \/ MemWait
  PROVE  TypeInv'
<1> USE DEF TypeInv, TypeOK
<1>1. CASE MemEmpty \/ MemWait
  BY <1>1 DEF MemEmpty, MemWait, memory, arch, ops, recovery, bpVars,
              DataAnswerHasOwner, RASSlots, Stages
<1>2. ASSUME mem_op \in Op, IsStore(mem_op.ins)
      PROVE  REGS[mem_op.ins.src2] \in Word
  BY <1>2 DEF Op, Instruction, IsStore
<1>3. CASE MemDone
  <2>1. mem_op \in Op
    BY <1>3 DEF MemDone, OpOrNull
  <2>2. wb_op' \in Op
    BY <1>2, <1>3, <2>1 DEF MemDone, Op
  <2>3. dataReq = NULL
    BY <1>3 DEF MemDone, DataAnswerHasOwner
  <2>4. QED
    BY <1>3, <2>2, <2>3
       DEF MemDone, memory, arch, recovery, bpVars, DataAnswerHasOwner, OpOrNull,
           RASSlots, Stages
<1>4. ASSUME NEW accepted \in BOOLEAN, MemIssue(accepted)
      PROVE  TypeInv'
  <2>1. mem_op \in Op /\ dataReq = NULL
    BY <1>4 DEF MemIssue, OpOrNull, DataAnswerHasOwner
  <2>2. mem_op' \in Op
    BY <1>2, <1>4, <2>1 DEF MemIssue, Op
  <2>3. mem_op.mem_addr \in Word
    BY <2>1 DEF Op
  <2>4. dataReq' \in DataRequest \cup {NULL}
    BY <1>2, <1>4, <2>1, <2>3, ZeroIsWord DEF MemIssue, DataRequest, IsStore
  <2>5. /\ mem_op'.ins = mem_op.ins /\ mem_op'.mem_addr = mem_op.mem_addr
        /\ mem_op'.memTried /\ mem_op'.waitOnPktIssue = ~accepted
        /\ ~mem_op'.readyForNextStage
    BY <1>4, <2>1 DEF MemIssue, Op
  <2>6. DataAnswerHasOwner'
    <3>1. CASE accepted
      BY <1>4, <2>1, <2>2, <2>5, <3>1, NullAssumption
         DEF MemIssue, DataAnswerHasOwner
    <3>2. CASE ~accepted
      BY <1>4, <2>1, <3>2 DEF MemIssue, DataAnswerHasOwner
    <3>3. QED
      BY <3>1, <3>2
  <2>7. QED
    BY <1>4, <2>2, <2>4, <2>6
       DEF MemIssue, arch, recovery, bpVars, OpOrNull, RASSlots, Stages
<1>5. QED
  BY <1>1, <1>3, <1>4 DEF MemIssued

\* A register operand, forwarded or not, is a word.
LEMMA RegisterValueType ==
  ASSUME TypeOK, NEW r \in Regs \cup {NoReg}
  PROVE  RegisterValue(r) \in Word
<1>1. Operand(REGS, r) \in Word
  BY ZeroIsWord DEF TypeOK, Operand
<1>2. wb_op # NULL => wb_op.reg_dst_value \in Word
  BY DEF TypeOK, OpOrNull, Op
<1>3. QED
  BY <1>1, <1>2 DEF RegisterValue

\* The op after the arithmetic switch is an op.
LEMMA ExecutedType ==
  ASSUME TypeOK, NEW op \in Op
  PROVE  /\ Executed(op) \in Op
         /\ Executed(op).ins = op.ins /\ Executed(op).pc = op.pc
         /\ Executed(op).memTried = op.memTried
         /\ Executed(op).waitOnPktIssue = op.waitOnPktIssue
         /\ HiLoAfter(op.ins, Executed(op).reg_src1_value,
                      Executed(op).reg_src2_value, HILO) \in Word
<1> DEFINE i == op.ins
           a == RegisterValue(i.src1)
           b == IF IsStore(i) THEN op.reg_src2_value ELSE RegisterValue(i.src2)
           e == Executed(op)
<1>1. i \in Instruction
  BY DEF Op
<1>2. i.src1 \in Regs \cup {NoReg} /\ i.src2 \in Regs \cup {NoReg}
  BY <1>1 DEF Instruction
<1>3. a \in Word /\ b \in Word
  BY <1>2, RegisterValueType DEF Op
<1>4. HILO \in Word /\ op.pc \in Word
  BY DEF TypeOK, Op
<1>5. /\ Result(i, op.pc, a, b, HILO) \in Word
      /\ HiLoAfter(i, a, b, HILO) \in Word
      /\ Effective(i, a) \in Word
  BY <1>1, <1>3, <1>4, ResultType, TargetType
<1>6. Taken(i, a, b) \in BOOLEAN
  BY DEF Taken
<1>7. (IF IsMem(i) THEN Effective(i, a) ELSE 0) \in Word
  BY <1>5, ZeroIsWord
<1>8. /\ (IF i.kind \in {"alu", "mfhilo", "jumpreg"}
          THEN Result(i, op.pc, a, b, HILO) ELSE op.reg_dst_value) \in Word
      /\ (IF i.kind = "jumpreg" THEN a ELSE op.branch_dest) \in Word
  BY <1>3, <1>5 DEF Op
<1>9. /\ (op.reg_dst_value_ready
          \/ i.kind \in {"alu", "mult", "mfhilo", "mthilo", "jumpreg", "syscall"})
            \in BOOLEAN
      /\ (op.branch_taken \/ Taken(i, a, b)) \in BOOLEAN
  BY <1>6 DEF Op
<1> HIDE DEF a, b
<1>10. e = [op EXCEPT
             !.reg_src1_value = a,
             !.reg_src2_value = b,
             !.mem_addr = IF IsMem(i) THEN Effective(i, a) ELSE 0,
             !.reg_dst_value = IF i.kind \in {"alu", "mfhilo", "jumpreg"}
                               THEN Result(i, op.pc, a, b, HILO)
                               ELSE op.reg_dst_value,
             !.reg_dst_value_ready =
                op.reg_dst_value_ready
                  \/ i.kind \in {"alu", "mult", "mfhilo", "mthilo", "jumpreg",
                                 "syscall"},
             !.branch_dest = IF i.kind = "jumpreg" THEN a ELSE op.branch_dest,
             !.branch_taken = op.branch_taken \/ Taken(i, a, b)]
  BY DEF Executed, a, b
<1> HIDE DEF i, e
<1>11. e \in Op
  <2> DEFINE m == IF IsMem(i) THEN Effective(i, a) ELSE 0
             d == IF i.kind \in {"alu", "mfhilo", "jumpreg"}
                  THEN Result(i, op.pc, a, b, HILO) ELSE op.reg_dst_value
             r == op.reg_dst_value_ready
                    \/ i.kind \in {"alu", "mult", "mfhilo", "mthilo", "jumpreg",
                                   "syscall"}
             g == IF i.kind = "jumpreg" THEN a ELSE op.branch_dest
             t == op.branch_taken \/ Taken(i, a, b)
  <2>1. m \in Word /\ d \in Word /\ r \in BOOLEAN /\ g \in Word /\ t \in BOOLEAN
    BY <1>7, <1>8, <1>9
  <2>2. e = [op EXCEPT !.reg_src1_value = a, !.reg_src2_value = b,
                       !.mem_addr = m, !.reg_dst_value = d,
                       !.reg_dst_value_ready = r, !.branch_dest = g,
                       !.branch_taken = t]
    BY <1>10
  <2> HIDE DEF m, d, r, g, t
  <2>3. QED
    BY <1>3, <2>1, <2>2 DEF Op
<1>12. /\ e.ins = i /\ e.pc = op.pc
       /\ e.memTried = op.memTried /\ e.waitOnPktIssue = op.waitOnPktIssue
       /\ e.reg_src1_value = a /\ e.reg_src2_value = b
  BY <1>10 DEF Op, i
<1>13. QED
  BY <1>5, <1>11, <1>12 DEF i, e

\* Scheduling a recovery to a word keeps the type.
LEMMA RecoverType ==
  ASSUME TypeOK, NEW flush \in Flushes, NEW dest \in Word,
         pipeRecover(flush, dest) \/ UNCHANGED recovery
  PROVE  branch_flush' \in Flushes /\ branch_dest' \in Word
BY DEF TypeOK, pipeRecover, recovery

\* pipeStageExecute preserves the type, and runs only with no request out.
LEMMA TypeExecute ==
  ASSUME TypeInv, ExecuteStall \/ Execute
  PROVE  TypeInv'
<1> USE DEF TypeInv
<1>1. CASE ExecuteStall
  BY <1>1 DEF ExecuteStall, memory, arch, ops, recovery, bpVars, TypeOK,
              DataAnswerHasOwner, RASSlots, Stages
<1>2. CASE Execute
  <2> DEFINE op == Executed(execute_op)
             target == IF op.branch_taken THEN op.branch_dest ELSE NextPC(op.pc)
  <2>1. execute_op \in Op
    BY <1>2 DEF Execute, CanExecute, TypeOK, OpOrNull
  <2>2. /\ op \in Op
        /\ HiLoAfter(execute_op.ins, op.reg_src1_value, op.reg_src2_value, HILO)
             \in Word
        /\ op.ins = execute_op.ins
    BY <2>1, ExecutedType
  <2> HIDE DEF op
  <2>3. /\ op.pc \in Word /\ op.branch_dest \in Word /\ op.branch_taken \in BOOLEAN
        /\ target \in Word
    BY <2>2, NextPCType DEF Op
  <2> HIDE DEF target
  <2>4. /\ mem_op' = op
        /\ HILO' = HiLoAfter(op.ins, op.reg_src1_value, op.reg_src2_value, HILO)
        /\ pipeRecover("FLUSH_EXECUTE", target) \/ UNCHANGED recovery
        /\ update(op.pc, op.branch_taken, target) \/ BTB' = BTB
    BY <1>2 DEF Execute, op, target
  <2>5. branch_flush' \in Flushes /\ branch_dest' \in Word
    <3>1. "FLUSH_EXECUTE" \in Flushes
      BY DEF Flushes
    <3>2. QED
      BY <2>3, <2>4, <3>1, RecoverType
  <2>6. BTB' \in [BTBSlots -> BTBEntry]
    <3>1. BTB \in [BTBSlots -> [PC : Word, target : Word, valid : BOOLEAN]]
      BY DEF TypeOK, BTBEntry
    <3>2. QED
      BY <2>3, <2>4, <3>1, UpdateType DEF BTBEntry
  <2>7. mem_op' \in OpOrNull /\ HILO' \in Word /\ oldHILO' \in Word
        /\ execute_op' \in OpOrNull /\ stage' \in Stages
    BY <1>2, <2>2, <2>4 DEF Execute, OpOrNull, Stages, TypeOK
  <2>8. DataAnswerHasOwner'
    BY <1>2 DEF Execute, CanExecute, DataAnswerHasOwner, memory
  <2>9. QED
    BY <1>2, <2>5, <2>6, <2>7, <2>8
       DEF Execute, memory, rasVars, TypeOK, RASSlots
<1>3. QED
  BY <1>1, <1>2

\* The op after the decode switch is an op.
LEMMA DecodedType ==
  ASSUME NEW op \in Op
  PROVE  /\ Decoded(op) \in Op
         /\ Decoded(op).ins = op.ins /\ Decoded(op).pc = op.pc
         /\ Decoded(op).memTried = op.memTried
         /\ Decoded(op).waitOnPktIssue = op.waitOnPktIssue
<1>1. /\ op.ins \in Instruction /\ op.pc \in Word
      /\ NextPC(op.pc) \in Word /\ Target(op.ins, op.pc, 0) \in Word
  BY TargetType, NextPCType, ZeroIsWord DEF Op
<1> DEFINE i == op.ins
           link == i.kind \in {"branch", "jump"} /\ i.dst # NoReg
           d == IF link THEN NextPC(op.pc) ELSE op.reg_dst_value
           r == op.reg_dst_value_ready \/ link
           t == op.branch_taken \/ i.kind = "jump"
           g == IF i.kind \in {"branch", "jump"} THEN Target(i, op.pc, 0)
                ELSE op.branch_dest
<1>2. d \in Word /\ g \in Word /\ r \in BOOLEAN /\ t \in BOOLEAN
  BY <1>1 DEF Op
<1>3. Decoded(op) = [op EXCEPT !.reg_dst_value = d, !.reg_dst_value_ready = r,
                               !.branch_taken = t, !.branch_dest = g]
  BY DEF Decoded
<1> HIDE DEF d, r, t, g
<1>4. QED
  BY <1>2, <1>3 DEF Op

\* A prediction of the return address stack is a word.
LEMMA RASTopType == TypeOK => RASTop \in Word
<1> SUFFICES ASSUME TypeOK
             PROVE  RASTop \in Word
  OBVIOUS
<1>1. RAS_next + ras_size - 1 \in Nat
  BY BPAssumption DEF TypeOK, RASSlots
<1>2. (RAS_next + ras_size - 1) % ras_size \in RASSlots
  BY <1>1, Remainder, BPAssumption DEF RASSlots
<1>3. QED
  BY <1>2, ZeroIsWord DEF TypeOK, RASTop

\* pipeStageDecode preserves the type and the owner of the request.
LEMMA TypeDecode ==
  ASSUME TypeInv, DecodeStall \/ Decode
  PROVE  TypeInv'
<1> USE DEF TypeInv
<1>1. CASE DecodeStall
  BY <1>1 DEF DecodeStall, memory, arch, ops, recovery, bpVars, TypeOK,
              DataAnswerHasOwner, RASSlots, Stages
<1>2. CASE Decode
  <2> DEFINE op == Decoded(decode_op)
  <2>1. decode_op \in Op
    BY <1>2 DEF Decode, TypeOK, OpOrNull
  <2>2. op \in Op /\ op.ins = decode_op.ins
    BY <2>1, DecodedType
  <2> HIDE DEF op
  <2>3. op.pc \in Word /\ op.branch_dest \in Word
    BY <2>2 DEF Op
  <2>4. \/ execute_op' = op /\ UNCHANGED <<recovery, BTB>>
        \/ DecodeUnknown(op) \/ DecodeConditional(op) \/ DecodeJump(op)
    BY <1>2 DEF Decode, op
  <2>5. execute_op' \in Op
    BY <2>2, <2>4, ZeroIsWord
       DEF DecodeUnknown, DecodeConditional, DecodeJump, Op
  <2>6. branch_flush' \in Flushes /\ branch_dest' \in Word
    <3>1. "FLUSH_DECODE" \in Flushes /\ RASTop \in Word
      BY RASTopType DEF Flushes
    <3>2. \/ UNCHANGED recovery
          \/ pipeRecover("FLUSH_DECODE", op.branch_dest)
          \/ pipeRecover("FLUSH_DECODE", RASTop)
      BY <2>4 DEF DecodeUnknown, DecodeConditional, DecodeJump
    <3>3. QED
      BY <2>3, <3>1, <3>2, RecoverType
  <2>7. BTB' \in [BTBSlots -> BTBEntry]
    <3>1. BTB \in [BTBSlots -> [PC : Word, target : Word, valid : BOOLEAN]]
      BY DEF TypeOK, BTBEntry
    <3>2. BTB' = BTB \/ update(op.pc, TRUE, op.branch_dest)
      BY <2>4 DEF DecodeUnknown, DecodeConditional, DecodeJump
    <3>3. QED
      BY <2>3, <3>1, <3>2, UpdateType DEF BTBEntry
  <2>8. /\ RAS' \in [RASSlots -> Word]
        /\ RAS_next' \in RASSlots
        /\ RAS_count' \in 0 .. (CountMod - 1)
    <3>1. decode_op.pc \in Word /\ NextPC(decode_op.pc) \in Word
      BY <2>1, NextPCType DEF Op
    <3>2. pushRAS(NextPC(decode_op.pc)) \/ popRAS \/ UNCHANGED rasVars
      BY <1>2 DEF Decode
    <3>3. QED
      BY <3>1, <3>2, RASType DEF TypeOK
  <2>9. DataAnswerHasOwner'
    BY <1>2 DEF Decode, DataAnswerHasOwner, memory
  <2>10. QED
    BY <1>2, <2>5, <2>6, <2>7, <2>8, <2>9
       DEF Decode, memory, arch, TypeOK, OpOrNull, Stages
<1>3. QED
  BY <1>1, <1>2

\* pipeStageFetch preserves the type and the owner of the request.
LEMMA TypeFetch ==
  ASSUME TypeInv, FetchStall \/ FetchRetried \/ FetchStarted
  PROVE  TypeInv'
<1> USE DEF TypeInv
<1>1. CASE FetchStall
  BY <1>1 DEF FetchStall, memory, arch, ops, recovery, bpVars, TypeOK,
              DataAnswerHasOwner, RASSlots, Stages
<1>2. ASSUME NEW a \in Word, NEW accepted \in BOOLEAN, OfferFetch(a, accepted)
      PROVE  fetchReqs' \in [Word -> 0 .. FetchCap]
  <2>1. fetchReqs \in [Word -> 0 .. FetchCap]
    BY DEF TypeOK
  <2>2. accepted => fetchReqs[a] + 1 \in 0 .. FetchCap
    BY <1>2, <2>1, PipelineAssumption DEF OfferFetch
  <2>3. QED
    BY <1>2, <2>1, <2>2 DEF OfferFetch
<1>3. ASSUME NEW accepted \in BOOLEAN, FetchRetry(accepted)
      PROVE  TypeInv'
  <2>1. fetch_op \in Op /\ fetch_op.pc \in Word
    BY <1>3 DEF FetchRetry, TypeOK, OpOrNull, Op
  <2>2. fetch_op' \in Op
    BY <1>3, <2>1 DEF FetchRetry, Op
  <2>3. fetchReqs' \in [Word -> 0 .. FetchCap]
    BY <1>2, <1>3, <2>1 DEF FetchRetry
  <2>4. QED
    BY <1>3, <2>2, <2>3
       DEF FetchRetry, arch, recovery, bpVars, TypeOK, OpOrNull,
           DataAnswerHasOwner, RASSlots, Stages
<1>4. ASSUME NEW accepted \in BOOLEAN, FetchNext(accepted)
      PROVE  TypeInv'
  <2>1. PC \in Word /\ NextPC(PC) \in Word
    BY NextPCType DEF TypeOK
  <2>2. fetch_op' \in Op
    BY <1>4, <2>1, NewOpType DEF FetchNext
  <2>3. fetchReqs' \in [Word -> 0 .. FetchCap]
    BY <1>2, <1>4, <2>1 DEF FetchNext
  <2>4. getTarget(PC) # NoTarget => getTarget(PC) \in Word
    BY GetTargetEntry DEF TypeOK, BTBEntry
  <2>5. PC' \in Word
    BY <1>4, <2>1, <2>4 DEF FetchNext
  <2>6. decode_op' \in OpOrNull
    BY <1>4 DEF FetchNext, TypeOK
  <2>7. QED
    BY <1>4, <2>2, <2>3, <2>5, <2>6
       DEF FetchNext, recovery, bpVars, TypeOK, OpOrNull,
           DataAnswerHasOwner, RASSlots, Stages
<1>5. QED
  BY <1>1, <1>3, <1>4 DEF FetchRetried, FetchStarted

\* The end of pipeCycle preserves the type: a recovery flushes no op of mem_op.
LEMMA TypeRecover ==
  ASSUME TypeInv, NoRecover \/ Recover
  PROVE  TypeInv'
<1> USE DEF TypeInv
<1>1. CASE NoRecover
  BY <1>1 DEF NoRecover, memory, arch, ops, recovery, bpVars, TypeOK,
              DataAnswerHasOwner, RASSlots, Stages
<1>2. CASE Recover
  BY <1>2, ZeroIsWord
     DEF Recover, memory, bpVars, TypeOK, OpOrNull, DataAnswerHasOwner,
         RASSlots, Stages, Flushes
<1>3. QED
  BY <1>1, <1>2

\* Every step preserves TypeInv.
LEMMA TypeStep == TypeInv /\ [Next]_vars => TypeInv'
<1>1. TypeInv /\ UNCHANGED vars => TypeInv'
  BY DEF TypeInv, TypeOK, DataAnswerHasOwner, vars, memory, arch, ops, recovery,
         bpVars, RASSlots
<1>2. QED
  BY <1>1, TypeTick, TypeWb, TypeMem, TypeExecute, TypeDecode, TypeFetch,
     TypeRecover DEF Next, Memory, Cycle, Halted

\* Type correctness of the pipeline.
THEOREM TypeCorrect == Spec => []TypeOK
<1>1. TypeInv => TypeOK
  BY DEF TypeInv
<1>2. QED
  BY <1>1, TypeInit, TypeStep, PTL DEF Spec

\* Every answer of the data side finds, in mem_op, the op that asked for it.
THEOREM AnswersOwned == Spec => []DataAnswerHasOwner
<1>1. TypeInv => DataAnswerHasOwner
  BY DEF TypeInv
<1>2. QED
  BY <1>1, TypeInit, TypeStep, PTL DEF Spec

-------------------------------------------------------------------------------
(* The facts the stages rely on.  Beside TypeInv they need: an op that has   *)
(* not reached the memory stage was never offered to the data cache.         *)

FreshOps ==
  \A op \in {fetch_op, decode_op, execute_op} \ {NULL} :
    ~op.memTried /\ ~op.waitOnPktIssue

FrontInv == DecodeHasSuccessor /\ OwnInstruction /\ FreshOps

\* No op has been fetched at the start.
LEMMA FrontInit == Init => FrontInv
BY DEF Init, FrontInv, DecodeHasSuccessor, OwnInstruction, FreshOps

\* Every step preserves FrontInv: only Recover takes fetch_op away, and it takes
\* decode_op too; only an answer for its own PC makes a fetched op ready.
LEMMA FrontStep == TypeInv /\ FrontInv /\ [Next]_vars => FrontInv'
<1> SUFFICES ASSUME TypeInv, FrontInv, [Next]_vars
             PROVE  FrontInv'
  OBVIOUS
<1> USE DEF FrontInv, DecodeHasSuccessor, OwnInstruction, FreshOps
<1>1. /\ fetch_op \in OpOrNull /\ decode_op \in OpOrNull
      /\ execute_op \in OpOrNull /\ mem_op \in OpOrNull /\ wb_op \in OpOrNull
  BY DEF TypeInv, TypeOK
<1>2. CASE UNCHANGED <<ops, prog>>
  BY <1>2 DEF ops
<1>3. CASE LoadResp \/ StoreResp
  <2>1. mem_op \in Op
    BY <1>1, <1>3 DEF LoadResp, StoreResp, TypeInv, DataAnswerHasOwner, OpOrNull
  <2>2. mem_op'.ins = mem_op.ins /\ mem_op'.pc = mem_op.pc
    BY <1>3, <2>1 DEF LoadResp, StoreResp, Op
  <2>3. mem_op'.ins = prog[mem_op'.pc]
    BY <2>1, <2>2, NullAssumption
  <2>4. UNCHANGED <<prog, fetch_op, decode_op, execute_op, wb_op>>
    BY <1>3 DEF LoadResp, StoreResp
  <2>5. QED
    BY <2>3, <2>4
<1>4. ASSUME NEW a \in Word, FetchResp(a)
      PROVE  FrontInv'
  <2>1. CASE fetch_op # NULL /\ fetch_op.pc = a
    <3>1. fetch_op \in Op
      BY <1>1, <2>1 DEF OpOrNull
    <3>2. /\ fetch_op' = [fetch_op EXCEPT !.ins = prog[a],
                                          !.readyForNextStage = TRUE]
          /\ prog[a] \in Instruction
      BY <1>4, <2>1 DEF FetchResp, TypeInv, TypeOK
    <3>3. /\ fetch_op' \in Op
          /\ fetch_op'.ins = prog[a] /\ fetch_op'.pc = a
          /\ fetch_op'.memTried = fetch_op.memTried
          /\ fetch_op'.waitOnPktIssue = fetch_op.waitOnPktIssue
      BY <2>1, <3>1, <3>2 DEF Op
    <3>4. QED
      BY <1>4, <2>1, <3>3, NullAssumption DEF FetchResp
  <2>2. CASE ~(fetch_op # NULL /\ fetch_op.pc = a)
    BY <1>4, <2>2 DEF FetchResp
  <2>3. QED
    BY <2>1, <2>2
<1>5. CASE WbRetire
  BY <1>5 DEF WbRetire, memory
<1>6. CASE MemDone
  <2>1. mem_op \in Op
    BY <1>1, <1>6 DEF MemDone, OpOrNull
  <2>2. wb_op'.ins = mem_op.ins /\ wb_op'.pc = mem_op.pc
    BY <1>6, <2>1 DEF MemDone, Op
  <2>3. wb_op'.ins = prog[wb_op'.pc]
    BY <2>1, <2>2, NullAssumption
  <2>4. /\ mem_op' = NULL
        /\ UNCHANGED <<prog, fetch_op, decode_op, execute_op>>
    BY <1>6 DEF MemDone, memory
  <2>5. QED
    BY <2>3, <2>4
<1>7. ASSUME NEW accepted \in BOOLEAN, MemIssue(accepted)
      PROVE  FrontInv'
  <2>1. mem_op \in Op
    BY <1>1, <1>7 DEF MemIssue, OpOrNull
  <2>2. mem_op'.ins = mem_op.ins /\ mem_op'.pc = mem_op.pc
    BY <1>7, <2>1 DEF MemIssue, Op
  <2>3. mem_op'.ins = prog[mem_op'.pc]
    BY <2>1, <2>2, NullAssumption
  <2>4. UNCHANGED <<prog, fetch_op, decode_op, execute_op, wb_op>>
    BY <1>7 DEF MemIssue
  <2>5. QED
    BY <2>3, <2>4
<1>8. CASE Execute
  <2>1. execute_op \in Op
    BY <1>1, <1>8 DEF Execute, CanExecute, OpOrNull
  <2>2. mem_op'.ins = execute_op.ins /\ mem_op'.pc = execute_op.pc
    BY <1>8, <2>1, ExecutedType DEF Execute, TypeInv
  <2>3. QED
    BY <1>8, <2>1, <2>2 DEF Execute, CanExecute, memory
<1>9. CASE Decode
  <2> DEFINE op == Decoded(decode_op)
  <2>1. decode_op \in Op
    BY <1>1, <1>9 DEF Decode, OpOrNull
  <2>2. /\ op \in Op /\ op.ins = decode_op.ins /\ op.pc = decode_op.pc
        /\ op.memTried = decode_op.memTried
        /\ op.waitOnPktIssue = decode_op.waitOnPktIssue
    BY <2>1, DecodedType
  <2>3. \/ execute_op' = op
        \/ DecodeUnknown(op) \/ DecodeConditional(op) \/ DecodeJump(op)
    BY <1>9 DEF Decode
  <2> HIDE DEF op
  <2>4. /\ execute_op'.ins = op.ins /\ execute_op'.pc = op.pc
        /\ execute_op'.memTried = op.memTried
        /\ execute_op'.waitOnPktIssue = op.waitOnPktIssue
    BY <2>2, <2>3 DEF DecodeUnknown, DecodeConditional, DecodeJump, Op
  <2>5. decode_op' = NULL /\ decode_op # NULL
        /\ UNCHANGED <<prog, fetch_op, mem_op, wb_op>>
    BY <1>9 DEF Decode, memory
  <2>6. QED
    BY <2>2, <2>4, <2>5
<1>10. ASSUME NEW accepted \in BOOLEAN, FetchRetry(accepted)
       PROVE  FrontInv'
  <2>1. fetch_op \in Op
    BY <1>1, <1>10 DEF FetchRetry, OpOrNull
  <2>2. /\ fetch_op' \in Op
        /\ fetch_op'.ins = fetch_op.ins /\ fetch_op'.pc = fetch_op.pc
        /\ fetch_op'.readyForNextStage = fetch_op.readyForNextStage
        /\ fetch_op'.memTried = fetch_op.memTried
        /\ fetch_op'.waitOnPktIssue = fetch_op.waitOnPktIssue
    BY <1>10, <2>1 DEF FetchRetry, Op
  <2>3. QED
    BY <1>10, <2>1, <2>2, NullAssumption DEF FetchRetry
<1>11. ASSUME NEW accepted \in BOOLEAN, FetchNext(accepted)
       PROVE  FrontInv'
  <2>1. fetch_op' = NewOp(PC, accepted) /\ PC \in Word
    BY <1>11 DEF FetchNext, TypeInv, TypeOK
  <2>2. /\ fetch_op' \in Op /\ ~fetch_op'.readyForNextStage
        /\ ~fetch_op'.memTried /\ ~fetch_op'.waitOnPktIssue
    BY <2>1, NewOpType DEF NewOp
  <2>3. decode_op' = fetch_op /\ UNCHANGED <<prog, execute_op, mem_op, wb_op>>
    BY <1>11 DEF FetchNext
  <2>4. fetch_op # NULL => fetch_op.readyForNextStage
    BY <1>11 DEF FetchNext
  <2>5. QED
    BY <2>2, <2>3, <2>4, NullAssumption
<1>12. CASE Recover
  BY <1>12 DEF Recover, memory
<1>13. QED
  BY <1>2, <1>3, <1>4, <1>5, <1>6, <1>7, <1>8, <1>9, <1>10, <1>11, <1>12
     DEF Next, Memory, Cycle, Halted, vars, memory, ops, EndTick, WbEmpty,
         MemEmpty, MemWait, MemIssued, ExecuteStall, DecodeStall, FetchStall,
         FetchRetried, FetchStarted, NoRecover

\* Where the value an op will write is already there: a link register after
\* decode, a loaded value after the answer, any other after execute.
Answered(op) ==
  IsMem(op.ins) => op.memTried /\ ~op.waitOnPktIssue /\ op.readyForNextStage

ValuesReady ==
  /\ execute_op # NULL /\ execute_op.ins.kind \in {"branch", "jump"}
       /\ execute_op.ins.dst # NoReg => execute_op.reg_dst_value_ready
  /\ mem_op # NULL /\ mem_op.ins.dst # NoReg /\ Answered(mem_op)
       => mem_op.reg_dst_value_ready

BackInv == NoLostRequest /\ WbValueReady /\ ValuesReady

\* No op waits for anything at the start.
LEMMA BackInit == Init => BackInv
BY DEF Init, BackInv, NoLostRequest, WbValueReady, ValuesReady

\* An answer is given to the op that waits for it and to no other.
LEMMA BackTick ==
  ASSUME TypeInv, BackInv,
         LoadResp \/ StoreResp \/ (\E a \in Word : FetchResp(a))
  PROVE  BackInv'
<1> USE DEF BackInv, NoLostRequest, WbValueReady, ValuesReady, Answered
<1>1. CASE LoadResp
  <2>1. mem_op \in Op /\ IsMem(mem_op.ins) /\ dataReq.addr = mem_op.mem_addr
    BY <1>1 DEF LoadResp, TypeInv, TypeOK, DataAnswerHasOwner, OpOrNull
  <2>2. /\ mem_op'.ins = mem_op.ins /\ mem_op'.readyForNextStage
        /\ mem_op'.reg_dst_value_ready
    BY <1>1, <2>1 DEF LoadResp, Op
  <2>3. QED
    BY <1>1, <2>2 DEF LoadResp
<1>2. CASE StoreResp
  <2>1. mem_op \in Op /\ IsStore(mem_op.ins)
    BY <1>2 DEF StoreResp, TypeInv, TypeOK, DataAnswerHasOwner, OpOrNull
  <2>2. mem_op.ins.dst = NoReg
    BY <2>1 DEF Op, Instruction, IsStore
  <2>3. mem_op'.ins = mem_op.ins /\ mem_op'.readyForNextStage
    BY <1>2, <2>1 DEF StoreResp, Op
  <2>4. QED
    BY <1>2, <2>2, <2>3 DEF StoreResp
<1>3. ASSUME NEW a \in Word, FetchResp(a)
      PROVE  BackInv'
  <2>1. fetchReqs \in [Word -> 0 .. FetchCap] /\ fetch_op \in OpOrNull
    BY DEF TypeInv, TypeOK
  <2>2. CASE fetch_op # NULL /\ fetch_op.pc = a
    <3>1. fetch_op'.readyForNextStage
      BY <1>3, <2>1, <2>2 DEF FetchResp, Op, OpOrNull
    <3>2. QED
      BY <1>3, <3>1 DEF FetchResp
  <2>3. CASE ~(fetch_op # NULL /\ fetch_op.pc = a)
    <3>1. fetch_op' = fetch_op /\ UNCHANGED <<dataReq, execute_op, mem_op, wb_op>>
      BY <1>3, <2>3 DEF FetchResp
    <3>2. fetch_op # NULL => fetchReqs'[fetch_op.pc] = fetchReqs[fetch_op.pc]
      BY <1>3, <2>1, <2>3 DEF FetchResp, Op, OpOrNull
    <3>3. QED
      BY <3>1, <3>2
  <2>4. QED
    BY <2>2, <2>3
<1>4. QED
  BY <1>1, <1>2, <1>3

\* pipeStageMem waits only for a request it has handed out.
LEMMA BackMem ==
  ASSUME TypeInv, BackInv, MemDone \/ MemIssued
  PROVE  BackInv'
<1> USE DEF BackInv, NoLostRequest, WbValueReady, ValuesReady, Answered
<1>1. CASE MemDone
  <2>1. mem_op \in Op /\ Answered(mem_op)
    BY <1>1 DEF MemDone, OpOrNull, TypeInv, TypeOK
  <2>2. wb_op'.ins = mem_op.ins
        /\ wb_op'.reg_dst_value_ready = mem_op.reg_dst_value_ready
    BY <1>1, <2>1 DEF MemDone, Op
  <2>3. mem_op' = NULL
        /\ UNCHANGED <<dataReq, fetchReqs, fetch_op, execute_op>>
    BY <1>1 DEF MemDone, memory
  <2>4. QED
    BY <2>1, <2>2, <2>3, NullAssumption
<1>2. ASSUME NEW accepted \in BOOLEAN, MemIssue(accepted)
      PROVE  BackInv'
  <2>1. mem_op \in Op /\ dataReq = NULL
    BY <1>2 DEF MemIssue, OpOrNull, DataAnswerHasOwner, TypeInv, TypeOK
  <2>2. /\ mem_op'.ins = mem_op.ins /\ mem_op'.waitOnPktIssue = ~accepted
        /\ ~mem_op'.readyForNextStage /\ IsMem(mem_op'.ins)
    BY <1>2, <2>1 DEF MemIssue, Op
  <2>3. accepted => dataReq' # NULL
    <3>1. accepted => dataReq' = [write |-> IsStore(mem_op.ins),
                                  addr |-> mem_op.mem_addr,
                                  value |-> IF IsStore(mem_op.ins)
                                            THEN REGS[mem_op.ins.src2] ELSE 0]
      BY <1>2 DEF MemIssue
    <3>2. mem_op.mem_addr \in Word
          /\ (IsStore(mem_op.ins) => REGS[mem_op.ins.src2] \in Word)
      BY <2>1 DEF Op, Instruction, IsStore, TypeInv, TypeOK
    <3>3. IsStore(mem_op.ins) \in BOOLEAN
      BY DEF IsStore
    <3>4. accepted => dataReq' \in DataRequest
      BY <3>1, <3>2, <3>3, ZeroIsWord DEF DataRequest
    <3>5. QED
      BY <3>4, NullAssumption
  <2>4. UNCHANGED <<fetchReqs, fetch_op, execute_op, wb_op>>
    BY <1>2 DEF MemIssue
  <2>5. QED
    BY <2>2, <2>3, <2>4
<1>3. QED
  BY <1>1, <1>2 DEF MemIssued

\* What pipeStageExecute hands on has its value, or is a load.
LEMMA BackExecute ==
  ASSUME TypeInv, FreshOps, BackInv, Execute
  PROVE  BackInv'
<1> DEFINE e == Executed(execute_op)
<1>1. execute_op \in Op /\ execute_op # NULL
  BY DEF Execute, CanExecute, OpOrNull, TypeInv, TypeOK
<1>2. execute_op.ins \in Instruction
  BY <1>1 DEF Op
<1>3. e \in Op /\ e.ins = execute_op.ins /\ ~e.memTried
  BY <1>1, ExecutedType DEF TypeInv, FreshOps
<1>4. e.reg_dst_value_ready =
        (execute_op.reg_dst_value_ready
           \/ execute_op.ins.kind \in {"alu", "mult", "mfhilo", "mthilo",
                                       "jumpreg", "syscall"})
  BY <1>1 DEF Executed, Op
<1>5. e.ins.dst # NoReg /\ ~IsMem(e.ins) => e.reg_dst_value_ready
  <2>1. execute_op.ins.kind \in Kinds
        /\ (execute_op.ins.kind \in {"store", "other"} => execute_op.ins.dst = NoReg)
    BY <1>2 DEF Instruction
  <2>2. QED
    BY <1>1, <1>3, <1>4, <2>1 DEF BackInv, ValuesReady, Kinds, IsMem
<1>6. /\ mem_op' = e /\ execute_op' = NULL
      /\ UNCHANGED <<dataReq, fetchReqs, fetch_op, wb_op>>
  BY DEF Execute, memory
<1> HIDE DEF e
<1>7. QED
  BY <1>3, <1>5, <1>6
     DEF BackInv, NoLostRequest, WbValueReady, ValuesReady, Answered

\* Only link registers have their value at decode.
LEMMA BackDecode ==
  ASSUME TypeInv, BackInv, Decode
  PROVE  BackInv'
<1> DEFINE op == Decoded(decode_op)
<1>1. decode_op \in Op
  BY DEF Decode, OpOrNull, TypeInv, TypeOK
<1>2. op \in Op /\ op.ins = decode_op.ins
  BY <1>1, DecodedType
<1>3. op.ins.kind \in {"branch", "jump"} /\ op.ins.dst # NoReg
        => op.reg_dst_value_ready
  BY <1>1, <1>2 DEF Decoded, Op
<1>4. \/ execute_op' = op
      \/ DecodeUnknown(op) \/ DecodeConditional(op) \/ DecodeJump(op)
  BY DEF Decode
<1> HIDE DEF op
<1>5. execute_op'.ins = op.ins
      /\ execute_op'.reg_dst_value_ready = op.reg_dst_value_ready
  BY <1>2, <1>4 DEF DecodeUnknown, DecodeConditional, DecodeJump, Op
<1>6. UNCHANGED <<dataReq, fetchReqs, fetch_op, mem_op, wb_op>>
  BY DEF Decode, memory
<1>7. QED
  BY <1>3, <1>5, <1>6
     DEF BackInv, NoLostRequest, WbValueReady, ValuesReady, Answered

\* pipeStageFetch marks a fetch issued only when it is in flight.
LEMMA BackFetch ==
  ASSUME TypeInv, BackInv, FetchRetried \/ FetchStarted
  PROVE  BackInv'
<1> USE DEF BackInv, NoLostRequest, WbValueReady, ValuesReady, Answered
<1>1. fetchReqs \in [Word -> 0 .. FetchCap]
  BY DEF TypeInv, TypeOK
<1>2. ASSUME NEW a \in Word, OfferFetch(a, TRUE)
      PROVE  fetchReqs'[a] > 0
  BY <1>1, <1>2 DEF OfferFetch
<1>3. ASSUME NEW accepted \in BOOLEAN, FetchRetry(accepted)
      PROVE  BackInv'
  <2>1. fetch_op \in Op
    BY <1>3 DEF FetchRetry, OpOrNull, TypeInv, TypeOK
  <2>2. /\ fetch_op'.pc = fetch_op.pc /\ fetch_op.pc \in Word
        /\ fetch_op'.isFetchIssued = accepted
    BY <1>3, <2>1 DEF FetchRetry, Op
  <2>3. accepted => OfferFetch(fetch_op.pc, TRUE)
    BY <1>3 DEF FetchRetry
  <2>4. QED
    BY <1>2, <1>3, <2>2, <2>3 DEF FetchRetry
<1>4. ASSUME NEW accepted \in BOOLEAN, FetchNext(accepted)
      PROVE  BackInv'
  <2>1. PC \in Word /\ fetch_op' = NewOp(PC, accepted)
    BY <1>4 DEF FetchNext, TypeInv, TypeOK
  <2>2. fetch_op'.pc = PC /\ fetch_op'.isFetchIssued = accepted
    BY <2>1 DEF NewOp
  <2>3. accepted => OfferFetch(PC, TRUE)
    BY <1>4 DEF FetchNext
  <2>4. QED
    BY <1>2, <1>4, <2>1, <2>2, <2>3 DEF FetchNext
<1>5. QED
  BY <1>3, <1>4 DEF FetchRetried, FetchStarted

\* Every step preserves BackInv.
LEMMA BackStep == TypeInv /\ FrontInv /\ BackInv /\ [Next]_vars => BackInv'
<1> SUFFICES ASSUME TypeInv, FrontInv, BackInv, [Next]_vars
             PROVE  BackInv'
  OBVIOUS
<1>1. CASE UNCHANGED <<ops, dataReq, fetchReqs>>
  BY <1>1 DEF ops, BackInv, NoLostRequest, WbValueReady, ValuesReady, Answered
<1>2. CASE WbRetire \/ Recover
  BY <1>2 DEF WbRetire, Recover, memory, BackInv, NoLostRequest, WbValueReady,
              ValuesReady, Answered
<1>3. QED
  BY <1>1, <1>2, BackTick, BackMem, BackExecute, BackDecode, BackFetch
     DEF Next, Memory, Cycle, Halted, vars, memory, ops, EndTick, WbEmpty,
         MemEmpty, MemWait, ExecuteStall, DecodeStall, FetchStall, NoRecover,
         FrontInv

-------------------------------------------------------------------------------
(* The theorems.                                                             *)

PipeInv == TypeInv /\ FrontInv /\ BackInv

\* The three invariants together are inductive.
LEMMA PipeInvHolds == Spec => []PipeInv
<1>1. Init => PipeInv
  BY TypeInit, FrontInit, BackInit DEF PipeInv
<1>2. PipeInv /\ [Next]_vars => PipeInv'
  BY TypeStep, FrontStep, BackStep DEF PipeInv
<1>3. QED
  BY <1>1, <1>2, PTL DEF Spec

\* pipeStageDecode never reads fetch_op->pc through a null pointer.
THEOREM DecodeSafe == Spec => []DecodeHasSuccessor
<1>1. PipeInv => DecodeHasSuccessor
  BY DEF PipeInv, FrontInv
<1>2. QED
  BY <1>1, PipeInvHolds, PTL

\* No flush, stale answer or refusal gives an op another address's instruction.
THEOREM InstructionsOwn == Spec => []OwnInstruction
<1>1. PipeInv => OwnInstruction
  BY DEF PipeInv, FrontInv
<1>2. QED
  BY <1>1, PipeInvHolds, PTL

\* An op that waits for an answer has a request that will bring it.
THEOREM RequestsKept == Spec => []NoLostRequest
<1>1. PipeInv => NoLostRequest
  BY DEF PipeInv, BackInv
<1>2. QED
  BY <1>1, PipeInvHolds, PTL

\* The value forwarded from, or written by, the write-back stage exists.
THEOREM ForwardedExists == Spec => []WbValueReady
<1>1. PipeInv => WbValueReady
  BY DEF PipeInv, BackInv
<1>2. QED
  BY <1>1, PipeInvHolds, PTL

-------------------------------------------------------------------------------
(***************************************************************************)
(* The pipeline implements the instruction set, for every program and all  *)
(* values of the constants: THEOREM Refinement.  Beside PipeInv it takes   *)
(* what each stage relies on of the others: where in the cycle an op and a *)
(* recovery can be (StageInv), what an op carries (OpsInv), that the path  *)
(* fetched is that of the instructions on it up to a recovery scheduled    *)
(* (PathInv), and that operands and results are the architectural ones     *)
(* although registers are written later (ValueInv).                        *)
(***************************************************************************)

StageInv ==
  /\ stage = "mem" => wb_op = NULL
  /\ branch_recover => stage \in {"dec", "fetch", "recover"}
  /\ branch_flush = "FLUSH_DECODE" =>
       stage \in {"fetch", "recover"} /\ execute_op # NULL
  /\ branch_flush = "FLUSH_EXECUTE" => mem_op # NULL /\ IsBranch(mem_op.ins)
  /\ wb_op # NULL /\ mem_op # NULL => ~mem_op.memTried
  /\ ~RUN_BIT => stage = "tick"
  /\ mem_op # NULL /\ mem_op.waitOnPktIssue => ~mem_op.readyForNextStage
  /\ REGS[0] = 0

\* Neither fetch nor memset gives an op a destination or a value.
Blank(op) == ~op.branch_taken /\ op.branch_dest = 0 /\ op.reg_dst_value = 0

\* What decode leaves in an op.
AfterDecode(op) ==
  /\ op.branch_taken = (op.ins.kind = "jump")
  /\ op.branch_dest = IF op.ins.kind = "branch" THEN Target(op.ins, op.pc, 0) ELSE 0
  /\ op.reg_dst_value = IF op.ins.kind \in {"branch", "jump"} /\ op.ins.dst # NoReg
                        THEN NextPC(op.pc) ELSE 0

OpsInv ==
  /\ fetch_op # NULL => Blank(fetch_op)
  /\ decode_op # NULL => Blank(decode_op)
  /\ execute_op # NULL => AfterDecode(execute_op)

\* No stage takes the front end anywhere but to the next instruction: neither a
\* branch's destination nor the predictor is looked at.
Straight(i, pc) ==
  ~IsBranch(i) \/ (i.kind = "branch" /\ Target(i, pc, 0) = 0)

BranchesInv ==
  \A i \in BTBSlots : BTB[i].valid =>
    /\ ~Straight(prog[BTB[i].PC], BTB[i].PC)
    /\ prog[BTB[i].PC].kind = "jump" =>
         BTB[i].target = Target(prog[BTB[i].PC], BTB[i].PC, 0)

\* The PC that follows the op in execute_op, with decode's recovery applied.
Followed ==
  IF branch_flush = "FLUSH_DECODE" THEN branch_dest ELSE FollowedPC

\* The PC that follows the op in mem_op, with any recovery applied.
MemFollowed ==
  IF branch_flush = "FLUSH_EXECUTE" THEN branch_dest
  ELSE IF execute_op # NULL THEN execute_op.pc ELSE Followed

\* Where an op whose operands are known may go: anywhere if the destination is
\* 0, which Execute takes for "no destination".
GoesTo(op) ==
  LET a == op.reg_src1_value
      dest == Target(op.ins, op.pc, a)
  IN IF ~Taken(op.ins, a, op.reg_src2_value) THEN {NextPC(op.pc)}
     ELSE IF dest = 0 THEN Word ELSE {dest}

FrontPath ==
  /\ fetch_op # NULL /\ Straight(prog[fetch_op.pc], fetch_op.pc) =>
       PC = NextPC(fetch_op.pc)
  /\ decode_op # NULL /\ Straight(decode_op.ins, decode_op.pc) =>
       fetch_op.pc = NextPC(decode_op.pc)

ExecutePath ==
  execute_op # NULL /\ branch_flush # "FLUSH_EXECUTE" =>
    /\ Straight(execute_op.ins, execute_op.pc) => Followed = NextPC(execute_op.pc)
    /\ execute_op.ins.kind = "jump" /\ Target(execute_op.ins, execute_op.pc, 0) # 0 =>
         Followed = Target(execute_op.ins, execute_op.pc, 0)

MemPath == mem_op # NULL => MemFollowed \in GoesTo(mem_op)

PathInv == BranchesInv /\ (RUN_BIT => FrontPath /\ ExecutePath /\ MemPath)

\* The op in mem_op has the operands the instructions before it have left, and
\* the result its instruction computes from them.
OperandsKept(op) ==
  /\ op.reg_src1_value = Operand(RegsAfterWb, op.ins.src1)
  /\ ~IsStore(op.ins) => op.reg_src2_value = Operand(RegsAfterWb, op.ins.src2)

ResultKept(op) ==
  LET a == op.reg_src1_value
      b == op.reg_src2_value
  IN /\ ~IsMem(op.ins) /\ op.ins.dst \notin {NoReg, 0} =>
          op.reg_dst_value = Result(op.ins, op.pc, a, b, oldHILO)
     /\ HILO = HiLoAfter(op.ins, a, b, oldHILO)
     /\ IsMem(op.ins) => op.mem_addr = Effective(op.ins, a)

ValueInv ==
  /\ MemPending => OperandsKept(mem_op)
  /\ mem_op # NULL => ResultKept(mem_op)
  /\ dataReq # NULL /\ dataReq.write =>
       dataReq.value = Operand(REGS, mem_op.ins.src2)

RefInv == StageInv /\ OpsInv /\ PathInv /\ ValueInv

-------------------------------------------------------------------------------
(* StageInv.                                                                 *)

\* The ops and the register file have their types.
LEMMA OpTypes ==
  ASSUME TypeInv
  PROVE  /\ fetch_op # NULL => fetch_op \in Op
         /\ decode_op # NULL => decode_op \in Op
         /\ execute_op # NULL => execute_op \in Op
         /\ mem_op # NULL => mem_op \in Op
         /\ wb_op # NULL => wb_op \in Op
BY DEF TypeInv, TypeOK, OpOrNull

\* Nothing is in the pipeline at the start.
LEMMA StageInit == Init => StageInv
BY MIPSAssumption DEF Init, StageInv, branch_recover, Regs

\* An answer changes only what its op is waiting for.
LEMMA AnswerKeeps ==
  ASSUME TypeInv, LoadResp \/ StoreResp
  PROVE  /\ mem_op \in Op /\ mem_op # NULL /\ mem_op' \in Op /\ mem_op' # NULL
         /\ mem_op'.pc = mem_op.pc /\ mem_op'.ins = mem_op.ins
         /\ mem_op'.reg_src1_value = mem_op.reg_src1_value
         /\ mem_op'.reg_src2_value = mem_op.reg_src2_value
         /\ mem_op'.mem_addr = mem_op.mem_addr
         /\ mem_op'.memTried /\ mem_op.memTried
         /\ ~mem_op'.waitOnPktIssue /\ ~mem_op.readyForNextStage
         /\ mem_op'.readyForNextStage
         /\ IsMem(mem_op.ins) /\ dataReq.addr = mem_op.mem_addr
         /\ dataReq # NULL /\ dataReq.write = IsStore(mem_op.ins)
<1>1. /\ mem_op \in Op /\ mem_op # NULL /\ dataReq # NULL
      /\ mem_op.memTried /\ ~mem_op.waitOnPktIssue /\ ~mem_op.readyForNextStage
      /\ IsMem(mem_op.ins) /\ dataReq.addr = mem_op.mem_addr
      /\ dataReq.write = IsStore(mem_op.ins)
  BY OpTypes DEF LoadResp, StoreResp, TypeInv, DataAnswerHasOwner
<1>2. mem \in [Word -> Word] /\ dataReq \in DataRequest
  BY <1>1 DEF TypeInv, TypeOK
<1>3. mem[dataReq.addr] \in Word
  BY <1>2 DEF DataRequest
<1>4. CASE LoadResp
  <2>1. mem_op' = [mem_op EXCEPT !.reg_dst_value = mem[dataReq.addr],
                                 !.reg_dst_value_ready = TRUE,
                                 !.readyForNextStage = TRUE]
    BY <1>1, <1>4 DEF LoadResp
  <2>2. mem_op' \in Op
    BY <1>1, <1>3, <2>1 DEF Op
  <2>3. QED
    BY <1>1, <2>1, <2>2, NullAssumption DEF Op
<1>5. CASE StoreResp
  <2>1. mem_op' = [mem_op EXCEPT !.readyForNextStage = TRUE]
    BY <1>5 DEF StoreResp
  <2>2. mem_op' \in Op
    BY <1>1, <2>1 DEF Op
  <2>3. QED
    BY <1>1, <2>1, <2>2, NullAssumption DEF Op
<1>6. QED
  BY <1>4, <1>5

\* A request handed out, or refused, leaves the op where it is.
LEMMA IssueKeeps ==
  ASSUME TypeInv, NEW accepted \in BOOLEAN, MemIssue(accepted)
  PROVE  /\ mem_op \in Op /\ mem_op # NULL /\ mem_op' \in Op /\ mem_op' # NULL
         /\ mem_op'.pc = mem_op.pc /\ mem_op'.ins = mem_op.ins
         /\ mem_op'.reg_src1_value = mem_op.reg_src1_value
         /\ ~IsStore(mem_op.ins) => mem_op'.reg_src2_value = mem_op.reg_src2_value
         /\ mem_op'.mem_addr = mem_op.mem_addr
         /\ mem_op'.reg_dst_value = mem_op.reg_dst_value
         /\ IsMem(mem_op.ins)
         /\ ~mem_op'.readyForNextStage
         /\ ~mem_op.memTried \/ mem_op.waitOnPktIssue
<1>1. mem_op \in Op /\ mem_op # NULL
  BY OpTypes DEF MemIssue
<1>2. IsStore(mem_op.ins) => REGS[mem_op.ins.src2] \in Word
  BY <1>1 DEF TypeInv, TypeOK, Op, Instruction, IsStore
<1>3. mem_op' = [mem_op EXCEPT !.memTried = TRUE, !.waitOnPktIssue = ~accepted,
                               !.readyForNextStage = FALSE,
                               !.reg_src2_value =
                                 IF IsStore(mem_op.ins)
                                 THEN REGS[mem_op.ins.src2] ELSE @]
  BY <1>1 DEF MemIssue, Op
<1>4. mem_op' \in Op
  BY <1>1, <1>2, <1>3 DEF Op
<1>5. QED
  BY <1>1, <1>3, <1>4, NullAssumption DEF MemIssue, Op

\* What pipeStageExecute and pipeStageDecode hand on is the op they took, which
\* the data cache has not been offered.
LEMMA ExecuteKeeps ==
  ASSUME TypeInv, FreshOps, Execute
  PROVE  /\ execute_op \in Op /\ execute_op # NULL /\ mem_op = NULL
         /\ mem_op' = Executed(execute_op) /\ mem_op' \in Op /\ mem_op' # NULL
         /\ mem_op'.pc = execute_op.pc /\ mem_op'.ins = execute_op.ins
         /\ ~mem_op'.memTried /\ ~mem_op'.waitOnPktIssue
<1>1. execute_op \in Op /\ execute_op # NULL /\ mem_op = NULL
  BY OpTypes DEF Execute, CanExecute
<1>2. ~execute_op.memTried /\ ~execute_op.waitOnPktIssue
  BY <1>1 DEF FreshOps
<1>3. mem_op' = Executed(execute_op)
  BY DEF Execute
<1>4. QED
  BY <1>1, <1>2, <1>3, ExecutedType, NullAssumption DEF TypeInv

\* Decode takes the op in decode_op, which is one, to the empty execute_op.
LEMMA DecodeKeeps ==
  ASSUME TypeInv, Decode
  PROVE  /\ decode_op \in Op /\ decode_op # NULL /\ execute_op = NULL
         /\ execute_op' \in Op /\ execute_op' # NULL
         /\ execute_op'.pc = decode_op.pc /\ execute_op'.ins = decode_op.ins
<1> DEFINE op == Decoded(decode_op)
<1>1. decode_op \in Op /\ decode_op # NULL /\ execute_op = NULL
  BY OpTypes DEF Decode
<1>2. op \in Op /\ op.ins = decode_op.ins /\ op.pc = decode_op.pc
  BY <1>1, DecodedType
<1>3. \/ execute_op' = op
      \/ DecodeUnknown(op) \/ DecodeConditional(op) \/ DecodeJump(op)
  BY DEF Decode
<1> HIDE DEF op
<1>4. execute_op' = op \/ execute_op' = [op EXCEPT !.branch_dest = 0]
  BY <1>3 DEF DecodeUnknown, DecodeConditional, DecodeJump
<1>5. execute_op' \in Op /\ execute_op'.ins = op.ins /\ execute_op'.pc = op.pc
  BY <1>2, <1>4, ZeroIsWord DEF Op
<1>6. QED
  BY <1>1, <1>2, <1>5, NullAssumption

\* Every step preserves StageInv.
LEMMA StageStep == TypeInv /\ FrontInv /\ StageInv /\ [Next]_vars => StageInv'
<1> SUFFICES ASSUME TypeInv, FrontInv, StageInv, [Next]_vars
             PROVE  StageInv'
  OBVIOUS
<1> USE DEF StageInv, branch_recover
<1>1. CASE UNCHANGED vars
  BY <1>1 DEF vars, arch, ops, recovery
<1>2. CASE LoadResp \/ StoreResp
  <2>1. UNCHANGED <<REGS, RUN_BIT, execute_op, wb_op, branch_flush, stage>>
    BY <1>2 DEF LoadResp, StoreResp, arch, recovery
  <2>2. QED
    BY <1>2, <2>1, AnswerKeeps
<1>3. ASSUME NEW a \in Word, FetchResp(a)
      PROVE  StageInv'
  BY <1>3 DEF FetchResp, arch, recovery
<1>4. CASE EndTick \/ WbEmpty \/ MemEmpty \/ MemWait \/ ExecuteStall \/ DecodeStall
           \/ FetchStall \/ NoRecover
  <2>1. UNCHANGED <<REGS, RUN_BIT, execute_op, mem_op, wb_op, branch_flush>>
    BY <1>4 DEF EndTick, WbEmpty, MemEmpty, MemWait, ExecuteStall, DecodeStall,
                FetchStall, NoRecover, arch, ops, recovery
  <2>2. QED
    BY <1>4, <2>1 DEF EndTick, WbEmpty, MemEmpty, MemWait, ExecuteStall,
                      DecodeStall, FetchStall, NoRecover
<1>5. CASE WbRetire
  <2>1. wb_op \in Op /\ REGS \in [Regs -> Word] /\ 0 \in Regs
    BY <1>5, OpTypes, MIPSAssumption DEF WbRetire, TypeInv, TypeOK, Regs
  <2>2. REGS'[0] = 0
    BY <1>5, <2>1 DEF WbRetire, Written
  <2>3. /\ wb_op' = NULL /\ stage = "wb"
        /\ UNCHANGED <<execute_op, mem_op, branch_flush>>
        /\ stage' \in {"tick", "mem"}
        /\ ~RUN_BIT' => stage' = "tick"
    BY <1>5 DEF WbRetire, recovery
  <2>4. QED
    BY <2>2, <2>3
<1>6. CASE MemDone
  <2>1. mem_op' = NULL /\ stage = "mem" /\ stage' = "ex"
        /\ UNCHANGED <<REGS, RUN_BIT, execute_op, branch_flush>>
    BY <1>6 DEF MemDone, arch, recovery
  <2>2. QED
    BY <2>1 DEF Flushes, TypeInv, TypeOK
<1>7. ASSUME NEW accepted \in BOOLEAN, MemIssue(accepted)
      PROVE  StageInv'
  <2>1. stage = "mem" /\ stage' = "ex"
        /\ UNCHANGED <<REGS, RUN_BIT, execute_op, wb_op, branch_flush>>
    BY <1>7 DEF MemIssue, arch, recovery
  <2>2. QED
    BY <1>7, <2>1, IssueKeeps
<1>8. CASE Execute
  <2> DEFINE op == Executed(execute_op)
  <2>1. /\ stage = "ex" /\ stage' = "dec" /\ execute_op' = NULL
        /\ UNCHANGED <<REGS, RUN_BIT, wb_op>>
    BY <1>8 DEF Execute
  <2>2. /\ mem_op' # NULL /\ ~mem_op'.memTried /\ ~mem_op'.waitOnPktIssue
        /\ mem_op' = op
    BY <1>8, ExecuteKeeps DEF FrontInv
  <2>3. UNCHANGED branch_flush \/ (IsBranch(op.ins) /\ branch_flush' = "FLUSH_EXECUTE")
    BY <1>8 DEF Execute, pipeRecover, recovery
  <2> HIDE DEF op
  <2>4. QED
    BY <2>1, <2>2, <2>3
<1>9. CASE Decode
  <2> DEFINE op == Decoded(decode_op)
  <2>1. /\ stage = "dec" /\ stage' = "fetch" /\ execute_op' # NULL
        /\ UNCHANGED <<REGS, RUN_BIT, mem_op, wb_op>>
    BY <1>9, DecodeKeeps DEF Decode, arch
  <2>2. UNCHANGED recovery \/ DecodeUnknown(op) \/ DecodeConditional(op) \/ DecodeJump(op)
    BY <1>9 DEF Decode
  <2> HIDE DEF op
  <2>3. UNCHANGED branch_flush \/ branch_flush' = "FLUSH_DECODE"
    BY <2>2 DEF DecodeUnknown, DecodeConditional, DecodeJump, pipeRecover, recovery
  <2>4. QED
    BY <2>1, <2>3
<1>10. CASE FetchRetried \/ FetchStarted
  <2>1. stage = "fetch" /\ stage' = "recover"
        /\ UNCHANGED <<REGS, RUN_BIT, execute_op, mem_op, wb_op, branch_flush>>
    BY <1>10 DEF FetchRetried, FetchStarted, FetchRetry, FetchNext, arch, recovery
  <2>2. QED
    BY <2>1
<1>11. CASE Recover
  BY <1>11 DEF Recover
<1>12. QED
  BY <1>1, <1>2, <1>3, <1>4, <1>5, <1>6, <1>7, <1>8, <1>9, <1>10, <1>11
     DEF Next, Memory, Cycle, Halted, MemIssued

-------------------------------------------------------------------------------
(* OpsInv and BranchesInv.                                                        *)

\* No op, and no entry in the BTB, at the start.
LEMMA OpsInit == Init => OpsInv /\ BranchesInv
BY DEF Init, BPInit, OpsInv, BranchesInv

\* The decode switch on the op that fetch has handed on.
LEMMA DecodedBlank ==
  ASSUME NEW op \in Op, Blank(op)
  PROVE  LET d == Decoded(op)
         IN /\ d.branch_taken = (op.ins.kind = "jump")
            /\ d.branch_dest = IF op.ins.kind \in {"branch", "jump"}
                               THEN Target(op.ins, op.pc, 0) ELSE 0
            /\ d.reg_dst_value =
                 IF op.ins.kind \in {"branch", "jump"} /\ op.ins.dst # NoReg
                 THEN NextPC(op.pc) ELSE 0
BY DEF Blank, Decoded, Op

\* After decode only a conditional branch has a destination to be checked.
LEMMA DecodeLeaves ==
  ASSUME TypeInv, OpsInv, Decode
  PROVE  AfterDecode(execute_op')
<1> DEFINE op == Decoded(decode_op)
<1>1. decode_op \in Op /\ Blank(decode_op)
  BY DecodeKeeps DEF OpsInv
<1>2. /\ op \in Op /\ op.ins = decode_op.ins /\ op.pc = decode_op.pc
      /\ op.branch_taken = (op.ins.kind = "jump")
      /\ op.branch_dest = IF op.ins.kind \in {"branch", "jump"}
                          THEN Target(op.ins, op.pc, 0) ELSE 0
      /\ op.reg_dst_value = IF op.ins.kind \in {"branch", "jump"} /\ op.ins.dst # NoReg
                            THEN NextPC(op.pc) ELSE 0
  BY <1>1, DecodedType, DecodedBlank
<1>3. \/ ~IsBranch(op.ins) /\ execute_op' = op
      \/ op.branch_dest = 0 /\ execute_op' = op
      \/ op.ins.kind = "branch" /\ execute_op' = op
      \/ op.ins.kind # "branch" /\ execute_op' = [op EXCEPT !.branch_dest = 0]
  BY DEF Decode, DecodeUnknown, DecodeConditional, DecodeJump
<1> HIDE DEF op
<1>4. CASE execute_op' = op
  BY <1>2, <1>3, <1>4 DEF AfterDecode, IsBranch, Op
<1>5. CASE op.ins.kind # "branch" /\ execute_op' = [op EXCEPT !.branch_dest = 0]
  BY <1>2, <1>5 DEF AfterDecode, Op
<1>6. QED
  BY <1>3, <1>4, <1>5

\* Every step preserves OpsInv.
LEMMA OpsStep == TypeInv /\ OpsInv /\ [Next]_vars => OpsInv'
<1> SUFFICES ASSUME TypeInv, OpsInv, [Next]_vars
             PROVE  OpsInv'
  OBVIOUS
<1>1. CASE UNCHANGED <<fetch_op, decode_op, execute_op>>
  BY <1>1 DEF OpsInv
<1>2. ASSUME NEW a \in Word, FetchResp(a)
      PROVE  OpsInv'
  <2>1. CASE fetch_op # NULL /\ fetch_op.pc = a
    <3>1. fetch_op \in Op
      BY <2>1, OpTypes
    <3>2. Blank(fetch_op')
      BY <1>2, <2>1, <3>1 DEF FetchResp, OpsInv, Blank, Op
    <3>3. QED
      BY <1>2, <3>2 DEF FetchResp, OpsInv
  <2>2. CASE ~(fetch_op # NULL /\ fetch_op.pc = a)
    BY <1>2, <2>2 DEF FetchResp, OpsInv
  <2>3. QED
    BY <2>1, <2>2
<1>3. CASE Execute
  BY <1>3 DEF Execute, OpsInv
<1>4. CASE Decode
  BY <1>4, DecodeLeaves DEF Decode, OpsInv
<1>5. ASSUME NEW accepted \in BOOLEAN, FetchRetry(accepted)
      PROVE  OpsInv'
  <2>1. fetch_op \in Op /\ fetch_op # NULL
    BY <1>5, OpTypes DEF FetchRetry
  <2>2. Blank(fetch_op')
    BY <1>5, <2>1 DEF FetchRetry, OpsInv, Blank, Op
  <2>3. QED
    BY <1>5, <2>2 DEF FetchRetry, OpsInv
<1>6. ASSUME NEW accepted \in BOOLEAN, FetchNext(accepted)
      PROVE  OpsInv'
  <2>1. Blank(fetch_op')
    BY <1>6 DEF FetchNext, NewOp, Blank
  <2>2. QED
    BY <1>6, <2>1 DEF FetchNext, OpsInv
<1>7. CASE Recover
  BY <1>7 DEF Recover, OpsInv
<1>8. QED
  BY <1>1, <1>2, <1>3, <1>4, <1>5, <1>6, <1>7
     DEF Next, Memory, Cycle, Halted, vars, ops, LoadResp, StoreResp, EndTick,
         WbEmpty, WbRetire, MemEmpty, MemDone, MemIssued, MemIssue, MemWait,
         ExecuteStall, DecodeStall, FetchStall, FetchRetried, FetchStarted,
         NoRecover

\* An update with a PC that is not straight keeps the BTB to such PCs.
LEMMA UpdateBranch ==
  ASSUME TypeOK, BranchesInv, NEW pc \in Word, NEW taken \in BOOLEAN, NEW target \in Word,
         ~Straight(prog[pc], pc),
         prog[pc].kind = "jump" => target = Target(prog[pc], pc, 0),
         update(pc, taken, target), prog' = prog
  PROVE  BranchesInv'
<1> DEFINE usable == IF Matching(pc) = {} /\ taken THEN Free ELSE Matching(pc)
           f == First(usable)
<1>1. usable \in SUBSET BTBSlots
  BY DEF Matching, Free
<1>2. BTB' = IF usable = {} THEN BTB
             ELSE IF taken
             THEN [BTB EXCEPT ![f] = [PC |-> pc, target |-> target, valid |-> TRUE]]
             ELSE [BTB EXCEPT ![f].valid = FALSE]
  BY DEF update
<1>3. BTB \in [BTBSlots -> BTBEntry]
  BY DEF TypeOK
<1> HIDE DEF usable, f
<1>4. ASSUME NEW i \in BTBSlots, BTB'[i].valid
      PROVE  \/ BTB'[i].PC = pc /\ BTB'[i].target = target
             \/ BTB[i].valid /\ BTB'[i] = BTB[i]
  <2>1. BTB[i] \in BTBEntry
    BY <1>3
  <2>2. CASE usable = {}
    BY <1>2, <1>4, <2>2
  <2>3. CASE usable # {} /\ taken
    <3>1. BTB' = [BTB EXCEPT ![f] = [PC |-> pc, target |-> target, valid |-> TRUE]]
      BY <1>2, <2>3
    <3>2. QED
      BY <1>3, <1>4, <3>1
  <2>4. CASE usable # {} /\ ~taken
    <3>1. BTB' = [BTB EXCEPT ![f].valid = FALSE]
      BY <1>2, <2>4
    <3>2. i # f
      BY <1>3, <1>4, <2>1, <3>1 DEF BTBEntry
    <3>3. QED
      BY <1>3, <1>4, <3>1, <3>2
  <2>5. QED
    BY <2>2, <2>3, <2>4
<1>5. QED
  BY <1>4 DEF BranchesInv, Straight

\* Every step preserves BranchesInv: Execute updates it for the branches it checks,
\* Decode for jumps.
LEMMA BTBStep ==
  TypeInv /\ FrontInv /\ OpsInv /\ BranchesInv /\ [Next]_vars => BranchesInv'
<1> SUFFICES ASSUME TypeInv, FrontInv, OpsInv, BranchesInv, [Next]_vars
             PROVE  BranchesInv'
  OBVIOUS
<1>1. CASE UNCHANGED <<prog, BTB>>
  BY <1>1 DEF BranchesInv, Straight
<1>2. CASE Execute
  <2> DEFINE op == Executed(execute_op)
             target == IF op.branch_taken THEN op.branch_dest ELSE NextPC(op.pc)
  <2>1. execute_op \in Op /\ execute_op # NULL /\ AfterDecode(execute_op)
    BY <1>2, ExecuteKeeps DEF FrontInv, OpsInv
  <2>2. op \in Op /\ op.ins = execute_op.ins /\ op.pc = execute_op.pc
    BY <2>1, ExecutedType DEF TypeInv
  <2>3. op.branch_dest = IF execute_op.ins.kind = "jumpreg"
                         THEN RegisterValue(execute_op.ins.src1)
                         ELSE execute_op.branch_dest
    BY <2>1 DEF Executed, Op
  <2>4. op.ins = prog[op.pc]
    BY <2>1, <2>2 DEF FrontInv, OwnInstruction
  <2>5. /\ UNCHANGED prog
        /\ UNCHANGED BTB \/ (/\ IsBranch(op.ins) /\ op.branch_dest # 0
                             /\ update(op.pc, op.branch_taken, target))
    BY <1>2 DEF Execute, memory
  <2>6. IsBranch(op.ins) /\ op.branch_dest # 0 =>
          ~Straight(op.ins, op.pc) /\ op.ins.kind # "jump"
    BY <2>1, <2>2, <2>3 DEF AfterDecode, Straight, IsBranch
  <2> HIDE DEF op
  <2>7. op.pc \in Word /\ op.branch_taken \in BOOLEAN /\ target \in Word
    BY <2>2, NextPCType DEF Op
  <2> HIDE DEF target
  <2>8. QED
    BY <1>1, <2>4, <2>5, <2>6, <2>7, UpdateBranch DEF TypeInv
<1>3. CASE Decode
  <2> DEFINE op == Decoded(decode_op)
  <2>1. decode_op \in Op /\ decode_op # NULL /\ Blank(decode_op)
    BY <1>3, DecodeKeeps DEF OpsInv
  <2>2. /\ op \in Op /\ op.ins = decode_op.ins /\ op.pc = decode_op.pc
        /\ op.branch_dest = IF op.ins.kind \in {"branch", "jump"}
                            THEN Target(op.ins, op.pc, 0) ELSE 0
    BY <2>1, DecodedType, DecodedBlank
  <2>3. op.ins = prog[op.pc]
    BY <2>1, <2>2 DEF FrontInv, OwnInstruction
  <2>4. /\ UNCHANGED prog
        /\ UNCHANGED BTB \/ (/\ IsBranch(op.ins) /\ op.branch_dest # 0
                             /\ op.ins.kind # "branch"
                             /\ update(op.pc, TRUE, op.branch_dest))
    BY <1>3 DEF Decode, DecodeUnknown, DecodeConditional, DecodeJump, memory
  <2> HIDE DEF op
  <2>5. op.pc \in Word /\ op.branch_dest \in Word
    BY <2>2 DEF Op
  <2>6. IsBranch(op.ins) /\ op.branch_dest # 0 /\ op.ins.kind # "branch" =>
          ~Straight(op.ins, op.pc) /\ op.branch_dest = Target(op.ins, op.pc, 0)
    BY <2>2 DEF Straight, IsBranch
  <2>7. QED
    BY <1>1, <2>3, <2>4, <2>5, <2>6, UpdateBranch DEF TypeInv
<1>4. QED
  BY <1>1, <1>2, <1>3
     DEF Next, Memory, Cycle, Halted, vars, memory, bpVars, LoadResp, StoreResp,
         FetchResp, EndTick, WbEmpty, WbRetire, MemEmpty, MemDone, MemIssued,
         MemIssue, MemWait, ExecuteStall, DecodeStall, FetchStall, FetchRetried,
         FetchRetry, FetchStarted, FetchNext, NoRecover, Recover

-------------------------------------------------------------------------------
(* PathInv.                                                                  *)

\* The first fetch is of StartPC and nothing follows anything yet.
LEMMA PathInit == Init => PathInv
<1>1. Init => BranchesInv
  BY OpsInit
<1>2. QED
  BY <1>1 DEF Init, PathInv, FrontPath, ExecutePath, MemPath

\* RUN_BIT is never set again.
LEMMA StopsForGood == [Next]_vars /\ RUN_BIT' => RUN_BIT
BY DEF Next, Memory, Cycle, Halted, vars, arch, LoadResp, StoreResp, FetchResp,
       EndTick, WbEmpty, WbRetire, MemEmpty, MemDone, MemIssued, MemIssue,
       MemWait, ExecuteStall, Execute, DecodeStall, Decode, FetchStall,
       FetchRetried, FetchRetry, FetchStarted, FetchNext, NoRecover, Recover

\* An answer, or another try, leaves a fetch at its PC.
LEMMA FetchKeeps ==
  ASSUME TypeInv,
         (\E a \in Word : FetchResp(a)) \/ FetchRetried
  PROVE  /\ fetch_op' # NULL <=> fetch_op # NULL
         /\ fetch_op # NULL => fetch_op'.pc = fetch_op.pc
         /\ UNCHANGED <<prog, PC, decode_op, execute_op, mem_op, wb_op, branch_flush,
                        branch_dest, REGS, RUN_BIT>>
         /\ FollowedPC' = FollowedPC
<1>1. ASSUME NEW a \in Word, FetchResp(a)
      PROVE  /\ fetch_op' # NULL <=> fetch_op # NULL
             /\ fetch_op # NULL => fetch_op'.pc = fetch_op.pc
  <2>1. CASE fetch_op # NULL /\ fetch_op.pc = a
    <3>1. fetch_op \in Op /\ prog[a] \in Instruction
      BY <2>1, OpTypes DEF TypeInv, TypeOK
    <3>2. fetch_op' = [fetch_op EXCEPT !.ins = prog[a], !.readyForNextStage = TRUE]
      BY <1>1, <2>1 DEF FetchResp
    <3>3. fetch_op' \in Op /\ fetch_op'.pc = fetch_op.pc
      BY <3>1, <3>2 DEF Op
    <3>4. QED
      BY <2>1, <3>3, NullAssumption
  <2>2. CASE ~(fetch_op # NULL /\ fetch_op.pc = a)
    BY <1>1, <2>2 DEF FetchResp
  <2>3. QED
    BY <2>1, <2>2
<1>2. ASSUME NEW accepted \in BOOLEAN, FetchRetry(accepted)
      PROVE  /\ fetch_op' # NULL <=> fetch_op # NULL
             /\ fetch_op # NULL => fetch_op'.pc = fetch_op.pc
  <2>1. fetch_op \in Op /\ fetch_op # NULL
    BY <1>2, OpTypes DEF FetchRetry
  <2>2. fetch_op' \in Op /\ fetch_op'.pc = fetch_op.pc
    BY <1>2, <2>1 DEF FetchRetry, Op
  <2>3. QED
    BY <2>1, <2>2, NullAssumption
<1>3. /\ fetch_op' # NULL <=> fetch_op # NULL
      /\ fetch_op # NULL => fetch_op'.pc = fetch_op.pc
  BY <1>1, <1>2 DEF FetchRetried
<1>4. UNCHANGED <<prog, PC, decode_op, execute_op, mem_op, wb_op, branch_flush,
                  branch_dest, REGS, RUN_BIT>>
  BY DEF FetchResp, FetchRetried, FetchRetry, arch, recovery
<1>5. QED
  BY <1>3, <1>4 DEF FollowedPC

\* A new fetch leaves the path as it was: its PC was that of the next fetch.
LEMMA FetchNextKeeps ==
  ASSUME TypeInv, FetchStarted
  PROVE  /\ decode_op = NULL /\ decode_op' = fetch_op
         /\ fetch_op' # NULL /\ fetch_op'.pc = PC
         /\ UNCHANGED <<prog, execute_op, mem_op, wb_op, branch_flush, branch_dest,
                        REGS, RUN_BIT>>
         /\ FollowedPC' = FollowedPC
<1>1. PICK accepted \in BOOLEAN : FetchNext(accepted)
  BY DEF FetchStarted
<1>2. fetch_op' = NewOp(PC, accepted) /\ PC \in Word
  BY <1>1 DEF FetchNext, TypeInv, TypeOK
<1>3. fetch_op' # NULL /\ fetch_op'.pc = PC
  BY <1>2, NewOpType, NullAssumption DEF NewOp
<1>4. QED
  BY <1>1, <1>3 DEF FetchNext, FollowedPC, recovery

\* Fetch follows every op that is not a branch, or has no destination, with
\* the next instruction: the BTB has nothing for it.
LEMMA FrontPathStep ==
  ASSUME TypeInv, FrontInv, BranchesInv, RUN_BIT => FrontPath, [Next]_vars
  PROVE  RUN_BIT' => FrontPath'
<1> SUFFICES ASSUME FrontPath, RUN_BIT'
             PROVE  FrontPath'
  BY StopsForGood
<1> USE DEF FrontPath
<1>1. CASE UNCHANGED <<prog, PC, fetch_op, decode_op>>
  BY <1>1 DEF Straight
<1>2. CASE (\E a \in Word : FetchResp(a)) \/ FetchRetried
  BY <1>2, FetchKeeps DEF FrontInv, DecodeHasSuccessor, Straight
<1>3. CASE WbRetire
  BY <1>3 DEF WbRetire, memory, Straight
<1>4. CASE Decode
  BY <1>4 DEF Decode, memory, arch, Straight
<1>5. CASE FetchStarted
  <2>1. getTarget(PC) = NoTarget \/ ~Straight(prog[PC], PC)
    BY GetTargetEntry DEF BranchesInv
  <2>2. Straight(prog[PC], PC) => PC' = NextPC(PC)
    BY <1>5, <2>1 DEF FetchStarted, FetchNext
  <2>3. fetch_op # NULL => fetch_op.ins = prog[fetch_op.pc]
    BY <1>5 DEF FetchStarted, FetchNext, FrontInv, OwnInstruction
  <2>4. QED
    BY <1>5, <2>2, <2>3, FetchNextKeeps DEF Straight
<1>6. CASE Recover
  BY <1>6 DEF Recover
<1>7. QED
  BY <1>1, <1>2, <1>3, <1>4, <1>5, <1>6
     DEF Next, Memory, Cycle, Halted, vars, memory, arch, ops, LoadResp, StoreResp,
         EndTick, WbEmpty, MemEmpty, MemDone, MemIssued, MemIssue, MemWait,
         ExecuteStall, Execute, DecodeStall, FetchStall, NoRecover

\* Decode sends the front end to a jump's destination, and nowhere for an op
\* that is straight.
LEMMA DecodeFollows ==
  ASSUME TypeInv, FrontInv, StageInv, OpsInv, FrontPath, Decode,
         branch_flush # "FLUSH_EXECUTE"
  PROVE  /\ branch_flush = "NO_FLUSH" /\ branch_flush' \in {"NO_FLUSH", "FLUSH_DECODE"}
         /\ Straight(decode_op.ins, decode_op.pc) => Followed' = NextPC(decode_op.pc)
         /\ decode_op.ins.kind = "jump" /\ Target(decode_op.ins, decode_op.pc, 0) # 0 =>
              Followed' = Target(decode_op.ins, decode_op.pc, 0)
<1> DEFINE op == Decoded(decode_op)
<1>1. branch_flush = "NO_FLUSH" /\ ~branch_recover
  BY DEF Decode, StageInv, TypeInv, TypeOK, Flushes, branch_recover
<1>2. decode_op \in Op /\ decode_op # NULL /\ Blank(decode_op) /\ fetch_op # NULL
  BY DecodeKeeps DEF OpsInv, FrontInv, DecodeHasSuccessor
<1>3. /\ op.ins = decode_op.ins /\ op.pc = decode_op.pc
      /\ op.branch_dest = IF op.ins.kind \in {"branch", "jump"}
                          THEN Target(op.ins, op.pc, 0) ELSE 0
      /\ op.ins \in Instruction
  BY <1>2, DecodedType, DecodedBlank DEF Op
<1>4. decode_op' = NULL /\ UNCHANGED <<fetch_op, PC>>
  BY DEF Decode, arch
<1>5. FollowedPC' = fetch_op.pc
  BY <1>2, <1>4 DEF FollowedPC
<1>6. IF ~IsBranch(op.ins) THEN UNCHANGED recovery
      ELSE IF op.branch_dest = 0 THEN DecodeUnknown(op)
      ELSE IF op.ins.kind = "branch" THEN DecodeConditional(op)
      ELSE DecodeJump(op)
  BY DEF Decode
<1> HIDE DEF op
<1>7. UNCHANGED recovery \/ branch_flush' = "FLUSH_DECODE"
  BY <1>1, <1>6 DEF DecodeUnknown, DecodeConditional, DecodeJump, pipeRecover
<1>8. ASSUME Straight(op.ins, op.pc)
      PROVE  Followed' = NextPC(op.pc)
  <2>1. fetch_op.pc = NextPC(op.pc)
    BY <1>2, <1>3, <1>8 DEF FrontPath
  <2>2. ~IsBranch(op.ins) \/ (op.branch_dest = 0 /\ op.ins.kind = "branch")
    BY <1>3, <1>8 DEF Straight
  <2>3. op.ins.kind = "branch" => op.ins.fn # "jalr"
    BY <1>3 DEF Instruction
  <2>4. UNCHANGED recovery
    BY <1>6, <2>2, <2>3 DEF DecodeUnknown
  <2>5. QED
    BY <1>1, <1>5, <2>1, <2>4 DEF Followed, recovery
<1>9. ASSUME op.ins.kind = "jump", Target(op.ins, op.pc, 0) # 0
      PROVE  Followed' = Target(op.ins, op.pc, 0)
  <2>1. DecodeJump(op) /\ op.branch_dest = Target(op.ins, op.pc, 0)
    BY <1>3, <1>6, <1>9 DEF IsBranch
  <2>2. \/ fetch_op.pc = op.branch_dest /\ UNCHANGED recovery
        \/ branch_flush' = "FLUSH_DECODE" /\ branch_dest' = op.branch_dest
    BY <1>1, <2>1 DEF DecodeJump, pipeRecover
  <2>3. QED
    BY <1>1, <1>5, <2>1, <2>2 DEF Followed, recovery
<1>10. QED
  BY <1>1, <1>3, <1>7, <1>8, <1>9 DEF recovery

\* A recovery sends the front end where it was scheduled to.
LEMMA RecoverFollows ==
  ASSUME Recover
  PROVE  FollowedPC' = branch_dest /\ branch_flush' = "NO_FLUSH"
BY DEF Recover, FollowedPC

\* The front end follows the op in execute_op to the next instruction or to the
\* destination of its jump.
LEMMA ExecutePathStep ==
  ASSUME TypeInv, FrontInv, StageInv, OpsInv, [Next]_vars,
         RUN_BIT => FrontPath /\ ExecutePath
  PROVE  RUN_BIT' => ExecutePath'
<1> SUFFICES ASSUME FrontPath, ExecutePath, RUN_BIT'
             PROVE  ExecutePath'
  BY StopsForGood
<1>1. CASE UNCHANGED <<PC, fetch_op, decode_op, execute_op, branch_flush, branch_dest>>
  BY <1>1 DEF ExecutePath, Followed, FollowedPC
<1>2. CASE (\E a \in Word : FetchResp(a)) \/ FetchRetried
  BY <1>2, FetchKeeps DEF ExecutePath, Followed
<1>3. CASE WbRetire
  BY <1>3 DEF WbRetire, recovery, ExecutePath, Followed, FollowedPC
<1>4. CASE Execute
  BY <1>4 DEF Execute, ExecutePath
<1>5. CASE Decode
  <2>1. CASE branch_flush = "FLUSH_EXECUTE"
    <3>1. branch_flush' = branch_flush
      BY <1>5, <2>1 DEF Decode, DecodeUnknown, DecodeConditional, DecodeJump,
                        pipeRecover, branch_recover, recovery
    <3>2. QED
      BY <2>1, <3>1 DEF ExecutePath
  <2>2. CASE branch_flush # "FLUSH_EXECUTE"
    BY <1>5, <2>2, DecodeFollows, DecodeKeeps DEF ExecutePath
  <2>3. QED
    BY <2>1, <2>2
<1>6. CASE FetchStarted
  BY <1>6, FetchNextKeeps DEF ExecutePath, Followed
<1>7. CASE Recover
  <2>1. CASE branch_flush = "FLUSH_EXECUTE"
    BY <1>7, <2>1 DEF Recover, ExecutePath
  <2>2. CASE branch_flush = "FLUSH_DECODE"
    BY <1>7, <2>2, RecoverFollows DEF Recover, ExecutePath, Followed
  <2>3. QED
    BY <1>7, <2>1, <2>2 DEF Recover, branch_recover, TypeInv, TypeOK, Flushes
<1>8. QED
  BY <1>1, <1>2, <1>3, <1>4, <1>5, <1>6, <1>7
     DEF Next, Memory, Cycle, Halted, vars, memory, arch, ops, recovery, LoadResp,
         StoreResp, EndTick, WbEmpty, MemEmpty, MemDone, MemIssued, MemIssue,
         MemWait, ExecuteStall, DecodeStall, FetchStall, NoRecover

\* The arithmetic switch, field by field.
LEMMA ExecutedFields ==
  ASSUME NEW op \in Op
  PROVE  LET i == op.ins
             e == Executed(op)
             a == RegisterValue(i.src1)
             b == IF IsStore(i) THEN op.reg_src2_value ELSE RegisterValue(i.src2)
         IN /\ e.ins = i /\ e.pc = op.pc
            /\ e.reg_src1_value = a /\ e.reg_src2_value = b
            /\ e.mem_addr = IF IsMem(i) THEN Effective(i, a) ELSE 0
            /\ e.reg_dst_value = IF i.kind \in {"alu", "mfhilo", "jumpreg"}
                                 THEN Result(i, op.pc, a, b, HILO)
                                 ELSE op.reg_dst_value
            /\ e.branch_dest = IF i.kind = "jumpreg" THEN a ELSE op.branch_dest
            /\ e.branch_taken = (op.branch_taken \/ Taken(i, a, b))
BY DEF Executed, Op

\* Execute sends the front end to where its branch goes, unless it is there or
\* the branch has no destination.
LEMMA ExecuteFollows ==
  ASSUME TypeInv, FrontInv, StageInv, OpsInv, ExecutePath, Execute
  PROVE  MemFollowed' \in GoesTo(mem_op')
<1> DEFINE e == Executed(execute_op)
           i == execute_op.ins
           a == e.reg_src1_value
           b == e.reg_src2_value
           dest == Target(i, execute_op.pc, a)
           goal == IF e.branch_taken THEN e.branch_dest ELSE NextPC(e.pc)
<1>1. /\ execute_op \in Op /\ execute_op # NULL /\ AfterDecode(execute_op)
      /\ i \in Instruction /\ e \in Op
  BY ExecuteKeeps, ExecutedType DEF FrontInv, OpsInv, Op, TypeInv
<1>2. branch_flush = "NO_FLUSH" /\ ~branch_recover
  BY DEF Execute, StageInv, TypeInv, TypeOK, Flushes, branch_recover
<1>3. /\ e.ins = i /\ e.pc = execute_op.pc
      /\ e.branch_dest = IF i.kind = "jumpreg" THEN a ELSE execute_op.branch_dest
      /\ e.branch_taken = (execute_op.branch_taken \/ Taken(i, a, b))
  BY <1>1, ExecutedFields
<1>4. /\ mem_op' = e /\ execute_op' = NULL
      /\ IF IsBranch(e.ins) /\ e.branch_dest # 0
         THEN IF FollowedPC # goal THEN pipeRecover("FLUSH_EXECUTE", goal)
              ELSE UNCHANGED recovery
         ELSE UNCHANGED recovery
      /\ FollowedPC' = FollowedPC
  BY DEF Execute, FollowedPC
<1> HIDE DEF e
<1>5. /\ Straight(i, execute_op.pc) => FollowedPC = NextPC(execute_op.pc)
      /\ i.kind = "jump" /\ Target(i, execute_op.pc, 0) # 0 =>
           FollowedPC = Target(i, execute_op.pc, 0)
  BY <1>1, <1>2 DEF ExecutePath, Followed
<1>6. MemFollowed' = IF IsBranch(i) /\ e.branch_dest # 0 THEN goal ELSE FollowedPC
  <2>1. CASE IsBranch(i) /\ e.branch_dest # 0 /\ FollowedPC # goal
    BY <1>2, <1>3, <1>4, <2>1 DEF pipeRecover, MemFollowed
  <2>2. CASE ~(IsBranch(i) /\ e.branch_dest # 0 /\ FollowedPC # goal)
    <3>1. branch_flush' = "NO_FLUSH"
      BY <1>2, <1>3, <1>4, <2>2 DEF recovery
    <3>2. MemFollowed' = FollowedPC
      BY <1>4, <3>1 DEF MemFollowed, Followed
    <3>3. QED
      BY <2>2, <3>2
  <2>3. QED
    BY <2>1, <2>2
<1>7. GoesTo(mem_op') = IF ~Taken(i, a, b) THEN {NextPC(execute_op.pc)}
                        ELSE IF dest = 0 THEN Word ELSE {dest}
  BY <1>3, <1>4 DEF GoesTo
<1>8. FollowedPC \in Word
  BY OpTypes DEF FollowedPC, Op, TypeInv, TypeOK
<1>9. CASE ~IsBranch(i)
  BY <1>5, <1>6, <1>7, <1>9 DEF Straight, Taken, IsBranch
<1>10. CASE i.kind = "branch"
  <2>1. dest = Target(i, execute_op.pc, 0)
    BY <1>10 DEF Target
  <2>2. e.branch_dest = dest /\ (e.branch_taken <=> Taken(i, a, b)) /\ IsBranch(i)
    <3>1. ~execute_op.branch_taken
          /\ execute_op.branch_dest = Target(i, execute_op.pc, 0)
      BY <1>1, <1>10 DEF AfterDecode
    <3>2. QED
      BY <1>3, <1>10, <2>1, <3>1 DEF IsBranch
  <2> HIDE DEF dest
  <2>3. CASE dest = 0
    BY <1>5, <1>6, <1>7, <1>8, <1>10, <2>1, <2>2, <2>3 DEF Straight
  <2>4. CASE dest # 0
    BY <1>3, <1>6, <1>7, <2>2, <2>4
  <2>5. QED
    BY <2>3, <2>4
<1>11. CASE i.kind = "jump"
  <2>1. dest = Target(i, execute_op.pc, 0)
    BY <1>11 DEF Target
  <2>2. e.branch_dest = 0 /\ Taken(i, a, b)
    BY <1>1, <1>3, <1>11 DEF AfterDecode, Taken
  <2>3. QED
    BY <1>5, <1>6, <1>7, <1>8, <1>11, <2>1, <2>2
<1>12. CASE i.kind = "jumpreg"
  <2>1. dest = a
    BY <1>12 DEF Target
  <2>2. e.branch_dest = a /\ Taken(i, a, b) /\ e.branch_taken /\ IsBranch(i)
    BY <1>1, <1>3, <1>12 DEF Taken, IsBranch
  <2>3. QED
    BY <1>6, <1>7, <1>8, <2>1, <2>2
<1>13. QED
  BY <1>9, <1>10, <1>11, <1>12 DEF IsBranch

\* After the op in mem_op the pipeline holds, or will fetch, what follows it.
LEMMA MemPathStep ==
  ASSUME TypeInv, FrontInv, StageInv, OpsInv, [Next]_vars,
         RUN_BIT => FrontPath /\ ExecutePath /\ MemPath
  PROVE  RUN_BIT' => MemPath'
<1> SUFFICES ASSUME FrontPath, ExecutePath, MemPath, RUN_BIT'
             PROVE  MemPath'
  BY StopsForGood
<1>1. CASE UNCHANGED <<PC, fetch_op, decode_op, execute_op, mem_op, branch_flush,
                       branch_dest>>
  BY <1>1 DEF MemPath, MemFollowed, Followed, FollowedPC
<1>2. CASE LoadResp \/ StoreResp
  <2>1. UNCHANGED <<PC, fetch_op, decode_op, execute_op, branch_flush, branch_dest>>
    BY <1>2 DEF LoadResp, StoreResp, arch, recovery
  <2>2. QED
    BY <1>2, <2>1, AnswerKeeps DEF MemPath, MemFollowed, Followed, FollowedPC, GoesTo
<1>3. CASE (\E a \in Word : FetchResp(a)) \/ FetchRetried
  BY <1>3, FetchKeeps DEF MemPath, MemFollowed, Followed
<1>4. CASE WbRetire
  BY <1>4 DEF WbRetire, recovery, MemPath, MemFollowed, Followed, FollowedPC
<1>5. CASE MemDone
  BY <1>5 DEF MemDone, MemPath
<1>6. ASSUME NEW accepted \in BOOLEAN, MemIssue(accepted)
      PROVE  MemPath'
  <2>1. UNCHANGED <<PC, fetch_op, decode_op, execute_op, branch_flush, branch_dest>>
    BY <1>6 DEF MemIssue, arch, recovery
  <2>2. GoesTo(mem_op') = GoesTo(mem_op)
    BY <1>6, IssueKeeps DEF GoesTo, Taken, IsMem, IsStore
  <2>3. QED
    BY <1>6, <2>1, <2>2, IssueKeeps DEF MemPath, MemFollowed, Followed, FollowedPC
<1>7. CASE Execute
  BY <1>7, ExecuteFollows DEF MemPath
<1>8. CASE Decode
  <2>1. UNCHANGED <<PC, fetch_op, mem_op>>
    BY <1>8 DEF Decode, arch
  <2>2. CASE branch_flush = "FLUSH_EXECUTE"
    <3>1. UNCHANGED recovery
      BY <1>8, <2>2 DEF Decode, DecodeUnknown, DecodeConditional, DecodeJump,
                        pipeRecover, branch_recover
    <3>2. QED
      BY <2>1, <2>2, <3>1 DEF MemPath, MemFollowed, recovery
  <2>3. CASE branch_flush # "FLUSH_EXECUTE"
    BY <1>8, <2>1, <2>3, DecodeFollows, DecodeKeeps
       DEF MemPath, MemFollowed, Followed, FollowedPC
  <2>4. QED
    BY <2>2, <2>3
<1>9. CASE FetchStarted
  BY <1>9, FetchNextKeeps DEF MemPath, MemFollowed, Followed
<1>10. CASE Recover
  <2>1. UNCHANGED mem_op
    BY <1>10 DEF Recover
  <2>2. CASE branch_flush = "FLUSH_EXECUTE"
    BY <1>10, <2>1, <2>2, RecoverFollows DEF Recover, MemPath, MemFollowed, Followed
  <2>3. CASE branch_flush = "FLUSH_DECODE"
    BY <1>10, <2>1, <2>3, RecoverFollows
       DEF Recover, StageInv, MemPath, MemFollowed, Followed
  <2>4. QED
    BY <1>10, <2>2, <2>3 DEF Recover, branch_recover, TypeInv, TypeOK, Flushes
<1>11. QED
  BY <1>1, <1>2, <1>3, <1>4, <1>5, <1>6, <1>7, <1>8, <1>9, <1>10
     DEF Next, Memory, Cycle, Halted, vars, memory, arch, ops, recovery, EndTick,
         WbEmpty, MemEmpty, MemIssued, MemWait, ExecuteStall, DecodeStall,
         FetchStall, NoRecover

\* Every step preserves PathInv.
LEMMA PathStep ==
  TypeInv /\ FrontInv /\ StageInv /\ OpsInv /\ PathInv /\ [Next]_vars => PathInv'
BY BTBStep, FrontPathStep, ExecutePathStep, MemPathStep DEF PathInv

-------------------------------------------------------------------------------
(* ValueInv.                                                                 *)

\* No op has a value at the start.
LEMMA ValueInit == Init => ValueInv
BY DEF Init, ValueInv, MemPending

\* Forwarding gives the operand that the register file will have.
LEMMA ForwardedOperand ==
  ASSUME TypeInv, NEW r \in Regs \cup {NoReg}
  PROVE  RegisterValue(r) = Operand(RegsAfterWb, r)
<1>1. CASE wb_op = NULL \/ r \in {NoReg, 0}
  BY <1>1 DEF RegisterValue, Operand, RegsAfterWb
<1>2. CASE wb_op # NULL /\ r \notin {NoReg, 0}
  <2>1. REGS \in [Regs -> Word] /\ r \in Regs
    BY <1>2 DEF TypeInv, TypeOK
  <2>2. RegsAfterWb = Written(REGS, wb_op.ins.dst, wb_op.reg_dst_value)
    BY <1>2 DEF RegsAfterWb
  <2>3. RegsAfterWb[r] = IF wb_op.ins.dst = r THEN wb_op.reg_dst_value ELSE REGS[r]
    BY <1>2, <2>1, <2>2 DEF Written
  <2>4. QED
    BY <1>2, <2>3 DEF RegisterValue, Operand
<1>3. QED
  BY <1>1, <1>2

\* The result of the arithmetic switch is the architectural one, and HI and LO
\* have taken it while oldHILO keeps what they were.
LEMMA ExecuteResult ==
  ASSUME TypeInv, FrontInv, OpsInv, Execute
  PROVE  OperandsKept(mem_op)' /\ ResultKept(mem_op)'
<1> DEFINE e == Executed(execute_op)
           i == execute_op.ins
           a == e.reg_src1_value
           b == e.reg_src2_value
<1>1. /\ execute_op \in Op /\ execute_op # NULL /\ AfterDecode(execute_op)
      /\ i \in Instruction /\ mem_op' = e
  BY ExecuteKeeps DEF FrontInv, OpsInv, Op
<1>2. i.src1 \in Regs \cup {NoReg} /\ i.src2 \in Regs \cup {NoReg}
  BY <1>1 DEF Instruction
<1>3. /\ e.ins = i /\ e.pc = execute_op.pc
      /\ a = RegisterValue(i.src1) /\ (~IsStore(i) => b = RegisterValue(i.src2))
      /\ IsMem(i) => e.mem_addr = Effective(i, a)
      /\ e.reg_dst_value = IF i.kind \in {"alu", "mfhilo", "jumpreg"}
                           THEN Result(i, execute_op.pc, a, b, HILO)
                           ELSE execute_op.reg_dst_value
  BY <1>1, ExecutedFields
<1>4. /\ HILO' = HiLoAfter(e.ins, a, b, HILO) /\ oldHILO' = HILO
      /\ UNCHANGED <<REGS, wb_op>>
  BY DEF Execute
<1> HIDE DEF e
<1>5. RegsAfterWb' = RegsAfterWb
  BY <1>4 DEF RegsAfterWb
<1>6. OperandsKept(mem_op)'
  BY <1>1, <1>2, <1>3, <1>5, ForwardedOperand DEF OperandsKept
<1>7. ~IsMem(i) /\ i.dst \notin {NoReg, 0} =>
        e.reg_dst_value = Result(i, execute_op.pc, a, b, HILO)
  <2>1. execute_op.reg_dst_value = IF i.kind \in {"branch", "jump"} /\ i.dst # NoReg
                                   THEN NextPC(execute_op.pc) ELSE 0
    BY <1>1 DEF AfterDecode
  <2>2. CASE i.kind \in {"alu", "mfhilo", "jumpreg"}
    BY <1>3, <2>2
  <2>3. CASE i.kind \notin {"alu", "mfhilo", "jumpreg"}
    BY <1>3, <2>1, <2>3 DEF Result, IsBranch
  <2>4. QED
    BY <2>2, <2>3
<1>8. ResultKept(mem_op)'
  BY <1>1, <1>3, <1>4, <1>7 DEF ResultKept
<1>9. QED
  BY <1>6, <1>8

\* Every step preserves ValueInv.
LEMMA ValueStep ==
  TypeInv /\ FrontInv /\ StageInv /\ OpsInv /\ ValueInv /\ [Next]_vars => ValueInv'
<1> SUFFICES ASSUME TypeInv, FrontInv, StageInv, OpsInv, ValueInv, [Next]_vars
             PROVE  ValueInv'
  OBVIOUS
<1>1. CASE UNCHANGED <<REGS, HILO, oldHILO, mem_op, wb_op, dataReq>>
  BY <1>1 DEF ValueInv, MemPending, Committed, OperandsKept, ResultKept, RegsAfterWb
<1>2. CASE LoadResp \/ StoreResp
  <2>1. dataReq' = NULL /\ UNCHANGED <<HILO, oldHILO>>
    BY <1>2 DEF LoadResp, StoreResp, arch
  <2>2. ~MemPending'
    BY <1>2, AnswerKeeps DEF MemPending, Committed
  <2>3. ResultKept(mem_op)'
    BY <1>2, <2>1, AnswerKeeps DEF ValueInv, ResultKept
  <2>4. QED
    BY <2>1, <2>2, <2>3 DEF ValueInv
<1>3. CASE WbRetire
  <2>1. UNCHANGED <<HILO, oldHILO, mem_op, dataReq>> /\ wb_op # NULL
    BY <1>3 DEF WbRetire, memory
  <2>2. RegsAfterWb' = RegsAfterWb
    BY <1>3 DEF WbRetire, RegsAfterWb
  <2>3. dataReq = NULL
    BY <2>1 DEF TypeInv, DataAnswerHasOwner, StageInv
  <2>4. QED
    BY <2>1, <2>2, <2>3 DEF ValueInv, MemPending, Committed, OperandsKept, ResultKept
<1>4. CASE MemDone
  <2>1. dataReq = NULL
    BY <1>4 DEF MemDone, TypeInv, DataAnswerHasOwner
  <2>2. QED
    BY <1>4, <2>1 DEF MemDone, memory, ValueInv, MemPending
<1>5. ASSUME NEW accepted \in BOOLEAN, MemIssue(accepted)
      PROVE  ValueInv'
  <2>1. /\ UNCHANGED <<REGS, HILO, oldHILO, wb_op>> /\ dataReq = NULL
        /\ mem_op # NULL
    BY <1>5, IssueKeeps DEF MemIssue, arch, TypeInv, DataAnswerHasOwner
  <2>2. MemPending
    BY <1>5, IssueKeeps DEF MemPending, Committed, StageInv
  <2>3. OperandsKept(mem_op)'
    BY <1>5, <2>1, <2>2, IssueKeeps DEF ValueInv, OperandsKept, RegsAfterWb
  <2>4. ResultKept(mem_op)'
    <3>1. CASE IsStore(mem_op.ins)
      BY <1>5, <2>1, <3>1, IssueKeeps
         DEF ValueInv, ResultKept, HiLoAfter, IsStore, IsMem
    <3>2. CASE ~IsStore(mem_op.ins)
      BY <1>5, <2>1, <3>2, IssueKeeps DEF ValueInv, ResultKept
    <3>3. QED
      BY <3>1, <3>2
  <2>5. dataReq' # NULL /\ dataReq'.write =>
          dataReq'.value = Operand(REGS', mem_op'.ins.src2)
    <3>1. IsStore(mem_op.ins) =>
            REGS[mem_op.ins.src2] = Operand(REGS, mem_op.ins.src2)
      <4>1. IsStore(mem_op.ins) => mem_op.ins.src2 \in Regs
        BY <1>5, IssueKeeps DEF Op, Instruction, IsStore
      <4>2. QED
        BY <4>1 DEF Operand, StageInv, Regs, NoReg
    <3>2. CASE accepted
      BY <1>5, <2>1, <3>1, <3>2, IssueKeeps DEF MemIssue
    <3>3. CASE ~accepted
      BY <1>5, <2>1, <3>3 DEF MemIssue
    <3>4. QED
      BY <3>2, <3>3
  <2>6. QED
    BY <2>3, <2>4, <2>5 DEF ValueInv
<1>6. CASE Execute
  <2>1. dataReq' = NULL
    BY <1>6, ExecuteKeeps DEF Execute, memory, TypeInv, DataAnswerHasOwner, FrontInv
  <2>2. QED
    BY <1>6, <2>1, ExecuteResult DEF ValueInv
<1>7. QED
  BY <1>1, <1>2, <1>3, <1>4, <1>5, <1>6
     DEF Next, Memory, Cycle, Halted, vars, memory, arch, ops, FetchResp, EndTick,
         WbEmpty, MemEmpty, MemIssued, MemWait, ExecuteStall, DecodeStall, Decode,
         FetchStall, FetchRetried, FetchRetry, FetchStarted, FetchNext, NoRecover,
         Recover

-------------------------------------------------------------------------------
(* Refinement.                                                               *)

\* The strengthened invariant, all parts together.
AllInv == PipeInv /\ RefInv

\* The constructors establish every part.
LEMMA AllInit == Init => AllInv
BY TypeInit, FrontInit, BackInit, StageInit, OpsInit, PathInit, ValueInit
   DEF AllInv, PipeInv, RefInv

\* Every step preserves every part, given those before it.
LEMMA AllStep == AllInv /\ [Next]_vars => AllInv'
BY TypeStep, FrontStep, BackStep, StageStep, OpsStep, PathStep, ValueStep
   DEF AllInv, PipeInv, RefInv

\* ISA computes with the same operators.
LEMMA ArchOperators ==
  ASSUME NEW i, NEW pc, NEW a, NEW b, NEW h, NEW rs, NEW r, NEW v
  PROVE  /\ Arch!NextPC(pc) = NextPC(pc)
         /\ Arch!Taken(i, a, b) <=> Taken(i, a, b)
         /\ Arch!Target(i, pc, a) = Target(i, pc, a)
         /\ Arch!Effective(i, a) = Effective(i, a)
         /\ Arch!Result(i, pc, a, b, h) = Result(i, pc, a, b, h)
         /\ Arch!HiLoAfter(i, a, b, h) = HiLoAfter(i, a, b, h)
         /\ Arch!Written(rs, r, v) = Written(rs, r, v)
         /\ Arch!Operand(rs, r) = Operand(rs, r)
         /\ Arch!IsStore(i) <=> IsStore(i)
         /\ Arch!Word = Word
BY DEF Arch!NextPC, NextPC, Arch!Taken, Taken, Arch!ConditionHolds, ConditionHolds,
       Arch!Negative, Negative, Arch!Target, Target, Arch!Effective, Effective,
       Arch!Result, Result, Arch!IsBranch, IsBranch, Arch!HiLoAfter, HiLoAfter,
       Arch!Written, Written, Arch!Operand, Operand, Arch!NoReg, NoReg,
       Arch!IsStore, IsStore, Arch!Word, Word

ArchView == <<prog, archPC, archRegs, archHILO, mem, archHalted>>

\* The steps at which ISA executes an instruction.
Commits ==
  LoadResp \/ StoreResp \/ (MemDone /\ ~IsMem(mem_op.ins))

\* The write-back of an op, or of the exit call, was counted when it committed.
LEMMA RetireStutters == AllInv /\ WbRetire => UNCHANGED ArchView
<1> SUFFICES ASSUME AllInv, WbRetire
             PROVE  UNCHANGED ArchView
  OBVIOUS
<1> USE DEF AllInv, RefInv
<1>1. /\ stage = "wb" /\ wb_op # NULL /\ wb_op' = NULL /\ RUN_BIT
      /\ REGS' = RegsAfterWb
      /\ UNCHANGED <<prog, mem, HILO, oldHILO, fetch_op, decode_op, execute_op, mem_op>>
      /\ IF ExitCall(wb_op) THEN PC' = wb_op.pc /\ RUN_BIT' = FALSE
         ELSE UNCHANGED <<PC, RUN_BIT>>
  BY DEF WbRetire, memory, RegsAfterWb, StageInv
<1>2. mem_op # NULL => MemPending /\ MemPending'
  BY <1>1 DEF MemPending, Committed, StageInv
<1>3. archRegs' = archRegs
  BY <1>1, <1>2 DEF archRegs, RegsAfterWb
<1>4. archHILO' = archHILO
  BY <1>1 DEF archHILO
<1>5. CASE ExitCall(wb_op)
  BY <1>1, <1>3, <1>4, <1>5 DEF ArchView, archPC, archHalted
<1>6. CASE ~ExitCall(wb_op)
  <2>1. archHalted' = FALSE /\ archHalted = FALSE
    BY <1>1, <1>6 DEF archHalted
  <2>2. FollowedPC' = FollowedPC
    BY <1>1, <1>6 DEF FollowedPC
  <2>3. MemPending' = MemPending
    BY <1>1 DEF MemPending, Committed
  <2>4. archPC' = archPC
    BY <1>1, <1>6, <2>2, <2>3 DEF archPC
  <2>5. QED
    BY <1>1, <1>3, <1>4, <2>1, <2>4 DEF ArchView
<1>7. QED
  BY <1>5, <1>6

\* A load or store whose answer has come was counted then.
LEMMA DoneStutters == AllInv /\ MemDone /\ IsMem(mem_op.ins) => UNCHANGED ArchView
<1> SUFFICES ASSUME AllInv, MemDone, IsMem(mem_op.ins)
             PROVE  UNCHANGED ArchView
  OBVIOUS
<1> USE DEF AllInv, RefInv
<1>1. /\ mem_op \in Op /\ mem_op # NULL /\ mem_op' = NULL /\ wb_op = NULL /\ RUN_BIT
      /\ ~MemPending /\ ~MemPending'
      /\ UNCHANGED <<prog, mem, PC, REGS, HILO, RUN_BIT, fetch_op, decode_op,
                     execute_op>>
  BY OpTypes DEF MemDone, memory, arch, StageInv, MemPending, Committed, PipeInv
<1>2. /\ wb_op' \in Op /\ wb_op'.ins = mem_op.ins
      /\ wb_op'.reg_dst_value = mem_op.reg_dst_value
  <2>1. IsStore(mem_op.ins) => REGS[mem_op.ins.src2] \in Word
    BY <1>1 DEF PipeInv, TypeInv, TypeOK, Op, Instruction, IsStore
  <2>2. QED
    BY <1>1, <2>1 DEF MemDone, Op
<1>3. wb_op' # NULL /\ ~ExitCall(wb_op')
  BY <1>2, NullAssumption DEF ExitCall, IsMem
<1>4. archRegs' = archRegs
  BY <1>1, <1>2, <1>3 DEF archRegs, RegsAfterWb
<1>5. archHILO' = archHILO
  <2>1. HILO = oldHILO
    BY <1>1 DEF ValueInv, ResultKept, HiLoAfter, IsMem
  <2>2. QED
    BY <1>1, <2>1 DEF archHILO
<1>6. archHalted' = archHalted
  BY <1>1, <1>3 DEF archHalted
<1>7. archPC' = archPC
  BY <1>1, <1>3 DEF archPC, FollowedPC
<1>8. QED
  BY <1>1, <1>4, <1>5, <1>6, <1>7 DEF ArchView

\* An op that is executed is still the oldest that has not committed, and HI
\* and LO count when it does.
LEMMA ExecuteStutters == AllInv /\ Execute => UNCHANGED ArchView
<1> SUFFICES ASSUME AllInv, Execute
             PROVE  UNCHANGED ArchView
  OBVIOUS
<1>1. /\ execute_op # NULL /\ mem_op = NULL /\ mem_op' # NULL
      /\ mem_op'.pc = execute_op.pc /\ ~mem_op'.memTried
  BY ExecuteKeeps DEF AllInv, PipeInv, FrontInv
<1>2. /\ oldHILO' = HILO
      /\ UNCHANGED <<prog, mem, PC, REGS, RUN_BIT, wb_op>>
  BY DEF Execute, memory
<1>3. MemPending' /\ ~MemPending
  BY <1>1 DEF MemPending, Committed
<1>4. archRegs' = archRegs
  BY <1>1, <1>2, <1>3 DEF archRegs, RegsAfterWb
<1>5. archHILO' = archHILO
  BY <1>1, <1>2 DEF archHILO
<1>6. archHalted' = archHalted
  BY <1>2 DEF archHalted
<1>7. archPC' = archPC
  BY <1>1, <1>2, <1>3 DEF archPC
<1>8. QED
  BY <1>2, <1>4, <1>5, <1>6, <1>7 DEF ArchView

\* A recovery takes away only what follows the oldest op.
LEMMA RecoverStutters == AllInv /\ Recover => UNCHANGED ArchView
<1> SUFFICES ASSUME AllInv, Recover
             PROVE  UNCHANGED ArchView
  OBVIOUS
<1> USE DEF AllInv, RefInv
<1>1. UNCHANGED <<prog, mem, REGS, HILO, RUN_BIT, mem_op, wb_op, oldHILO>> /\ RUN_BIT
  BY DEF Recover, memory, StageInv
<1>2. UNCHANGED <<archRegs, archHILO, archHalted, MemPending>>
  BY <1>1 DEF archRegs, RegsAfterWb, archHILO, archHalted, MemPending, Committed
<1>3. CASE branch_flush = "FLUSH_EXECUTE"
  <2>1. MemPending
    BY <1>3 DEF StageInv, MemPending, Committed, IsBranch, IsMem
  <2>2. QED
    BY <1>1, <1>2, <2>1 DEF ArchView, archPC
<1>4. CASE branch_flush = "FLUSH_DECODE"
  <2>1. execute_op # NULL /\ execute_op' = execute_op
    BY <1>4 DEF StageInv, Recover
  <2>2. QED
    BY <1>1, <1>2, <2>1 DEF ArchView, archPC
<1>5. QED
  BY <1>3, <1>4 DEF Recover, branch_recover, PipeInv, TypeInv, TypeOK, Flushes

\* Every step but a commit leaves the architectural machine as it is.
LEMMA OthersStutter == AllInv /\ [Next]_vars /\ ~Commits => UNCHANGED ArchView
<1> SUFFICES ASSUME AllInv, [Next]_vars, ~Commits
             PROVE  UNCHANGED ArchView
  OBVIOUS
<1> USE DEF AllInv, RefInv
<1> DEFINE Rest == <<prog, mem, PC, REGS, HILO, RUN_BIT, mem_op, wb_op, oldHILO>>
<1>1. ASSUME UNCHANGED Rest
      PROVE  /\ UNCHANGED <<archRegs, archHILO, archHalted, MemPending>>
             /\ UNCHANGED <<execute_op, FollowedPC>> => UNCHANGED ArchView
  <2>1. UNCHANGED <<archRegs, archHILO, archHalted, MemPending>>
    BY <1>1 DEF archRegs, RegsAfterWb, archHILO, archHalted, MemPending, Committed
  <2>2. UNCHANGED <<execute_op, FollowedPC>> => UNCHANGED archPC
    BY <1>1, <2>1 DEF archPC
  <2>3. QED
    BY <1>1, <2>1, <2>2 DEF ArchView
<1>2. CASE UNCHANGED <<Rest, fetch_op, decode_op, execute_op>>
  BY <1>1, <1>2 DEF FollowedPC
<1>3. CASE (\E a \in Word : FetchResp(a)) \/ FetchRetried
  <2>1. UNCHANGED <<mem, HILO, oldHILO>>
    BY <1>3 DEF FetchResp, FetchRetried, FetchRetry, arch
  <2>2. QED
    BY <1>1, <1>3, <2>1, FetchKeeps DEF PipeInv
<1>4. ASSUME NEW accepted \in BOOLEAN, MemIssue(accepted)
      PROVE  UNCHANGED ArchView
  <2>1. UNCHANGED <<prog, mem, PC, REGS, HILO, RUN_BIT, wb_op, oldHILO, fetch_op,
                    decode_op, execute_op>>
    BY <1>4 DEF MemIssue, arch
  <2>2. /\ mem_op # NULL /\ mem_op' # NULL /\ mem_op'.pc = mem_op.pc
        /\ MemPending /\ MemPending'
    BY <1>4, IssueKeeps DEF MemPending, Committed, StageInv, PipeInv
  <2>3. QED
    BY <2>1, <2>2
       DEF ArchView, archPC, archRegs, RegsAfterWb, archHILO, archHalted
<1>5. CASE Decode
  <2>1. UNCHANGED Rest
    BY <1>5 DEF Decode, memory, arch
  <2>2. /\ decode_op # NULL /\ execute_op = NULL /\ execute_op' # NULL
        /\ execute_op'.pc = decode_op.pc
    BY <1>5, DecodeKeeps DEF PipeInv
  <2>3. archPC' = archPC
    BY <1>1, <2>1, <2>2 DEF archPC, FollowedPC
  <2>4. QED
    BY <1>1, <2>1, <2>3 DEF ArchView
<1>6. CASE FetchStarted
  <2>1. UNCHANGED <<mem, HILO, oldHILO>>
    BY <1>6 DEF FetchStarted, FetchNext
  <2>2. UNCHANGED <<prog, REGS, RUN_BIT, mem_op, wb_op, execute_op, FollowedPC>>
    BY <1>6, FetchNextKeeps DEF PipeInv
  <2>3. RUN_BIT /\ RUN_BIT'
    BY <1>6, <2>2 DEF FetchStarted, FetchNext, StageInv
  <2>4. QED
    BY <2>1, <2>2, <2>3
       DEF ArchView, archPC, archRegs, RegsAfterWb, archHILO, archHalted,
           MemPending, Committed
<1>7. QED
  BY <1>2, <1>3, <1>4, <1>5, <1>6, RetireStutters, DoneStutters, ExecuteStutters,
     RecoverStutters
     DEF Next, Memory, Cycle, Halted, vars, memory, arch, ops, Commits, EndTick,
         WbEmpty, MemEmpty, MemIssued, MemWait, ExecuteStall, DecodeStall,
         FetchStall, NoRecover

\* The oldest op, when it is about to commit, is the instruction ISA is at, and
\* has what ISA computes from.
LEMMA AtCommit ==
  ASSUME AllInv, MemPending, wb_op = NULL, RUN_BIT, ~branch_recover
  PROVE  /\ mem_op \in Op /\ mem_op # NULL /\ mem_op.ins = prog[mem_op.pc]
         /\ archPC = mem_op.pc /\ archRegs = REGS /\ archHILO = oldHILO
         /\ ~archHalted
         /\ mem_op.reg_src1_value = Operand(REGS, mem_op.ins.src1)
         /\ ~IsStore(mem_op.ins) =>
              mem_op.reg_src2_value = Operand(REGS, mem_op.ins.src2)
         /\ ResultKept(mem_op)
         /\ (IF execute_op # NULL THEN execute_op.pc ELSE FollowedPC) \in GoesTo(mem_op)
<1> USE DEF AllInv, RefInv
<1>1. mem_op \in Op /\ mem_op # NULL /\ mem_op.ins = prog[mem_op.pc]
  BY OpTypes DEF MemPending, PipeInv, FrontInv, OwnInstruction
<1>2. archPC = mem_op.pc /\ archRegs = REGS /\ archHILO = oldHILO /\ ~archHalted
  BY <1>1 DEF archPC, archRegs, RegsAfterWb, archHILO, archHalted
<1>3. OperandsKept(mem_op) /\ ResultKept(mem_op)
  BY <1>1 DEF ValueInv
<1>4. MemFollowed \in GoesTo(mem_op)
  BY <1>1 DEF PathInv, MemPath
<1>5. MemFollowed = IF execute_op # NULL THEN execute_op.pc ELSE FollowedPC
  BY DEF MemFollowed, Followed, branch_recover
<1>6. QED
  BY <1>1, <1>2, <1>3, <1>4, <1>5 DEF OperandsKept, RegsAfterWb

\* What ISA reads when the oldest op commits: its instruction, its operands, and
\* where it may go.
LEMMA ArchAtCommit ==
  ASSUME AllInv, MemPending, wb_op = NULL, RUN_BIT, ~branch_recover
  PROVE  /\ Arch!Fetched = mem_op.ins
         /\ Arch!Src1 = mem_op.reg_src1_value
         /\ Arch!Src2 = Operand(REGS, mem_op.ins.src2)
         /\ ~IsStore(mem_op.ins) => Arch!Src2 = mem_op.reg_src2_value
         /\ Arch!Successors = GoesTo(mem_op)
         /\ Arch!IsExit <=> ExitCall(mem_op)
<1>1. /\ mem_op.ins = prog[mem_op.pc] /\ archPC = mem_op.pc /\ archRegs = REGS
      /\ mem_op.reg_src1_value = Operand(REGS, mem_op.ins.src1)
      /\ ~IsStore(mem_op.ins) =>
           mem_op.reg_src2_value = Operand(REGS, mem_op.ins.src2)
  BY AtCommit
<1>2. Arch!Fetched = mem_op.ins
  BY <1>1 DEF Arch!Fetched
<1>3. /\ Arch!Src1 = mem_op.reg_src1_value
      /\ Arch!Src2 = Operand(REGS, mem_op.ins.src2)
  BY <1>1, <1>2, ArchOperators DEF Arch!Src1, Arch!Src2
<1>4. Taken(mem_op.ins, Arch!Src1, Arch!Src2)
        <=> Taken(mem_op.ins, mem_op.reg_src1_value, mem_op.reg_src2_value)
  <2>1. CASE IsStore(mem_op.ins)
    BY <2>1 DEF Taken, IsStore
  <2>2. CASE ~IsStore(mem_op.ins)
    BY <1>1, <1>3, <2>2
  <2>3. QED
    BY <2>1, <2>2
<1>5. Arch!Successors = GoesTo(mem_op)
  BY <1>1, <1>2, <1>3, <1>4, ArchOperators DEF Arch!Successors, GoesTo
<1>6. Arch!IsExit <=> ExitCall(mem_op)
  BY <1>2, <1>3 DEF Arch!IsExit, ExitCall
<1>7. QED
  BY <1>1, <1>2, <1>3, <1>5, <1>6

\* A load or a store is executed when it is answered.
LEMMA AnswerCommits == AllInv /\ (LoadResp \/ StoreResp) => Arch!Instr
<1> SUFFICES ASSUME AllInv, LoadResp \/ StoreResp
             PROVE  Arch!Instr
  OBVIOUS
<1> USE DEF AllInv, RefInv
<1> DEFINE i == mem_op.ins
<1>1. /\ mem_op \in Op /\ mem_op # NULL /\ mem_op' # NULL
      /\ mem_op'.ins = i /\ IsMem(i)
      /\ mem_op.memTried /\ ~mem_op.readyForNextStage
      /\ mem_op'.memTried /\ mem_op'.readyForNextStage
      /\ dataReq.addr = mem_op.mem_addr /\ dataReq.write = IsStore(i)
      /\ dataReq # NULL
  BY AnswerKeeps DEF PipeInv
<1>2. MemPending /\ wb_op = NULL /\ RUN_BIT /\ ~branch_recover /\ ~MemPending'
  BY <1>1 DEF MemPending, Committed, StageInv, LoadResp, StoreResp
<1>3. UNCHANGED <<prog, PC, REGS, HILO, RUN_BIT, fetch_op, decode_op, execute_op,
                  wb_op, oldHILO>>
  BY DEF LoadResp, StoreResp, arch
<1>4. /\ archPC = mem_op.pc /\ archRegs = REGS /\ archHILO = oldHILO
      /\ ~archHalted /\ ResultKept(mem_op)
      /\ (IF execute_op # NULL THEN execute_op.pc ELSE FollowedPC) \in GoesTo(mem_op)
  BY <1>2, AtCommit
<1>5. /\ Arch!Fetched = i /\ Arch!Src1 = mem_op.reg_src1_value
      /\ Arch!Src2 = Operand(REGS, i.src2)
      /\ Arch!Successors = GoesTo(mem_op) /\ ~Arch!IsExit
  BY <1>1, <1>2, ArchAtCommit DEF ExitCall, IsMem
<1>6. Arch!Address = mem_op.mem_addr
  BY <1>1, <1>4, <1>5, ArchOperators DEF Arch!Address, ResultKept
<1>7. archPC' \in Arch!Successors
  BY <1>2, <1>3, <1>4, <1>5 DEF archPC, FollowedPC
<1>8. archHalted' = archHalted
  BY <1>3 DEF archHalted
<1>9. archHILO' = HiLoAfter(i, Arch!Src1, Arch!Src2, archHILO)
  BY <1>1, <1>3, <1>4 DEF archHILO, HiLoAfter, IsMem
<1>10. archRegs' = Written(REGS, i.dst, mem_op'.reg_dst_value)
  BY <1>1, <1>2, <1>3 DEF archRegs, RegsAfterWb
<1>11. CASE LoadResp
  <2>1. i.kind = "load" /\ mem' = mem
    BY <1>1, <1>11 DEF LoadResp, IsMem, IsStore
  <2>2. mem_op'.reg_dst_value = mem[mem_op.mem_addr]
    BY <1>1, <1>11 DEF LoadResp, Op
  <2>3. QED
    BY <1>3, <1>4, <1>5, <1>6, <1>7, <1>8, <1>9, <1>10, <2>1, <2>2, ArchOperators
       DEF Arch!Instr, IsStore
<1>12. CASE StoreResp
  <2>1. i.kind = "store" /\ i.dst = NoReg
    BY <1>1, <1>12 DEF StoreResp, IsStore, Op, Instruction
  <2>2. mem' = [mem EXCEPT ![Arch!Address] = Arch!Src2]
    BY <1>1, <1>5, <1>6, <1>12 DEF StoreResp, ValueInv
  <2>3. archRegs' = REGS
    BY <1>10, <2>1 DEF Written
  <2>4. \A v : Written(archRegs, i.dst, v) = REGS
    BY <1>4, <2>1 DEF Written
  <2>5. QED
    BY <1>3, <1>4, <1>5, <1>7, <1>8, <1>9, <2>1, <2>2, <2>3, <2>4, ArchOperators
       DEF Arch!Instr, IsStore
<1>13. QED
  BY <1>11, <1>12

\* Any other instruction is executed when it leaves the memory stage.
LEMMA DoneCommits ==
  AllInv /\ MemDone /\ ~IsMem(mem_op.ins) => Arch!Instr \/ Arch!Exit
<1> SUFFICES ASSUME AllInv, MemDone, ~IsMem(mem_op.ins)
             PROVE  Arch!Instr \/ Arch!Exit
  OBVIOUS
<1> USE DEF AllInv, RefInv
<1> DEFINE i == mem_op.ins
<1>1. /\ mem_op \in Op /\ mem_op # NULL /\ mem_op' = NULL /\ wb_op' = mem_op
      /\ MemPending /\ wb_op = NULL /\ RUN_BIT /\ ~branch_recover
      /\ UNCHANGED <<prog, mem, PC, REGS, HILO, RUN_BIT, fetch_op, decode_op,
                     execute_op>>
  BY OpTypes DEF MemDone, memory, arch, MemPending, Committed, StageInv, PipeInv,
                 IsMem, IsStore
<1>2. /\ archPC = mem_op.pc /\ archRegs = REGS /\ archHILO = oldHILO
      /\ ~archHalted /\ ResultKept(mem_op)
      /\ (IF execute_op # NULL THEN execute_op.pc ELSE FollowedPC) \in GoesTo(mem_op)
  BY <1>1, AtCommit
<1>3. /\ Arch!Fetched = i /\ Arch!Src1 = mem_op.reg_src1_value
      /\ Arch!Src2 = mem_op.reg_src2_value
      /\ Arch!Successors = GoesTo(mem_op)
      /\ Arch!IsExit <=> ExitCall(mem_op)
  BY <1>1, ArchAtCommit DEF IsMem, IsStore
<1>4. archRegs' = Written(REGS, i.dst, mem_op.reg_dst_value)
  BY <1>1 DEF archRegs, RegsAfterWb
<1>5. Written(REGS, i.dst, mem_op.reg_dst_value)
        = Written(REGS, i.dst, Result(i, archPC, Arch!Src1, Arch!Src2, archHILO))
  <2>1. i.dst \notin {NoReg, 0} =>
          mem_op.reg_dst_value = Result(i, archPC, Arch!Src1, Arch!Src2, archHILO)
    BY <1>2, <1>3 DEF ResultKept
  <2>2. QED
    BY <2>1 DEF Written
<1>6. archHILO' = HiLoAfter(i, Arch!Src1, Arch!Src2, archHILO)
  BY <1>1, <1>2, <1>3 DEF archHILO, ResultKept
<1>7. i.kind # "load" /\ i.kind # "store"
  BY DEF IsMem
<1>8. CASE ~ExitCall(mem_op)
  <2>1. archHalted' = archHalted
    BY <1>1, <1>8 DEF archHalted
  <2>2. archPC' \in Arch!Successors
    BY <1>1, <1>2, <1>3, <1>8 DEF archPC, FollowedPC, MemPending
  <2>3. Arch!Instr
    BY <1>1, <1>2, <1>3, <1>4, <1>5, <1>6, <1>7, <1>8, <2>1, <2>2, ArchOperators
       DEF Arch!Instr, IsStore
  <2>4. QED
    BY <2>3
<1>9. CASE ExitCall(mem_op)
  <2>1. archHalted' = TRUE /\ archPC' = archPC
    BY <1>1, <1>2, <1>9 DEF archHalted, archPC
  <2>2. Result(i, archPC, Arch!Src1, Arch!Src2, archHILO) = 0
        /\ HiLoAfter(i, Arch!Src1, Arch!Src2, archHILO) = archHILO
    BY <1>9 DEF ExitCall, Result, HiLoAfter, IsBranch
  <2>3. Arch!Exit
    BY <1>1, <1>2, <1>3, <1>4, <1>5, <1>6, <1>9, <2>1, <2>2, ArchOperators
       DEF Arch!Exit
  <2>4. QED
    BY <2>3
<1>10. QED
  BY <1>8, <1>9

\* Every step of the pipeline is an instruction of ISA, its exit call, or none.
LEMMA StepSimulation == AllInv /\ [Next]_vars => [Arch!ISANext]_(Arch!isaVars)
<1> SUFFICES ASSUME AllInv, [Next]_vars
             PROVE  [Arch!ISANext]_(Arch!isaVars)
  OBVIOUS
<1>1. CASE Commits
  BY <1>1, AnswerCommits, DoneCommits DEF Commits, Arch!ISANext
<1>2. CASE ~Commits
  BY <1>2, OthersStutter DEF ArchView, Arch!isaVars
<1>3. QED
  BY <1>1, <1>2

\* A loaded machine that has fetched nothing is ISA's initial state.
LEMMA InitSimulation == Init => Arch!ISAInit
<1> SUFFICES ASSUME Init
             PROVE  Arch!ISAInit
  OBVIOUS
<1>1. archPC = StartPC /\ archHILO = 0 /\ ~archHalted /\ archRegs = REGS
  BY DEF Init, archPC, archHILO, archHalted, archRegs, RegsAfterWb, MemPending,
         FollowedPC
<1>2. archHalted = FALSE
  BY <1>1 DEF archHalted, Init
<1>3. REGS = [r \in Arch!Regs |-> 0]
  BY DEF Init, Arch!Regs, Regs
<1>4. QED
  BY <1>1, <1>2, <1>3 DEF Init, Arch!ISAInit

-------------------------------------------------------------------------------
(* The theorems.                                                             *)

\* The invariant of every behaviour of the pipeline.
LEMMA AllInvHolds == Spec => []AllInv
BY AllInit, AllStep, PTL DEF Spec

\* For every program, the five-stage pipeline with its prediction, flushes,
\* forwarding, stalls and late answers implements the instruction set.
THEOREM Refinement == Spec => ImplementsISA
BY AllInvHolds, InitSimulation, StepSimulation, PTL
   DEF Spec, ImplementsISA, Arch!ISASpec

\* The BTB never holds a PC that Execute would not check: wrong-path decodes
\* included, a fetch leaves the next PC only at a branch.
THEOREM BTBBranches == Spec => []BTBOnlyBranches
<1>1. AllInv => BTBOnlyBranches
  BY DEF AllInv, RefInv, PathInv, BranchesInv, BTBOnlyBranches, Straight
<1>2. QED
  BY <1>1, AllInvHolds, PTL

\* An instruction is never lost: no stage puts an op in an occupied slot, nor a
\* load or store in the data port while another is in flight.
THEOREM SlotsKept == Spec => NoOverwrite
<1> DEFINE Kept ==
      /\ ~Overwritten(fetch_op, fetch_op') \/ decode_op' = fetch_op
      /\ ~Overwritten(decode_op, decode_op')
      /\ ~Overwritten(execute_op, execute_op')
      /\ ~Overwritten(mem_op, mem_op')
      /\ ~Overwritten(wb_op, wb_op')
      /\ dataReq # NULL => dataReq' \in {NULL, dataReq}
<1>1. AllInv /\ [Next]_vars => [Kept]_vars
  <2> SUFFICES ASSUME AllInv, [Next]_vars
               PROVE  Kept
    OBVIOUS
  <2> USE DEF AllInv, PipeInv, RefInv, Overwritten
  <2>1. CASE LoadResp \/ StoreResp
    <3>1. mem_op \in Op /\ mem_op' \in Op /\ mem_op'.pc = mem_op.pc
      BY <2>1, AnswerKeeps
    <3>2. QED
      BY <2>1, <3>1 DEF LoadResp, StoreResp
  <2>2. CASE (\E a \in Word : FetchResp(a)) \/ FetchRetried
    <3>1. dataReq' = dataReq
      <4>1. ASSUME NEW a \in Word, FetchResp(a)
            PROVE  dataReq' = dataReq
        BY <4>1 DEF FetchResp
      <4>2. CASE FetchRetried
        BY <4>2 DEF FetchRetried, FetchRetry
      <4>3. QED
        BY <2>2, <4>1, <4>2
    <3>2. /\ fetch_op # NULL => fetch_op'.pc = fetch_op.pc
          /\ UNCHANGED <<decode_op, execute_op, mem_op, wb_op>>
      BY <2>2, FetchKeeps
    <3>3. QED
      BY <3>1, <3>2
  <2>3. CASE FetchStarted
    BY <2>3 DEF FetchStarted, FetchNext
  <2>4. CASE MemDone \/ WbRetire \/ Recover
    BY <2>4 DEF MemDone, WbRetire, Recover, memory, StageInv
  <2>5. ASSUME NEW accepted \in BOOLEAN, MemIssue(accepted)
        PROVE  Kept
    <3>1. mem_op' # NULL /\ mem_op'.pc = mem_op.pc
      BY <2>5, IssueKeeps
    <3>2. dataReq = NULL
      BY <2>5 DEF MemIssue, TypeInv, DataAnswerHasOwner
    <3>3. QED
      BY <2>5, <3>1, <3>2 DEF MemIssue
  <2>6. CASE Execute
    BY <2>6 DEF Execute, CanExecute, memory
  <2>7. CASE Decode
    <3>1. execute_op = NULL
      BY <2>7 DEF Decode
    <3>2. QED
      BY <2>7, <3>1 DEF Decode, memory
  <2>8. CASE UNCHANGED <<ops, dataReq>>
    BY <2>8 DEF ops
  <2>9. QED
    BY <2>1, <2>2, <2>3, <2>4, <2>5, <2>6, <2>7, <2>8
       DEF Next, Memory, Cycle, Halted, vars, memory, ops, EndTick, WbEmpty,
           MemEmpty, MemIssued, MemWait, ExecuteStall, DecodeStall, FetchStall,
           NoRecover
<1>2. QED
  BY <1>1, AllInvHolds, PTL DEF Spec, NoOverwrite
================================================================================
