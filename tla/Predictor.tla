------------------------------- MODULE Predictor -------------------------------
(***************************************************************************)
(* The predictor on its own, called in any order with any arguments: what  *)
(* the BTB and the return address stack remember is compared with what     *)
(* they were told.  Module Pipeline calls the same operators from its      *)
(* stages.                                                                 *)
(***************************************************************************)
EXTENDS BranchPredictor, Sequences

CONSTANTS
  PCs                \* the addresses branches are at, and return to

ASSUME PCsAssumption == PCs \subseteq Nat \ {0}

VARIABLES
  told,              \* history: the target of the last update of each PC
  calls              \* history: the ras_size newest calls not returned from

pvars == <<bpVars, told, calls>>

\* A call, on a stack that forgets its oldest call when it is full.
Called(returnPC) ==
  IF Len(calls) < ras_size THEN Append(calls, returnPC)
  ELSE Append(Tail(calls), returnPC)

PInit ==
  /\ BPInit
  /\ told = [pc \in PCs |-> NoTarget]
  /\ calls = <<>>

\* From pipeStageExecute and, for J and JAL, pipeStageDecode.
Update(pc, taken, target) ==
  /\ update(pc, taken, target)
  /\ told' = [told EXCEPT ![pc] = IF taken THEN target ELSE NoTarget]
  /\ UNCHANGED <<rasVars, calls>>

\* From the decoding of JAL.
Push(returnPC) ==
  /\ pushRAS(returnPC)
  /\ calls' = Called(returnPC)
  /\ UNCHANGED <<BTB, told>>

\* From the decoding of JALR.
Pop ==
  /\ popRAS
  /\ calls' = IF calls = <<>> THEN <<>> ELSE SubSeq(calls, 1, Len(calls) - 1)
  /\ UNCHANGED <<BTB, told>>

PNext ==
  \/ \E pc, target \in PCs, taken \in BOOLEAN : Update(pc, taken, target)
  \/ \E returnPC \in PCs : Push(returnPC)
  \/ Pop

PSpec == PInit /\ [][PNext]_pvars

-------------------------------------------------------------------------------
PTypeOK ==
  /\ BTB \in [BTBSlots -> [PC : PCs \cup {0}, target : PCs \cup {0},
                           valid : BOOLEAN]]
  /\ RAS \in [RASSlots -> PCs \cup {0}]
  /\ RAS_next \in RASSlots
  /\ RAS_count \in 0 .. (CountMod - 1)
  /\ told \in [PCs -> PCs \cup {NoTarget}]
  /\ calls \in Seq(PCs) /\ Len(calls) <= ras_size

\* The BTB may have had no room for a branch, but what it says of a branch is
\* what it was last told: no second entry of the PC keeps an older target, and
\* a branch not taken is forgotten.
BTBFaithful ==
  \A pc \in PCs : getTarget(pc) # NoTarget => getTarget(pc) = told[pc]

\* A branch is missing only when there was no room for it: with a free entry
\* the update of a taken branch is remembered.
BTBRemembers ==
  [][\A pc \in PCs :
       told'[pc] # NoTarget /\ told'[pc] # told[pc] /\ Free # {}
         => getTarget(pc)' = told'[pc]]_pvars

\* Whatever was pushed, popped, overwritten, popped when empty, or lost when
\* the uint8_t count wrapped to 0: a prediction made while one of the ras_size
\* newest calls is outstanding is the return of the innermost.
RASNewest ==
  calls # <<>> /\ RAS_count # 0 => RASTop = calls[Len(calls)]
================================================================================
