---------------------------- MODULE BranchPredictor ----------------------------
(***************************************************************************)
(* DynamicBranchPredictor (src/src/dynamic_branch_predictor.cpp): the      *)
(* branch target buffer, an array searched for the first valid entry of a  *)
(* PC, and the return address stack, a ring whose depth count is a uint8_t *)
(* that nothing compares with the ring's size.  predictTaken always        *)
(* returns false and the BHT and PHT are not implemented.                  *)
(***************************************************************************)
EXTENDS Integers

CONSTANTS
  btb_size,
  ras_size,
  CountMod           \* RAS_count is a uint8_t: 256 in the program

ASSUME BPAssumption ==
  /\ btb_size \in Nat \ {0}
  /\ ras_size \in Nat \ {0}
  /\ CountMod \in Nat \ {0}

VARIABLES BTB, RAS, RAS_next, RAS_count

bpVars == <<BTB, RAS, RAS_next, RAS_count>>
rasVars == <<RAS, RAS_next, RAS_count>>

NoTarget == -1       \* getTarget's "not found"

BTBSlots == 0 .. (btb_size - 1)
RASSlots == 0 .. (ras_size - 1)

BPInit ==
  /\ BTB = [i \in BTBSlots |-> [PC |-> 0, target |-> 0, valid |-> FALSE]]
  /\ RAS = [i \in RASSlots |-> 0]
  /\ RAS_next = 0
  /\ RAS_count = 0

\* std::find_if over the array: the lowest index of a set of indices.
First(S) == CHOOSE i \in S : \A j \in S : i <= j

Matching(pc) == {i \in BTBSlots : BTB[i].valid /\ BTB[i].PC = pc}
Free == {i \in BTBSlots : ~BTB[i].valid}

getTarget(pc) ==
  IF Matching(pc) = {} THEN NoTarget ELSE BTB[First(Matching(pc))].target

predictTaken(pc) == FALSE

\* Mutants: a taken branch always takes a free entry; a branch not taken keeps
\* its entry; the search for a free entry misses the last one.
updateAlwaysNew(pc, taken, target) ==
  BTB' = LET usable == IF taken THEN Free ELSE Matching(pc)
         IN IF usable = {} THEN BTB
            ELSE [BTB EXCEPT ![First(usable)] =
                    [PC |-> pc, target |-> target, valid |-> taken]]

updateTakenOnly(pc, taken, target) ==
  BTB' = LET usable == IF Matching(pc) = {} THEN Free ELSE Matching(pc)
         IN IF ~taken \/ usable = {} THEN BTB
            ELSE [BTB EXCEPT ![First(usable)] =
                    [PC |-> pc, target |-> target, valid |-> TRUE]]

updateMissesLast(pc, taken, target) ==
  BTB' = LET usable == IF Matching(pc) = {} /\ taken
                       THEN Free \ {btb_size - 1} ELSE Matching(pc)
         IN IF usable = {} THEN BTB
            ELSE [BTB EXCEPT ![First(usable)] =
                    [PC |-> pc, target |-> target, valid |-> taken]]

\* A taken branch is stored over its own entry or in a free one, and dropped
\* when there is neither; a branch not taken loses its entry.
update(pc, taken, target) ==
  BTB' = LET usable == IF Matching(pc) = {} /\ taken THEN Free ELSE Matching(pc)
         IN IF usable = {} THEN BTB
            ELSE IF taken
            THEN [BTB EXCEPT ![First(usable)] =
                    [PC |-> pc, target |-> target, valid |-> TRUE]]
            ELSE [BTB EXCEPT ![First(usable)].valid = FALSE]

\* popRAS returns RASTop; 0 stands for "no prediction".
RASTop ==
  IF RAS_count = 0 THEN 0 ELSE RAS[(RAS_next + ras_size - 1) % ras_size]

\* Mutants: the empty stack is popped too; the ring's index stays.
popRASUnguarded ==
  /\ RAS_count' = RAS_count - 1
  /\ RAS_next' = (RAS_next + ras_size - 1) % ras_size
  /\ UNCHANGED RAS

popRASIndexStays ==
  IF RAS_count = 0 THEN UNCHANGED rasVars
  ELSE RAS_count' = RAS_count - 1 /\ UNCHANGED <<RAS, RAS_next>>

popRAS ==
  IF RAS_count = 0 THEN UNCHANGED rasVars
  ELSE /\ RAS_count' = RAS_count - 1
       /\ RAS_next' = (RAS_next + ras_size - 1) % ras_size
       /\ UNCHANGED RAS

pushRAS(returnPC) ==
  /\ RAS_count' = (RAS_count + 1) % CountMod
  /\ RAS' = [RAS EXCEPT ![RAS_next] = returnPC]
  /\ RAS_next' = (RAS_next + 1) % ras_size

-------------------------------------------------------------------------------
\* A PC has at most one valid entry, so clearing the first match forgets it.
BTBUnique ==
  \A i, j \in BTBSlots :
    BTB[i].valid /\ BTB[j].valid /\ BTB[i].PC = BTB[j].PC => i = j
================================================================================
