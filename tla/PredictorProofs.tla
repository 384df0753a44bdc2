---------------------------- MODULE PredictorProofs ----------------------------
(***************************************************************************)
(* Theorems about Predictor: for tables and stacks of any size.            *)
(***************************************************************************)
EXTENDS Predictor, SequenceTheorems, WellFoundedInduction, TLAPS

-------------------------------------------------------------------------------
(* The operators of BranchPredictor, whoever calls them.                     *)

\* std::find_if stops at an element: the first of a nonempty set of indices is
\* one of them.
LEMMA FirstIsMember ==
  ASSUME NEW S \in SUBSET Nat, S # {}
  PROVE  First(S) \in S /\ \A j \in S : First(S) <= j
<1> DEFINE Below == {ss \in Nat \X Nat : ss[1] < ss[2]}
<1>1. OpToRel(<, Nat) = Below
  BY Zenon DEF OpToRel
<1>2. IsWellFoundedOn(Below, Nat)
  BY <1>1, NatLessThanWellFounded, Zenon
<1>a. \A a, b \in Nat : a < b => <<a, b>> \in Below
  <2> TAKE a, b \in Nat
  <2>1. <<a, b>> \in Nat \X Nat /\ <<a, b>>[1] = a /\ <<a, b>>[2] = b
    OBVIOUS
  <2>2. QED
    BY <2>1
<1> HIDE DEF Below
<1>3. PICK i \in S : \A j \in S : ~(<<j, i>> \in Below)
  BY <1>2, WFMin
<1>4. ASSUME NEW j \in S
      PROVE  i <= j
  <2>1. i \in Nat /\ j \in Nat
    OBVIOUS
  <2>2. ~(j < i)
    BY <1>3, <1>a, <2>1
  <2>3. QED
    BY <2>1, <2>2
<1>5. QED
  BY <1>4 DEF First

\* The ways update can change the table: not at all, one entry set, or one
\* entry cleared.
LEMMA UpdateCases ==
  ASSUME NEW pc, NEW taken \in BOOLEAN, NEW target, update(pc, taken, target)
  PROVE  \/ /\ BTB' = BTB
            /\ Matching(pc) = {}
            /\ taken => Free = {}
         \/ /\ taken
            /\ \E i \in BTBSlots :
                 /\ i \in Matching(pc) \/ (Matching(pc) = {} /\ i \in Free)
                 /\ BTB' = [BTB EXCEPT ![i] = [PC |-> pc, target |-> target,
                                              valid |-> TRUE]]
         \/ /\ ~taken
            /\ \E i \in Matching(pc) : BTB' = [BTB EXCEPT ![i].valid = FALSE]
<1> DEFINE usable == IF Matching(pc) = {} /\ taken THEN Free ELSE Matching(pc)
<1>1. Matching(pc) \subseteq BTBSlots /\ Free \subseteq BTBSlots
  BY DEF Matching, Free
<1>2. BTBSlots \subseteq Nat
  BY BPAssumption DEF BTBSlots
<1>3. CASE usable = {}
  <2>1. BTB' = BTB
    BY <1>3 DEF update
  <2>2. QED
    BY <1>3, <2>1
<1>4. CASE usable # {}
  <2>1. First(usable) \in usable
    BY <1>1, <1>2, <1>4, FirstIsMember
  <2>2. CASE taken
    <3>1. BTB' = [BTB EXCEPT ![First(usable)] = [PC |-> pc, target |-> target,
                                                 valid |-> TRUE]]
      BY <1>4, <2>2 DEF update
    <3>2. First(usable) \in Matching(pc)
            \/ (Matching(pc) = {} /\ First(usable) \in Free)
      BY <2>1
    <3>3. QED
      BY <1>1, <2>1, <2>2, <3>1, <3>2
  <2>3. CASE ~taken
    <3>1. BTB' = [BTB EXCEPT ![First(usable)].valid = FALSE]
      BY <1>4, <2>3 DEF update
    <3>2. QED
      BY <2>1, <2>3, <3>1
  <2>4. QED
    BY <2>2, <2>3
<1>5. QED
  BY <1>3, <1>4

\* The type of the table is preserved.
LEMMA UpdateType ==
  ASSUME NEW P, NEW pc \in P, NEW taken \in BOOLEAN, NEW target \in P,
         BTB \in [BTBSlots -> [PC : P, target : P, valid : BOOLEAN]],
         update(pc, taken, target)
  PROVE  BTB' \in [BTBSlots -> [PC : P, target : P, valid : BOOLEAN]]
<1> DEFINE Table == [BTBSlots -> [PC : P, target : P, valid : BOOLEAN]]
<1>1. ASSUME NEW i \in BTBSlots,
             BTB' = [BTB EXCEPT ![i] = [PC |-> pc, target |-> target,
                                        valid |-> TRUE]]
      PROVE  BTB' \in Table
  BY <1>1
<1>2. ASSUME NEW i \in Matching(pc), BTB' = [BTB EXCEPT ![i].valid = FALSE]
      PROVE  BTB' \in Table
  BY <1>2 DEF Matching
<1>3. BTB' = BTB => BTB' \in Table
  OBVIOUS
<1> HIDE DEF Table
<1>4. BTB' \in Table
  <2> DEFINE Fixed == BTB' = BTB
             Put == \E i \in BTBSlots :
                      BTB' = [BTB EXCEPT ![i] = [PC |-> pc, target |-> target,
                                                 valid |-> TRUE]]
             Cleared == \E i \in Matching(pc) : BTB' = [BTB EXCEPT ![i].valid = FALSE]
  <2>1. Fixed => BTB' \in Table
    BY <1>3
  <2>2. Put => BTB' \in Table
    BY <1>1
  <2>3. Cleared => BTB' \in Table
    BY <1>2
  <2>4. Fixed \/ Put \/ Cleared
    <3>1. \/ BTB' = BTB
          \/ \E i \in BTBSlots :
               /\ i \in Matching(pc) \/ (Matching(pc) = {} /\ i \in Free)
               /\ BTB' = [BTB EXCEPT ![i] = [PC |-> pc, target |-> target,
                                            valid |-> TRUE]]
          \/ \E i \in Matching(pc) : BTB' = [BTB EXCEPT ![i].valid = FALSE]
      BY UpdateCases, ZenonT(60)
    <3>2. QED
      BY <3>1, Zenon
  <2>5. QED
    BY <2>1, <2>2, <2>3, <2>4
<1>5. QED
  BY <1>4 DEF Table

\* The table never holds two entries of one PC.
LEMMA UpdateUnique ==
  ASSUME NEW P, NEW pc \in P, NEW taken \in BOOLEAN, NEW target \in P,
         BTB \in [BTBSlots -> [PC : P, target : P, valid : BOOLEAN]],
         BTBUnique, update(pc, taken, target)
  PROVE  BTBUnique'
<1>1. \A i : i \in Matching(pc) <=>
               i \in BTBSlots /\ BTB[i].valid /\ BTB[i].PC = pc
  BY DEF Matching
<1>2. CASE BTB' = BTB
  BY <1>2 DEF BTBUnique, BTBSlots
<1>3. ASSUME NEW i \in BTBSlots,
             i \in Matching(pc) \/ (Matching(pc) = {} /\ i \in Free),
             BTB' = [BTB EXCEPT ![i] = [PC |-> pc, target |-> target,
                                        valid |-> TRUE]]
      PROVE  BTBUnique'
  BY <1>1, <1>3 DEF BTBUnique, BTBSlots
<1>4. ASSUME NEW i \in Matching(pc), BTB' = [BTB EXCEPT ![i].valid = FALSE]
      PROVE  BTBUnique'
  BY <1>1, <1>4 DEF BTBUnique, BTBSlots
<1>5. QED
  BY <1>2, <1>3, <1>4, UpdateCases

\* An answer of getTarget is the target of a valid entry of that PC.
LEMMA GetTargetEntry ==
  ASSUME NEW pc, getTarget(pc) # NoTarget
  PROVE  \E i \in BTBSlots : /\ BTB[i].valid
                             /\ BTB[i].PC = pc
                             /\ getTarget(pc) = BTB[i].target
<1>1. Matching(pc) \in SUBSET Nat /\ Matching(pc) # {}
  BY BPAssumption DEF getTarget, Matching, BTBSlots
<1>2. First(Matching(pc)) \in Matching(pc)
  BY <1>1, FirstIsMember
<1>3. QED
  BY <1>1, <1>2 DEF getTarget, Matching

\* A remainder is a slot, or a count.
LEMMA Remainder ==
  ASSUME NEW a \in Nat, NEW n \in Nat \ {0}
  PROVE  a % n \in 0 .. (n - 1)
OBVIOUS

\* The stack's operations keep the ring and its indices in range.
LEMMA RASType ==
  ASSUME NEW P, RAS \in [RASSlots -> P], RAS_next \in RASSlots,
         RAS_count \in 0 .. (CountMod - 1),
         (\E a \in P : pushRAS(a)) \/ popRAS \/ UNCHANGED rasVars
  PROVE  /\ RAS' \in [RASSlots -> P]
         /\ RAS_next' \in RASSlots
         /\ RAS_count' \in 0 .. (CountMod - 1)
<1>1. /\ (RAS_next + 1) % ras_size \in RASSlots
      /\ (RAS_next + ras_size - 1) % ras_size \in RASSlots
      /\ (RAS_count + 1) % CountMod \in 0 .. (CountMod - 1)
  <2>1. /\ RAS_next + 1 \in Nat /\ RAS_next + ras_size - 1 \in Nat
        /\ RAS_count + 1 \in Nat
    BY BPAssumption DEF RASSlots
  <2>2. QED
    BY <2>1, Remainder, BPAssumption DEF RASSlots
<1>2. CASE \E a \in P : pushRAS(a)
  BY <1>1, <1>2 DEF pushRAS
<1>3. CASE popRAS
  <2>1. CASE RAS_count = 0
    BY <1>3, <2>1 DEF popRAS, rasVars
  <2>2. CASE RAS_count # 0
    BY <1>1, <1>3, <2>2, BPAssumption DEF popRAS
  <2>3. QED
    BY <2>1, <2>2
<1>4. CASE UNCHANGED rasVars
  BY <1>4 DEF rasVars
<1>5. QED
  BY <1>2, <1>3, <1>4

-------------------------------------------------------------------------------
(* The histories.                                                            *)

\* The call stack of the history keeps its type and its length.
LEMMA CallsType ==
  ASSUME calls \in Seq(PCs), Len(calls) <= ras_size
  PROVE  /\ \A pc \in PCs : Called(pc) \in Seq(PCs) /\ Len(Called(pc)) <= ras_size
         /\ calls # <<>> =>
              LET rest == SubSeq(calls, 1, Len(calls) - 1)
              IN rest \in Seq(PCs) /\ Len(rest) <= ras_size
<1>1. ASSUME NEW pc \in PCs
      PROVE  Called(pc) \in Seq(PCs) /\ Len(Called(pc)) <= ras_size
  <2>1. CASE Len(calls) < ras_size
    BY <2>1, BPAssumption DEF Called
  <2>2. CASE Len(calls) >= ras_size
    <3>1. calls # <<>> /\ Len(calls) = ras_size
      BY <2>2, BPAssumption
    <3>2. Tail(calls) \in Seq(PCs) /\ Len(Tail(calls)) = Len(calls) - 1
      BY <3>1
    <3>3. QED
      BY <2>2, <3>1, <3>2, BPAssumption DEF Called
  <2>3. QED
    BY <2>1, <2>2, BPAssumption
<1>2. ASSUME calls # <<>>
      PROVE  LET rest == SubSeq(calls, 1, Len(calls) - 1)
             IN rest \in Seq(PCs) /\ Len(rest) <= ras_size
  <2> DEFINE n == Len(calls) - 1
  <2>1. n \in Nat /\ n <= Len(calls)
    BY <1>2
  <2>2. \A i \in 1 .. n : calls[i] \in PCs
    BY <2>1
  <2>3. SubSeq(calls, 1, n) \in Seq(PCs) /\ Len(SubSeq(calls, 1, n)) = n
    <3>1. 1 \in Int /\ n \in Int
      BY <2>1
    <3> HIDE DEF n
    <3>2. /\ SubSeq(calls, 1, n) \in Seq(PCs)
          /\ Len(SubSeq(calls, 1, n)) = IF 1 <= n THEN n - 1 + 1 ELSE 0
      BY <2>2, <3>1, SubSeqProperties
    <3>3. QED
      BY <2>1, <3>2
  <2>4. QED
    BY <2>1, <2>3, BPAssumption
<1>3. QED
  BY <1>1, <1>2

\* Type correctness of the predictor under any sequence of calls.
THEOREM PTypeCorrect == PSpec => []PTypeOK
<1>1. PInit => PTypeOK
  BY BPAssumption DEF PInit, BPInit, PTypeOK, BTBSlots, RASSlots
<1>2. PTypeOK /\ [PNext]_pvars => PTypeOK'
  <2> SUFFICES ASSUME PTypeOK, [PNext]_pvars
               PROVE  PTypeOK'
    OBVIOUS
  <2> USE DEF PTypeOK
  <2>1. ASSUME NEW pc \in PCs, NEW target \in PCs, NEW taken \in BOOLEAN,
               Update(pc, taken, target)
        PROVE  PTypeOK'
    <3>1. BTB' \in [BTBSlots -> [PC : PCs \cup {0}, target : PCs \cup {0},
                                 valid : BOOLEAN]]
      <4> DEFINE P == PCs \cup {0}
      <4>1. update(pc, taken, target)
        BY <2>1 DEF Update
      <4>2. pc \in P /\ target \in P
        OBVIOUS
      <4>3. BTB \in [BTBSlots -> [PC : P, target : P, valid : BOOLEAN]]
        OBVIOUS
      <4> HIDE DEF P
      <4>4. BTB' \in [BTBSlots -> [PC : P, target : P, valid : BOOLEAN]]
        BY <4>1, <4>2, <4>3, UpdateType
      <4>5. QED
        BY <4>4 DEF P
    <3>2. told' \in [PCs -> PCs \cup {NoTarget}]
      BY <2>1 DEF Update
    <3>3. QED
      BY <2>1, <3>1, <3>2 DEF Update, rasVars, RASSlots
  <2>2. ASSUME NEW returnPC \in PCs, Push(returnPC)
        PROVE  PTypeOK'
    <3>1. /\ RAS' \in [RASSlots -> PCs \cup {0}]
          /\ RAS_next' \in RASSlots
          /\ RAS_count' \in 0 .. (CountMod - 1)
      <4>1. pushRAS(returnPC)
        BY <2>2 DEF Push
      <4>2. QED
        BY <4>1, RASType
    <3>2. QED
      BY <2>2, <3>1, CallsType DEF Push, RASSlots, BTBSlots
  <2>3. CASE Pop
    <3>1. /\ RAS' \in [RASSlots -> PCs \cup {0}]
          /\ RAS_next' \in RASSlots
          /\ RAS_count' \in 0 .. (CountMod - 1)
      BY <2>3, RASType DEF Pop
    <3>2. QED
      BY <2>3, <3>1, CallsType DEF Pop, RASSlots, BTBSlots
  <2>4. CASE UNCHANGED pvars
    BY <2>4 DEF pvars, bpVars, RASSlots, BTBSlots
  <2>5. QED
    BY <2>1, <2>2, <2>3, <2>4 DEF PNext
<1>3. QED
  BY <1>1, <1>2, PTL DEF PSpec

\* The inductive invariant of the BTB: its entries are unique, and each says
\* what its branch was last told.
BTBInv ==
  /\ BTBUnique
  /\ \A i \in BTBSlots :
       BTB[i].valid => BTB[i].PC \in PCs /\ BTB[i].target = told[BTB[i].PC]

\* Every call preserves it.  A second entry of a PC would keep an older target,
\* hence uniqueness is part of the induction.
LEMMA BTBInvHolds == PSpec => []BTBInv
<1>1. PInit => BTBInv
  BY DEF PInit, BPInit, BTBInv, BTBUnique
<1>2. PTypeOK /\ BTBInv /\ [PNext]_pvars => BTBInv'
  <2> SUFFICES ASSUME PTypeOK, BTBInv, [PNext]_pvars
               PROVE  BTBInv'
    OBVIOUS
  <2>1. ASSUME NEW pc \in PCs, NEW target \in PCs, NEW taken \in BOOLEAN,
               Update(pc, taken, target)
        PROVE  BTBInv'
    <3>1. /\ update(pc, taken, target)
          /\ told' = [told EXCEPT ![pc] = IF taken THEN target ELSE NoTarget]
      BY <2>1 DEF Update
    <3>2. BTBUnique'
      <4>1. /\ BTB \in [BTBSlots -> [PC : PCs \cup {0}, target : PCs \cup {0},
                                      valid : BOOLEAN]]
            /\ BTBUnique
            /\ pc \in PCs \cup {0} /\ target \in PCs \cup {0}
        BY DEF BTBInv, PTypeOK
      <4>2. QED
        BY <3>1, <4>1, UpdateUnique
    <3>3. told \in [PCs -> PCs \cup {NoTarget}]
      BY DEF PTypeOK
    <3>4. \A i : i \in Matching(pc) <=>
                   i \in BTBSlots /\ BTB[i].valid /\ BTB[i].PC = pc
      BY DEF Matching
    <3>5. BTB \in [BTBSlots -> [PC : PCs \cup {0}, target : PCs \cup {0},
                                valid : BOOLEAN]]
      BY DEF PTypeOK
    <3> DEFINE Agrees(table, t) ==
          \A i \in BTBSlots :
            table[i].valid => table[i].PC \in PCs /\ table[i].target = t[table[i].PC]
    <3>7. ASSUME taken, NEW i \in BTBSlots,
                 i \in Matching(pc) \/ (Matching(pc) = {} /\ i \in Free),
                 BTB' = [BTB EXCEPT ![i] = [PC |-> pc, target |-> target,
                                            valid |-> TRUE]]
          PROVE  Agrees(BTB', told')
      <4>1. ASSUME NEW k \in BTBSlots, k # i, BTB[k].valid
            PROVE  BTB[k].PC # pc
        BY <3>4, <3>7, <4>1 DEF BTBInv, BTBUnique
      <4>2. QED
        BY <3>1, <3>3, <3>5, <3>7, <4>1 DEF BTBInv
    <3>8. ASSUME ~taken, NEW i \in Matching(pc),
                 BTB' = [BTB EXCEPT ![i].valid = FALSE]
          PROVE  Agrees(BTB', told')
      <4>1. ASSUME NEW k \in BTBSlots, k # i, BTB[k].valid
            PROVE  BTB[k].PC # pc
        BY <3>4, <3>8, <4>1 DEF BTBInv, BTBUnique
      <4>2. QED
        BY <3>1, <3>3, <3>4, <3>5, <3>8, <4>1 DEF BTBInv
    <3>9. Agrees(BTB', told')
      <4>1. CASE BTB' = BTB /\ Matching(pc) = {}
        BY <3>1, <3>3, <3>4, <4>1 DEF BTBInv
      <4>2. QED
        BY <3>1, <3>7, <3>8, <4>1, UpdateCases
    <3>10. QED
      BY <3>2, <3>9 DEF BTBInv, BTBSlots
  <2>2. ASSUME UNCHANGED <<BTB, told>>
        PROVE  BTBInv'
    BY <2>2 DEF BTBInv, BTBUnique, BTBSlots
  <2>3. QED
    BY <2>1, <2>2 DEF PNext, Push, Pop, pvars, bpVars
<1>3. QED
  BY <1>1, <1>2, PTypeCorrect, PTL DEF PSpec

\* One entry of a PC at most, so clearing the first match forgets the branch.
THEOREM UniqueEntries == PSpec => []BTBUnique
<1>1. BTBInv => BTBUnique
  BY DEF BTBInv
<1>2. QED
  BY <1>1, BTBInvHolds, PTL

\* What the BTB answers for a branch is what it was last told of it.
THEOREM Faithful == PSpec => []BTBFaithful
<1>1. BTBInv => BTBFaithful
  <2> SUFFICES ASSUME BTBInv, NEW pc \in PCs, getTarget(pc) # NoTarget
               PROVE  getTarget(pc) = told[pc]
    BY DEF BTBFaithful
  <2>1. PICK i \in BTBSlots : /\ BTB[i].valid
                              /\ BTB[i].PC = pc
                              /\ getTarget(pc) = BTB[i].target
    BY GetTargetEntry
  <2>2. QED
    BY <2>1 DEF BTBInv
<1>2. QED
  BY <1>1, BTBInvHolds, PTL

\* With a free entry the update of a taken branch is stored, and stays the one
\* that is found: it has no older duplicate.
THEOREM Remembers == PSpec => BTBRemembers
<1> DEFINE Kept ==
      \A pc \in PCs :
        told'[pc] # NoTarget /\ told'[pc] # told[pc] /\ Free # {}
          => getTarget(pc)' = told'[pc]
<1>1. /\ PTypeOK /\ BTBInv /\ BTBInv' /\ [PNext]_pvars
      => [Kept]_pvars
  <2> SUFFICES ASSUME PTypeOK, BTBInv', [PNext]_pvars, NEW pc \in PCs,
                      told'[pc] # NoTarget, told'[pc] # told[pc], Free # {}
               PROVE  getTarget(pc)' = told'[pc]
    OBVIOUS
  <2>1. PICK target \in PCs : update(pc, TRUE, target) /\ told'[pc] = target
    <3>1. told \in [PCs -> PCs \cup {NoTarget}]
      BY DEF PTypeOK
    <3>2. PICK at \in PCs, target \in PCs, taken \in BOOLEAN : Update(at, taken, target)
      BY DEF PNext, Push, Pop, pvars
    <3>3. at = pc /\ taken /\ told'[pc] = target
      BY <3>1, <3>2 DEF Update
    <3>4. QED
      BY <3>2, <3>3 DEF Update
  <2>2. PICK i \in BTBSlots :
           BTB' = [BTB EXCEPT ![i] = [PC |-> pc, target |-> target, valid |-> TRUE]]
    BY <2>1, UpdateCases
  <2>3. BTB'[i].valid /\ BTB'[i].PC = pc
    BY <2>2 DEF PTypeOK
  <2>4. Matching(pc)' # {}
    BY <2>3 DEF Matching, BTBSlots
  <2>5. First(Matching(pc)') \in Matching(pc)'
    <3>1. Matching(pc)' \in SUBSET Nat
      BY BPAssumption DEF Matching, BTBSlots
    <3>2. QED
      BY <2>4, <3>1, FirstIsMember
  <2>6. getTarget(pc)' = BTB'[First(Matching(pc)')].target
    BY <2>4 DEF getTarget, First
  <2>7. QED
    BY <2>5, <2>6 DEF BTBInv, Matching, BTBSlots
<1>2. QED
  BY <1>1, PTypeCorrect, BTBInvHolds, PTL DEF PSpec, BTBRemembers

-------------------------------------------------------------------------------
(* The return address stack.                                                 *)

\* The slot of the k-th newest call.
Back(k) == IF k <= RAS_next THEN RAS_next - k ELSE RAS_next - k + ras_size

\* As far as both the count and the ring reach, the ring holds the newest calls.
RASInv ==
  \A k \in 1 .. Len(calls) :
    k <= RAS_count => RAS[Back(k)] = calls[Len(calls) + 1 - k]

\* One step around the ring, in either direction.
LEMMA RingStep ==
  ASSUME RAS_next \in RASSlots
  PROVE  /\ (RAS_next + 1) % ras_size =
              IF RAS_next + 1 = ras_size THEN 0 ELSE RAS_next + 1
         /\ (RAS_next + ras_size - 1) % ras_size = Back(1)
<1>1. /\ ras_size \in Nat \ {0}
      /\ RAS_next \in 0 .. (ras_size - 1)
  BY BPAssumption DEF RASSlots
<1>2. \A a \in 0 .. (ras_size - 1) : a % ras_size = a /\ (a + ras_size) % ras_size = a
  BY <1>1
<1>3. (RAS_next + 1) % ras_size = IF RAS_next + 1 = ras_size THEN 0 ELSE RAS_next + 1
  BY <1>1, <1>2
<1>4. CASE 1 <= RAS_next
  <2>1. RAS_next - 1 \in 0 .. (ras_size - 1)
        /\ RAS_next + ras_size - 1 = (RAS_next - 1) + ras_size
    BY <1>1, <1>4
  <2>2. QED
    BY <1>2, <1>3, <1>4, <2>1 DEF Back
<1>5. CASE RAS_next = 0
  <2>1. ras_size - 1 \in 0 .. (ras_size - 1) /\ RAS_next + ras_size - 1 = ras_size - 1
        /\ RAS_next - 1 + ras_size = ras_size - 1
    BY <1>1, <1>5
  <2>2. QED
    BY <1>2, <1>3, <1>5, <2>1 DEF Back
<1>6. QED
  BY <1>1, <1>4, <1>5

\* The uint8_t count goes up by one, or wraps to 0.
LEMMA CountStep ==
  ASSUME NEW n \in Nat \ {0}, NEW count \in 0 .. (n - 1)
  PROVE  (count + 1) % n \in Nat /\ (count + 1) % n <= count + 1
<1>1. count + 1 \in Nat
  OBVIOUS
<1>2. (count + 1) % n \in 0 .. (n - 1)
  BY <1>1, Remainder
<1>3. CASE count + 1 \in 0 .. (n - 1)
  BY <1>3
<1>4. CASE count + 1 = n
  BY <1>2, <1>4
<1>5. QED
  BY <1>3, <1>4

\* A call takes the slot of the oldest, and moves the others back by one.
LEMMA PushKeeps ==
  ASSUME PTypeOK, RASInv, NEW pc \in PCs, Push(pc)
  PROVE  RASInv'
<1>1. /\ ras_size \in Nat \ {0} /\ CountMod \in Nat \ {0}
      /\ RAS_next \in 0 .. (ras_size - 1)
      /\ RAS_count \in 0 .. (CountMod - 1)
      /\ RAS \in [0 .. (ras_size - 1) -> PCs \cup {0}]
      /\ calls \in Seq(PCs) /\ Len(calls) \in Nat /\ Len(calls) <= ras_size
  BY BPAssumption DEF PTypeOK, RASSlots
<1>2. /\ RAS' = [RAS EXCEPT ![RAS_next] = pc]
      /\ RAS_next' = IF RAS_next + 1 = ras_size THEN 0 ELSE RAS_next + 1
      /\ RAS_count' \in Nat /\ RAS_count' <= RAS_count + 1
  <2>1. /\ (RAS_count + 1) % CountMod \in Nat
        /\ (RAS_count + 1) % CountMod <= RAS_count + 1
    BY <1>1, CountStep
  <2>2. QED
    BY <2>1, RingStep DEF Push, pushRAS, PTypeOK
<1>3. calls' = Called(pc)
  BY DEF Push
<1>4. /\ Len(calls') \in Nat /\ Len(calls') <= ras_size
      /\ Len(calls') <= Len(calls) + 1
      /\ calls'[Len(calls')] = pc
      /\ \A k \in 2 .. Len(calls') :
           calls'[Len(calls') + 1 - k] = calls[Len(calls) + 1 - (k - 1)]
  <2>1. CASE Len(calls) < ras_size
    <3>1. calls' = Append(calls, pc)
      BY <1>3, <2>1 DEF Called
    <3>2. QED
      BY <1>1, <2>1, <3>1
  <2>2. CASE Len(calls) = ras_size
    <3>1. calls # <<>> /\ calls' = Append(Tail(calls), pc)
      BY <1>1, <1>3, <2>2 DEF Called
    <3>2. /\ Tail(calls) \in Seq(PCs) /\ Len(Tail(calls)) = Len(calls) - 1
          /\ \A i \in 1 .. (Len(calls) - 1) : Tail(calls)[i] = calls[i + 1]
      BY <1>1, <3>1
    <3>3. QED
      BY <1>1, <2>2, <3>1, <3>2
  <2>3. QED
    BY <1>1, <2>1, <2>2
<1>5. ASSUME NEW k \in 1 .. Len(calls'), k <= RAS_count'
      PROVE  RAS'[Back(k)'] = calls'[Len(calls') + 1 - k]
  <2>1. CASE k = 1
    <3>1. Back(k)' = RAS_next
      BY <1>1, <1>2, <2>1 DEF Back
    <3>2. RAS'[RAS_next] = pc
      BY <1>1, <1>2
    <3>3. QED
      BY <1>4, <2>1, <3>1, <3>2
  <2>2. CASE k > 1
    <3>1. k - 1 \in 1 .. Len(calls) /\ k - 1 <= RAS_count /\ k - 1 < ras_size
      BY <1>1, <1>2, <1>4, <1>5, <2>2
    <3>2. Back(k)' = Back(k - 1) /\ Back(k - 1) \in 0 .. (ras_size - 1)
          /\ Back(k - 1) # RAS_next
      BY <1>1, <1>2, <2>2, <3>1 DEF Back
    <3>3. RAS'[Back(k)'] = RAS[Back(k - 1)]
      BY <1>1, <1>2, <3>2
    <3>4. RAS[Back(k - 1)] = calls[Len(calls) + 1 - (k - 1)]
      BY <3>1 DEF RASInv
    <3>5. QED
      BY <1>4, <2>2, <3>3, <3>4
  <2>3. QED
    BY <1>4, <2>1, <2>2
<1>6. QED
  BY <1>5 DEF RASInv

\* A return takes the newest away, and moves the others forward by one.
LEMMA PopKeeps ==
  ASSUME PTypeOK, RASInv, Pop
  PROVE  RASInv'
<1>1. /\ ras_size \in Nat \ {0}
      /\ RAS_next \in 0 .. (ras_size - 1)
      /\ RAS_count \in 0 .. (CountMod - 1) /\ CountMod \in Nat
      /\ calls \in Seq(PCs) /\ Len(calls) \in Nat /\ Len(calls) <= ras_size
  BY BPAssumption DEF PTypeOK, RASSlots
<1>2. CASE RAS_count = 0
  <2>1. RAS_count' = 0
    BY <1>2 DEF Pop, popRAS, rasVars
  <2>2. QED
    BY <2>1, SMT DEF RASInv
<1>3. CASE RAS_count # 0
  <2>1. RAS' = RAS /\ RAS_count' = RAS_count - 1 /\ RAS_next' = Back(1)
    BY <1>3, RingStep DEF Pop, popRAS, PTypeOK
  <2>2. CASE calls = <<>>
    BY <2>2 DEF Pop, RASInv
  <2>3. CASE calls # <<>>
    <3>1. calls' = SubSeq(calls, 1, Len(calls) - 1)
      BY <2>3 DEF Pop
    <3>2. /\ Len(calls) \in Nat \ {0} /\ Len(calls') = Len(calls) - 1
          /\ \A i \in 1 .. (Len(calls) - 1) : calls'[i] = calls[i]
      <4> DEFINE n == Len(calls) - 1
      <4>1. n \in Nat /\ n <= Len(calls) /\ Len(calls) \in Nat \ {0}
        BY <1>1, <2>3
      <4>2. \A i \in 1 .. n : calls[i] \in PCs
        BY <1>1, <4>1
      <4> HIDE DEF n
      <4>3. /\ Len(SubSeq(calls, 1, n)) = IF 1 <= n THEN n - 1 + 1 ELSE 0
            /\ \A i \in 1 .. (n - 1 + 1) : SubSeq(calls, 1, n)[i] = calls[1 + i - 1]
        BY <4>1, <4>2, SubSeqProperties
      <4>4. Len(SubSeq(calls, 1, n)) = n
            /\ \A i \in 1 .. n : SubSeq(calls, 1, n)[i] = calls[i]
        BY <4>1, <4>3
      <4>5. QED
        BY <3>1, <4>1, <4>4 DEF n
    <3>3. ASSUME NEW k \in 1 .. Len(calls'), k <= RAS_count'
          PROVE  RAS'[Back(k)'] = calls'[Len(calls') + 1 - k]
      <4>1. k + 1 \in 1 .. Len(calls) /\ k + 1 <= RAS_count /\ k + 1 <= ras_size
        BY <1>1, <2>1, <3>2, <3>3
      <4>2. Back(k)' = Back(k + 1)
        BY <1>1, <2>1, <4>1 DEF Back
      <4>3. RAS[Back(k + 1)] = calls[Len(calls) + 1 - (k + 1)]
        BY <4>1 DEF RASInv
      <4>4. calls'[Len(calls') + 1 - k] = calls[Len(calls) + 1 - (k + 1)]
        <5> DEFINE n == Len(calls)
        <5>1. n \in Nat /\ Len(calls') = n - 1 /\ k \in 1 .. (n - 1)
          BY <3>2, <3>3
        <5> HIDE DEF n
        <5>2. n - k \in 1 .. (n - 1) /\ n - 1 + 1 - k = n - k /\ n + 1 - (k + 1) = n - k
          BY <5>1
        <5>3. QED
          BY <3>2, <5>1, <5>2 DEF n
      <4>5. QED
        BY <2>1, <4>2, <4>3, <4>4
    <3>4. QED
      BY <3>3 DEF RASInv
  <2>4. QED
    BY <2>2, <2>3
<1>4. QED
  BY <1>2, <1>3

\* A prediction of the stack is the return of the innermost outstanding call,
\* however often the ring was overwritten and the count wrapped.
THEOREM NewestCall == PSpec => []RASNewest
<1>1. PInit => RASInv
  BY DEF PInit, RASInv
<1>2. PTypeOK /\ RASInv /\ [PNext]_pvars => RASInv'
  <2> SUFFICES ASSUME PTypeOK, RASInv, [PNext]_pvars
               PROVE  RASInv'
    OBVIOUS
  <2>1. ASSUME UNCHANGED <<rasVars, calls>>
        PROVE  RASInv'
    BY <2>1 DEF RASInv, Back, rasVars
  <2>2. QED
    BY <2>1, PushKeeps, PopKeeps DEF PNext, Update, pvars, bpVars, rasVars
<1>3. PTypeOK /\ RASInv => RASNewest
  <2> SUFFICES ASSUME PTypeOK, RASInv, calls # <<>>, RAS_count # 0
               PROVE  RASTop = calls[Len(calls)]
    BY DEF RASNewest
  <2>1. 1 \in 1 .. Len(calls) /\ 1 <= RAS_count /\ Len(calls) \in Nat
    BY BPAssumption DEF PTypeOK
  <2>2. RAS[Back(1)] = calls[Len(calls)]
    BY <2>1 DEF RASInv
  <2>3. QED
    BY <2>2, RingStep DEF RASTop, PTypeOK
<1>4. QED
  BY <1>1, <1>2, <1>3, PTypeCorrect, PTL DEF PSpec
================================================================================
