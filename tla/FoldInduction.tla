----------------------------- MODULE FoldInduction -----------------------------
(***************************************************************************)
(* An invariant of a fold.  The loops of the caches and of memory are      *)
(* translated to FoldLeft; a proof about one instantiates this module with *)
(* the loop's body as op and what holds before and after it as J.          *)
(***************************************************************************)
EXTENDS SequencesExt, WellFoundedInduction, TLAPS

CONSTANTS
  op(_, _, _, _, _), \* the step, with three parameters that stay the same
  J(_, _, _)         \* what holds, in a context, after so many steps, of the result

\* The fold that the code's loops are translated to.
Fold(p, q, r, base, seq) == FoldLeft(LAMBDA x, e : op(p, q, r, x, e), base, seq)

\* A set of natural numbers that is not empty has a least element.
LEMMA Least ==
  ASSUME NEW S \in SUBSET Nat, S # {}
  PROVE  \E i \in S : \A j \in S : i <= j
<1> DEFINE Below == {ss \in Nat \X Nat : ss[1] < ss[2]}
<1>1. OpToRel(<, Nat) = Below
  BY Zenon DEF OpToRel
<1>2. IsWellFoundedOn(Below, Nat)
  BY <1>1, NatLessThanWellFounded, Zenon
<1>a. \A a, b \in Nat : a < b => <<a, b>> \in Below
  <2> TAKE a, b \in Nat
  <2>1. <<a, b>> \in Nat \X Nat /\ <<a, b>>[1] = a /\ <<a, b>>[2] = b
    OBVIOUS
  <2>2. QED
    BY <2>1
<1> HIDE DEF Below
<1>3. PICK i \in S : \A j \in S : ~(<<j, i>> \in Below)
  BY <1>2, WFMin
<1>4. ASSUME NEW j \in S
      PROVE  i <= j
  <2>1. i \in Nat /\ j \in Nat
    OBVIOUS
  <2>2. ~(j < i)
    BY <1>3, <1>a, <2>1
  <2>3. QED
    BY <2>1, <2>2
<1>5. QED
  BY <1>4

\* The function by which the community modules define a fold over a sequence: it
\* gives, for a set of positions, the result of having taken those.
IsIter(f, p, q, r, base, seq, n) ==
  f = [s \in SUBSET (1 .. n) |->
         IF s = {} THEN base ELSE op(p, q, r, f[s \ {Max(s)}], seq[Max(s)])]

\* That function for one position more.
LEMMA IterExtends ==
  ASSUME NEW p, NEW q, NEW r, NEW base, NEW seq, NEW n \in Nat,
         \E f : IsIter(f, p, q, r, base, seq, n)
  PROVE  \E f : IsIter(f, p, q, r, base, seq, n + 1)
<1>1. PICK f : IsIter(f, p, q, r, base, seq, n)
  OBVIOUS
<1> DEFINE g == [s \in SUBSET (1 .. n + 1) |->
                   IF n + 1 \in s THEN op(p, q, r, f[s \ {n + 1}], seq[n + 1])
                   ELSE f[s]]
<1>2. ASSUME NEW s \in SUBSET (1 .. n + 1)
      PROVE  g[s] = IF s = {} THEN base
                    ELSE op(p, q, r, g[s \ {Max(s)}], seq[Max(s)])
  <2>1. CASE n + 1 \in s
    <3>1. Max(s) = n + 1
      <4>1. n + 1 \in s /\ \A y \in s : n + 1 >= y
        BY <2>1
      <4>2. \A x \in s : (\A y \in s : x >= y) => x = n + 1
        BY <2>1
      <4>3. QED
        BY <4>1, <4>2, Zenon DEF Max
    <3>2. s \ {n + 1} \in SUBSET (1 .. n) /\ s \ {n + 1} \in SUBSET (1 .. n + 1)
      OBVIOUS
    <3>3. g[s \ {n + 1}] = f[s \ {n + 1}]
      BY <3>2
    <3>4. QED
      BY <2>1, <3>1, <3>3
  <2>2. CASE s = {}
    <3>1. f[s] = base
      BY <1>1, <2>2 DEF IsIter
    <3>2. QED
      BY <2>2, <3>1
  <2>3. CASE s # {} /\ n + 1 \notin s
    <3>1. s \in SUBSET (1 .. n)
      BY <2>3
    <3>2. s \ {Max(s)} \in SUBSET (1 .. n) /\ s \ {Max(s)} \in SUBSET (1 .. n + 1)
      BY <3>1
    <3>3. f[s] = op(p, q, r, f[s \ {Max(s)}], seq[Max(s)])
      BY <1>1, <2>3, <3>1 DEF IsIter
    <3>4. g[s] = f[s]
      BY <2>3
    <3>5. g[s \ {Max(s)}] = f[s \ {Max(s)}]
      BY <2>3, <3>2
    <3>6. QED
      BY <2>3, <3>3, <3>4, <3>5
  <2>4. QED
    BY <2>1, <2>2, <2>3
<1>3. IsIter(g, p, q, r, base, seq, n + 1)
  <2>1. g = [s \in SUBSET (1 .. n + 1) |-> g[s]]
    OBVIOUS
  <2> HIDE DEF g
  <2>2. QED
    BY <2>1, <1>2 DEF IsIter
<1>4. QED
  BY <1>3

\* It exists for any number of positions, so CHOOSE finds it.
LEMMA IterExists ==
  ASSUME NEW p, NEW q, NEW r, NEW base, NEW seq, NEW n \in Nat
  PROVE  \E f : IsIter(f, p, q, r, base, seq, n)
<1> DEFINE Bad == {m \in Nat : ~ \E f : IsIter(f, p, q, r, base, seq, m)}
<1>1. SUFFICES ASSUME Bad # {} PROVE FALSE
  OBVIOUS
<1>2. Bad \in SUBSET Nat
  OBVIOUS
<1>3. PICK i \in Bad : \A j \in Bad : i <= j
  BY <1>1, <1>2, Least
<1>4. i # 0
  <2> SUFFICES \E f : IsIter(f, p, q, r, base, seq, 0)
    BY <1>3
  <2> WITNESS [s \in SUBSET (1 .. 0) |-> base]
  <2>1. \A s \in SUBSET (1 .. 0) : s = {}
    OBVIOUS
  <2>2. QED
    BY <2>1 DEF IsIter
<1>5. i - 1 \in Nat /\ i - 1 < i /\ (i - 1) + 1 = i
  BY <1>3, <1>4
<1>6. \E f : IsIter(f, p, q, r, base, seq, i - 1)
  BY <1>3, <1>5
<1>7. QED
  BY <1>3, <1>5, <1>6, IterExtends

\* The fold is its value for all the positions.
LEMMA FoldIsIter ==
  ASSUME NEW p, NEW q, NEW r, NEW base, NEW S, NEW seq \in Seq(S)
  PROVE  \E f : /\ IsIter(f, p, q, r, base, seq, Len(seq))
                /\ Fold(p, q, r, base, seq) = f[1 .. Len(seq)]
<1> DEFINE f == CHOOSE f : IsIter(f, p, q, r, base, seq, Len(seq))
<1>1. IsIter(f, p, q, r, base, seq, Len(seq))
  BY IterExists
<1>2. DOMAIN seq = 1 .. Len(seq)
  OBVIOUS
<1>3. Fold(p, q, r, base, seq) = f[DOMAIN seq]
  BY <1>2, Zenon DEF Fold, FoldLeft, MapThenFoldSet, IsIter
<1>4. QED
  BY <1>1, <1>2, <1>3, Zenon

\* What holds of the base, and of each intermediate result if it held of the one
\* before, holds of the fold.
THEOREM FoldInvariant ==
  ASSUME NEW p, NEW q, NEW r, NEW ctx, NEW base, NEW S, NEW seq \in Seq(S),
         J(ctx, 0, base),
         \A k \in 1 .. Len(seq) : \A x :
            J(ctx, k - 1, x) => J(ctx, k, op(p, q, r, x, seq[k]))
  PROVE  J(ctx, Len(seq), Fold(p, q, r, base, seq))
<1> DEFINE n == Len(seq)
<1>1. PICK f : IsIter(f, p, q, r, base, seq, n) /\ Fold(p, q, r, base, seq) = f[1 .. n]
  BY FoldIsIter
<1>2. n \in Nat
  OBVIOUS
<1> DEFINE Bad == {k \in 0 .. n : ~J(ctx, k, f[1 .. k])}
<1>3. ASSUME Bad # {} PROVE FALSE
  <2>1. Bad \in SUBSET Nat
    OBVIOUS
  <2>2. PICK k \in Bad : \A j \in Bad : k <= j
    BY <1>3, <2>1, Least
  <2>3. k # 0
    <3>1. 1 .. 0 = {} /\ {} \in SUBSET (1 .. n)
      OBVIOUS
    <3>2. f[{}] = base
      BY <1>1, <3>1 DEF IsIter
    <3>3. f[1 .. 0] = base
      BY <3>1, <3>2
    <3>4. QED
      BY <2>2, <3>3
  <2>4. k \in 1 .. n /\ k - 1 \in 0 .. n /\ k - 1 < k
    BY <2>2, <2>3
  <2>5. J(ctx, k - 1, f[1 .. (k - 1)])
    BY <2>2, <2>4
  <2>6. f[1 .. k] = op(p, q, r, f[1 .. (k - 1)], seq[k])
    <3>1. Max(1 .. k) = k
      <4>1. k \in 1 .. k /\ \A y \in 1 .. k : k >= y
        BY <2>4
      <4>2. \A x \in 1 .. k : (\A y \in 1 .. k : x >= y) => x = k
        BY <2>4
      <4>3. QED
        BY <4>1, <4>2, Zenon DEF Max
    <3>2. 1 .. k \in SUBSET (1 .. n) /\ 1 .. k # {} /\ (1 .. k) \ {k} = 1 .. (k - 1)
      <4> HIDE DEF n
      <4>1. k \in 1 .. n /\ n \in Nat
        BY <1>2, <2>4
      <4>2. 1 .. k \in SUBSET (1 .. n) /\ k \in 1 .. k
        BY <4>1
      <4>3. (1 .. k) \ {k} = 1 .. (k - 1)
        BY <4>1
      <4>4. QED
        BY <4>2, <4>3
    <3>3. QED
      BY <1>1, <3>1, <3>2 DEF IsIter
  <2>7. J(ctx, k, f[1 .. k])
    BY <2>4, <2>5, <2>6
  <2>8. QED
    BY <2>2, <2>7
<1>4. J(ctx, n, f[1 .. n])
  BY <1>2, <1>3
<1>5. QED
  BY <1>1, <1>4
================================================================================
