------------------------------- MODULE MemEffects -------------------------------
(***************************************************************************)
(* What each operator of MemHierarchy does to a state: the types it keeps, *)
(* the queues, blocks and MSHR entries it changes and the assertions it    *)
(* may fail, for caches of any geometry, any number of MSHR entries and    *)
(* any delays.  The loops of the code go through FoldInduction.            *)
(***************************************************************************)
EXTENDS MemProperties, SequenceTheorems, FunctionTheorems, FiniteSetTheorems, TLAPS

-------------------------------------------------------------------------------
(* Constants, addresses and the places of a block.                           *)

\* What the assumptions on the constants say, one fact at a time.
LEMMA Geometry ==
  /\ BlkSize \in Nat \ {0}
  /\ \A c \in Caches : /\ NumSets[c] \in Nat \ {0} /\ NumWays[c] \in Nat \ {0}
                       /\ MshrEntries[c] \in Nat \ {0}
                       /\ MshrSubentries[c] \in Nat \ {0}
  /\ \A c \in Levels : Delay[c] \in Nat \ {0} /\ QueueCap[c] \in Nat \ {0}
  /\ Caches \subseteq Levels
<1>1. \A c \in Caches : {NumSets[c], NumWays[c], MshrEntries[c],
                         MshrSubentries[c]} \subseteq Nat \ {0}
  BY HierarchyAssumption
<1>2. \A c \in Levels : {Delay[c], QueueCap[c]} \subseteq Nat \ {0}
  BY HierarchyAssumption
<1>3. Caches \subseteq Levels
  BY DEF Levels
<1>4. QED
  BY <1>1, <1>2, <1>3, HierarchyAssumption

\* Quotient and remainder determine a number.
LEMMA Division ==
  ASSUME NEW n \in Nat \ {0}
  PROVE  /\ \A b \in Nat : /\ b \div n \in Nat /\ b % n \in 0 .. (n - 1)
                           /\ (b \div n) * n + (b % n) = b
         /\ \A t \in Nat, s \in 0 .. (n - 1) :
              /\ t * n + s \in Nat /\ (t * n + s) \div n = t /\ (t * n + s) % n = s
         /\ \A t \in Nat : t * n \in Nat /\ (t * n) \div n = t /\ (t * n) % n = 0
  OBVIOUS

\* Words are in blocks, of text or of data and never of both.
LEMMA WordIsAddress ==
  /\ TextBlocks \subseteq Nat /\ DataBlocks \subseteq Nat
  /\ Blocks = TextBlocks \cup DataBlocks
  /\ TextBlocks \cap DataBlocks = {}
  /\ \A a \in TextWords : a \in Nat /\ BlockOf(a) \in TextBlocks
  /\ \A a \in DataWords : a \in Nat /\ BlockOf(a) \in DataBlocks
<1>1. TextWords \subseteq Nat /\ DataWords \subseteq Nat
  BY HierarchyAssumption
<1>2. \A a \in Nat : BlockOf(a) \in Nat
  BY Geometry, Division DEF BlockOf
<1>3. TextBlocks \cap DataBlocks = {}
  BY HierarchyAssumption DEF TextBlocks, DataBlocks
<1>4. Blocks = TextBlocks \cup DataBlocks
  BY DEF Blocks, TextBlocks, DataBlocks
<1>5. QED
  BY <1>1, <1>2, <1>3, <1>4 DEF TextBlocks, DataBlocks

\* The addresses of the words of a block.
LEMMA BlockAddresses ==
  ASSUME NEW b \in Blocks
  PROVE  /\ b \in Nat /\ b * BlkSize \in Nat /\ b * BlkSize \in Addresses
         /\ BlockOf(b * BlkSize) = b
         /\ BlockAddress(b * BlkSize) = b * BlkSize
         /\ \A o \in Offsets : /\ b * BlkSize + o \in Addresses
                               /\ b * BlkSize + o \in Nat
                               /\ BlockOf(b * BlkSize + o) = b
                               /\ (b * BlkSize + o) % BlkSize = o
<1>1. b \in Nat
  BY WordIsAddress
<1>2. 0 \in Offsets
  BY Geometry DEF Offsets
<1>3. \A o \in Offsets : b * BlkSize + o \in Addresses
  BY DEF Addresses
<1>4. b * BlkSize \in Nat /\ b * BlkSize + 0 = b * BlkSize
  BY <1>1, Geometry
<1>5. \A o \in Offsets : (b * BlkSize + o) \div BlkSize = b
                           /\ (b * BlkSize + o) % BlkSize = o
                           /\ b * BlkSize + o \in Nat
  <2> TAKE o \in Offsets
  <2>1. o \in 0 .. (BlkSize - 1) /\ BlkSize \in Nat \ {0}
    BY Geometry DEF Offsets
  <2>2. \A t \in Nat, s \in 0 .. (BlkSize - 1) :
          /\ t * BlkSize + s \in Nat /\ (t * BlkSize + s) \div BlkSize = t
          /\ (t * BlkSize + s) % BlkSize = s
    BY <2>1, Division
  <2>3. QED
    BY <1>1, <2>1, <2>2
<1>6. QED
  BY <1>1, <1>2, <1>3, <1>4, <1>5 DEF BlockOf, BlockAddress

\* An address is that of its block and an offset.
LEMMA AddressParts ==
  ASSUME NEW a \in Addresses
  PROVE  /\ a \in Nat /\ BlockOf(a) \in Blocks /\ a % BlkSize \in Offsets
         /\ BlockAddress(a) = BlockOf(a) * BlkSize
         /\ BlockAddress(a) + (a % BlkSize) = a
<1>1. PICK b \in Blocks, o \in Offsets : a = b * BlkSize + o
  BY DEF Addresses
<1>2. b \in Nat /\ o \in 0 .. (BlkSize - 1)
  BY WordIsAddress DEF Offsets
<1>3. BlockOf(a) = b /\ a % BlkSize = o
  BY <1>1, BlockAddresses
<1>4. a \in Nat
  BY <1>1, BlockAddresses
<1>5. QED
  BY <1>1, <1>2, <1>3, <1>4 DEF BlockAddress

\* What the core may ask for.
LEMMA WordsAreAddresses ==
  TextWords \subseteq Addresses /\ DataWords \subseteq Addresses
<1>1. ASSUME NEW a \in TextWords \cup DataWords
      PROVE  a \in Addresses
  <2>1. a \in Nat /\ BlockOf(a) \in Blocks
    BY WordIsAddress
  <2>2. a % BlkSize \in Offsets /\ BlockOf(a) * BlkSize + (a % BlkSize) = a
    BY <2>1, Geometry, Division DEF Offsets, BlockOf
  <2>3. QED
    BY <2>1, <2>2 DEF Addresses
<1>2. QED
  BY <1>1

\* The set and the tag of an address are those of its block, and give it back.
LEMMA Location ==
  ASSUME NEW c \in Caches, NEW a \in Addresses
  PROVE  /\ getLocation(c, a).set \in Sets(c)
         /\ getLocation(c, a).tag \in Nat
         /\ getLocation(c, a).tag * NumSets[c] + getLocation(c, a).set = BlockOf(a)
<1>1. BlockOf(a) \in Blocks /\ BlockOf(a) \in Nat
  BY AddressParts, WordIsAddress
<1>2. SetIndex[c][BlockOf(a)] = BlockOf(a) % NumSets[c]
  BY <1>1, MaskAssumption
<1>3. NumSets[c] \in Nat \ {0}
  BY Geometry
<1>4. /\ BlockOf(a) \div NumSets[c] \in Nat
      /\ BlockOf(a) % NumSets[c] \in 0 .. (NumSets[c] - 1)
      /\ (BlockOf(a) \div NumSets[c]) * NumSets[c] + (BlockOf(a) % NumSets[c]) = BlockOf(a)
  BY <1>1, <1>3, Division
<1>5. /\ getLocation(c, a).tag = BlockOf(a) \div NumSets[c]
      /\ getLocation(c, a).set = BlockOf(a) % NumSets[c]
  BY <1>2 DEF getLocation
<1>6. QED
  BY <1>4, <1>5 DEF Sets

\* Two tags and sets for the same block are the same.
LEMMA SameLocation ==
  ASSUME NEW c \in Caches, NEW t1 \in Nat, NEW t2 \in Nat,
         NEW s1 \in Sets(c), NEW s2 \in Sets(c),
         t1 * NumSets[c] + s1 = t2 * NumSets[c] + s2
  PROVE  t1 = t2 /\ s1 = s2
<1>1. NumSets[c] \in Nat \ {0}
  BY Geometry
<1>2. /\ (t1 * NumSets[c] + s1) \div NumSets[c] = t1
      /\ (t1 * NumSets[c] + s1) % NumSets[c] = s1
      /\ (t2 * NumSets[c] + s2) \div NumSets[c] = t2
      /\ (t2 * NumSets[c] + s2) % NumSets[c] = s2
  BY <1>1, Division DEF Sets
<1>3. QED
  BY <1>2

-------------------------------------------------------------------------------
(* Counting requests.                                                        *)

\* A one-to-one correspondence.
LEMMA SameSize ==
  ASSUME NEW S, NEW T, IsFiniteSet(S), NEW f \in [S -> T],
         \A a, b \in S : f[a] = f[b] => a = b,
         \A t \in T : \E a \in S : f[a] = t
  PROVE  IsFiniteSet(T) /\ Cardinality(T) = Cardinality(S)
<1>1. f \in Bijection(S, T)
  BY Fun_IsBij
<1>2. ExistsBijection(S, T)
  BY <1>1, Fun_ExistsBij
<1>3. QED
  BY <1>2, FS_Bijection

\* One, or none.
LEMMA OneIfType ==
  ASSUME NEW b
  PROVE  OneIf(b) \in {0, 1} /\ (b => OneIf(b) = 1) /\ (~b => OneIf(b) = 0)
  BY DEF OneIf

\* The places in a queue.
LEMMA NumType ==
  ASSUME NEW S, NEW q \in Seq(S), NEW kind, NEW addr
  PROVE  /\ DOMAIN q = 1 .. Len(q) /\ Len(q) \in Nat
         /\ IsFiniteSet({i \in DOMAIN q : Is(q[i], kind, addr)})
         /\ Num(q, kind, addr) \in Nat
<1>1. DOMAIN q = 1 .. Len(q) /\ Len(q) \in Nat
  OBVIOUS
<1>2. IsFiniteSet(1 .. Len(q))
  BY <1>1, FS_Interval
<1>3. {i \in DOMAIN q : Is(q[i], kind, addr)} \in SUBSET (1 .. Len(q))
  BY <1>1
<1>4. IsFiniteSet({i \in DOMAIN q : Is(q[i], kind, addr)})
  BY <1>2, <1>3, FS_Subset
<1>5. QED
  BY <1>1, <1>4, FS_CardinalityType DEF Num

\* A packet is put at the end.
LEMMA NumAppend ==
  ASSUME NEW S, NEW q \in Seq(S), NEW x \in S, NEW kind, NEW addr
  PROVE  Num(Append(q, x), kind, addr) = Num(q, kind, addr) + OneIf(Is(x, kind, addr))
<1>1. PICK r : r = Append(q, x)
  OBVIOUS
<1>2. PICK n \in Nat : n = Len(q)
  OBVIOUS
<1>3. /\ DOMAIN r = 1 .. (n + 1) /\ DOMAIN q = 1 .. n
      /\ \A i \in 1 .. n : r[i] = q[i]
      /\ r[n + 1] = x
  BY <1>1, <1>2
<1>4. PICK A : A = {i \in DOMAIN q : Is(q[i], kind, addr)}
  OBVIOUS
<1>5. PICK B : B = {i \in DOMAIN r : Is(r[i], kind, addr)}
  OBVIOUS
<1>6. IsFiniteSet(A) /\ Num(q, kind, addr) = Cardinality(A) /\ Cardinality(A) \in Nat
  BY <1>4, NumType DEF Num
<1>7. Num(r, kind, addr) = Cardinality(B)
  BY <1>5 DEF Num
<1>8. n + 1 \notin A
  BY <1>3, <1>4
<1>9. CASE Is(x, kind, addr)
  <2>1. B = A \cup {n + 1}
    BY <1>3, <1>4, <1>5, <1>9
  <2>2. Cardinality(B) = Cardinality(A) + 1
    BY <1>6, <1>8, <2>1, FS_AddElement
  <2>3. QED
    BY <1>1, <1>6, <1>7, <1>9, <2>2, OneIfType
<1>10. CASE ~Is(x, kind, addr)
  <2>1. B = A
    BY <1>3, <1>4, <1>5, <1>10
  <2>2. QED
    BY <1>1, <1>6, <1>7, <1>10, <2>1, OneIfType
<1>11. QED
  BY <1>9, <1>10

\* A queue after another.
LEMMA NumJoined ==
  ASSUME NEW S, NEW q \in Seq(S), NEW r \in Seq(S), NEW kind, NEW addr
  PROVE  Num(q \o r, kind, addr) = Num(q, kind, addr) + Num(r, kind, addr)
<1>1. PICK t : t = q \o r
  OBVIOUS
<1>2. PICK n \in Nat, m \in Nat : n = Len(q) /\ m = Len(r)
  OBVIOUS
<1>3. /\ t \in Seq(S) /\ Len(t) = n + m
      /\ \A i \in 1 .. (n + m) : t[i] = IF i <= n THEN q[i] ELSE r[i - n]
  BY <1>1, <1>2, ConcatProperties
<1>4. DOMAIN t = 1 .. (n + m) /\ DOMAIN q = 1 .. n /\ DOMAIN r = 1 .. m
  BY <1>2, <1>3
<1>5. PICK A : A = {i \in DOMAIN q : Is(q[i], kind, addr)}
  OBVIOUS
<1>6. PICK B : B = {i \in DOMAIN r : Is(r[i], kind, addr)}
  OBVIOUS
<1>7. PICK D : D = {i \in DOMAIN t : Is(t[i], kind, addr)}
  OBVIOUS
<1>8. /\ IsFiniteSet(A) /\ Num(q, kind, addr) = Cardinality(A)
      /\ IsFiniteSet(B) /\ Num(r, kind, addr) = Cardinality(B)
      /\ Num(t, kind, addr) = Cardinality(D)
  BY <1>5, <1>6, <1>7, NumType DEF Num
<1>9. PICK U : U = {i \in D : i > n}
  OBVIOUS
<1>10. D = A \cup U /\ A \cap U = {}
  <2>1. \A i \in 1 .. n : i \in D <=> i \in A
    BY <1>3, <1>4, <1>5, <1>7
  <2>2. D \subseteq 1 .. (n + m) /\ A \subseteq 1 .. n
    BY <1>4, <1>5, <1>7
  <2>3. \A i \in D : i \in A \/ i > n
    BY <2>1, <2>2
  <2>4. \A i \in A : i \in D /\ ~(i > n)
    BY <2>1, <2>2
  <2>5. QED
    BY <1>9, <2>3, <2>4
<1>11. IsFiniteSet(U) /\ Cardinality(U) = Cardinality(B)
  <2>1. PICK f : f = [i \in B |-> i + n]
    OBVIOUS
  <2>2. \A i \in 1 .. m : i \in B <=> i + n \in U
    <3> TAKE i \in 1 .. m
    <3>1. i + n \in 1 .. (n + m) /\ i + n > n /\ (i + n) - n = i /\ ~(i + n <= n)
      OBVIOUS
    <3>2. t[i + n] = r[i]
      BY <1>3, <3>1
    <3>3. QED
      BY <1>4, <1>6, <1>7, <1>9, <3>1, <3>2
  <2>3. B \subseteq 1 .. m
    BY <1>4, <1>6
  <2>4. f \in [B -> U] /\ \A a, b \in B : f[a] = f[b] => a = b
    BY <2>1, <2>2, <2>3
  <2>5. \A u \in U : \E a \in B : f[a] = u
    <3> TAKE u \in U
    <3>1. u \in 1 .. (n + m) /\ u > n
      BY <1>4, <1>7, <1>9
    <3>2. PICK i \in 1 .. m : u = i + n
      <4>1. u - n \in 1 .. m /\ u = (u - n) + n
        BY <3>1
      <4>2. QED
        BY <4>1
    <3>3. i \in B
      BY <2>2, <3>2
    <3>4. QED
      BY <2>1, <3>2, <3>3
  <2>6. QED
    BY <1>8, <2>4, <2>5, SameSize
<1>12. Cardinality(D) = Cardinality(A) + Cardinality(U)
  <2>1. Cardinality(A \cap U) = 0
    BY <1>10, FS_EmptySet
  <2>2. Cardinality(A) \in Nat /\ Cardinality(U) \in Nat
    BY <1>8, <1>11, FS_CardinalityType
  <2>3. Cardinality(A \cup U) = Cardinality(A) + Cardinality(U) - Cardinality(A \cap U)
    BY <1>8, <1>11, FS_Union
  <2>4. QED
    BY <1>10, <2>1, <2>2, <2>3
<1>13. QED
  BY <1>1, <1>8, <1>11, <1>12

\* The first packet leaves.
LEMMA NumTail ==
  ASSUME NEW S, NEW q \in Seq(S), q # <<>>, NEW kind, NEW addr
  PROVE  Num(q, kind, addr) = OneIf(Is(Head(q), kind, addr)) + Num(Tail(q), kind, addr)
<1>1. PICK h \in S : h = Head(q)
  BY HeadTailProperties
<1>2. PICK r \in Seq(S) : r = Tail(q)
  BY HeadTailProperties
<1>b. <<>> \in Seq(S) /\ <<h>> \in Seq(S)
  OBVIOUS
<1>3. PICK none \in Seq(S) : none = <<>>
  BY <1>b, Zenon
<1>a. PICK one \in Seq(S) : one = <<h>>
  BY <1>b, Zenon
<1>4. q = one \o r /\ one = Append(none, h)
  BY <1>1, <1>2, <1>3, <1>a
<1>5. Num(none, kind, addr) = 0
  <2>1. {i \in DOMAIN none : Is(none[i], kind, addr)} = {}
    BY <1>3
  <2>2. QED
    BY <2>1, FS_EmptySet DEF Num
<1>6. Num(Append(none, h), kind, addr) = Num(none, kind, addr) + OneIf(Is(h, kind, addr))
  BY NumAppend
<1>7. Num(one \o r, kind, addr) = Num(one, kind, addr) + Num(r, kind, addr)
  BY NumJoined
<1>8. OneIf(Is(h, kind, addr)) \in {0, 1}
  BY OneIfType
<1>9. Num(r, kind, addr) \in Nat
  BY NumType
<1>10. Num(one, kind, addr) = OneIf(Is(h, kind, addr))
  BY <1>4, <1>5, <1>6, <1>8
<1>11. Num(q, kind, addr) = Num(one, kind, addr) + Num(r, kind, addr)
  BY <1>4, <1>7
<1>12. QED
  BY <1>1, <1>2, <1>10, <1>11

\* The places in the MSHR entries of a cache.
WaitNum(s, c, kind, addr) == Cardinality(Waiting(s, c, kind, addr))

\* They are finitely many.
LEMMA WaitType ==
  ASSUME NEW s, NEW c \in Caches, NEW kind, NEW addr
  PROVE  /\ IsFiniteSet(Waiting(s, c, kind, addr))
         /\ Waiting(s, c, kind, addr) \subseteq
              (1 .. MshrEntries[c]) \X (1 .. MshrSubentries[c])
         /\ WaitNum(s, c, kind, addr) \in Nat
<1>1. PICK n \in Nat, m \in Nat : n = MshrEntries[c] /\ m = MshrSubentries[c]
  BY Geometry
<1>2. IsFiniteSet(1 .. n) /\ IsFiniteSet(1 .. m)
  BY FS_Interval
<1>3. IsFiniteSet((1 .. n) \X (1 .. m))
  BY <1>2, FS_Product
<1>4. Waiting(s, c, kind, addr) \in SUBSET ((1 .. n) \X (1 .. m))
  BY <1>1 DEF Waiting
<1>5. IsFiniteSet(Waiting(s, c, kind, addr))
  BY <1>3, <1>4, FS_Subset
<1>6. QED
  BY <1>1, <1>4, <1>5, FS_CardinalityType DEF WaitNum

\* The same packets wait.
SameWaiting(s, r, c) ==
  \A i \in 1 .. MshrEntries[c] : r.mshr[c][i].sub = s.mshr[c][i].sub

\* Nothing waits that did not.
LEMMA WaitSame ==
  ASSUME NEW s, NEW r, NEW c \in Caches, SameWaiting(s, r, c), NEW kind, NEW addr
  PROVE  WaitNum(r, c, kind, addr) = WaitNum(s, c, kind, addr)
<1>1. \A w \in (1 .. MshrEntries[c]) \X (1 .. MshrSubentries[c]) :
        r.mshr[c][w[1]].sub = s.mshr[c][w[1]].sub
  BY DEF SameWaiting
<1>2. Waiting(r, c, kind, addr) = Waiting(s, c, kind, addr)
  BY <1>1 DEF Waiting
<1>3. QED
  BY <1>2 DEF WaitNum

\* The waiting packets of an entry.
LEMMA SubTyped ==
  ASSUME NEW s, Typed(s), NEW c \in Caches, NEW j \in 1 .. MshrEntries[c]
  PROVE  /\ s.mshr[c][j].sub \in Seq(PacketSet(c))
         /\ Len(s.mshr[c][j].sub) \in Nat
         /\ Len(s.mshr[c][j].sub) <= MshrSubentries[c]
         /\ MshrSubentries[c] \in Nat
<1>1. s.mshr[c][j] \in EntrySet(c)
  BY DEF Typed, MshrTyped
<1>2. s.mshr[c][j].sub \in Seq(PacketSet(c)) /\ Len(s.mshr[c][j].sub) <= MshrSubentries[c]
  BY <1>1 DEF EntrySet
<1>3. MshrSubentries[c] \in Nat
  BY Geometry
<1>4. Len(s.mshr[c][j].sub) \in Nat
  <2>1. PICK q \in Seq(PacketSet(c)) : q = s.mshr[c][j].sub
    BY <1>2
  <2>2. Len(q) \in Nat
    OBVIOUS
  <2>3. QED
    BY <2>1, <2>2
<1>5. QED
  BY <1>2, <1>3, <1>4

\* A place, in terms of its entry.
LEMMA WaitsAt ==
  ASSUME NEW s, Typed(s), NEW c \in Caches, NEW kind, NEW addr,
         NEW j \in 1 .. MshrEntries[c], NEW i \in Nat \ {0}
  PROVE  <<j, i>> \in Waiting(s, c, kind, addr)
           <=> i <= Len(s.mshr[c][j].sub) /\ Is(s.mshr[c][j].sub[i], kind, addr)
<1>1. /\ Len(s.mshr[c][j].sub) \in Nat /\ Len(s.mshr[c][j].sub) <= MshrSubentries[c]
      /\ MshrSubentries[c] \in Nat
  BY SubTyped
<1>2. PICK w : w = <<j, i>>
  OBVIOUS
<1>3. w[1] = j /\ w[2] = i
  BY <1>2
<1>4. i <= Len(s.mshr[c][j].sub) => w \in (1 .. MshrEntries[c]) \X (1 .. MshrSubentries[c])
  BY <1>1, <1>2
<1>5. w \in Waiting(s, c, kind, addr)
        <=> i <= Len(s.mshr[c][j].sub) /\ Is(s.mshr[c][j].sub[i], kind, addr)
  BY <1>3, <1>4 DEF Waiting
<1>6. QED
  BY <1>2, <1>5

\* A packet joins those of an entry.
Joins(s, c, j, p, r) ==
  /\ r.mshr[c][j].sub = Append(s.mshr[c][j].sub, p)
  /\ \A i \in (1 .. MshrEntries[c]) \ {j} : r.mshr[c][i] = s.mshr[c][i]

\* A packet joins an entry.
LEMMA WaitMore ==
  ASSUME NEW s, Typed(s), NEW r, Typed(r), NEW c \in Caches, NEW j \in 1 .. MshrEntries[c],
         NEW p \in PacketSet(c), Joins(s, c, j, p, r), NEW kind, NEW addr
  PROVE  WaitNum(r, c, kind, addr) = WaitNum(s, c, kind, addr) + OneIf(Is(p, kind, addr))
<1>1. PICK n \in Nat : n = Len(s.mshr[c][j].sub)
  BY SubTyped
<1>2. /\ Len(r.mshr[c][j].sub) = n + 1
      /\ \A i \in 1 .. n : r.mshr[c][j].sub[i] = s.mshr[c][j].sub[i]
      /\ r.mshr[c][j].sub[n + 1] = p
  <2>1. PICK q \in Seq(PacketSet(c)) : q = s.mshr[c][j].sub
    BY SubTyped
  <2>2. /\ Len(Append(q, p)) = Len(q) + 1
        /\ \A i \in 1 .. Len(q) : Append(q, p)[i] = q[i]
        /\ Append(q, p)[Len(q) + 1] = p
    BY AppendProperties
  <2>3. r.mshr[c][j].sub = Append(q, p)
    BY <2>1 DEF Joins
  <2>4. QED
    BY <1>1, <2>1, <2>2, <2>3
<1>3. PICK A : A = Waiting(s, c, kind, addr)
  OBVIOUS
<1>4. PICK B : B = Waiting(r, c, kind, addr)
  OBVIOUS
<1>w. \A k \in 1 .. MshrEntries[c], i \in Nat \ {0} :
        /\ <<k, i>> \in A <=> i <= Len(s.mshr[c][k].sub) /\ Is(s.mshr[c][k].sub[i], kind, addr)
        /\ <<k, i>> \in B <=> i <= Len(r.mshr[c][k].sub) /\ Is(r.mshr[c][k].sub[i], kind, addr)
  <2> TAKE k \in 1 .. MshrEntries[c], i \in Nat \ {0}
  <2>1. <<k, i>> \in Waiting(s, c, kind, addr)
          <=> i <= Len(s.mshr[c][k].sub) /\ Is(s.mshr[c][k].sub[i], kind, addr)
    BY WaitsAt
  <2>2. <<k, i>> \in Waiting(r, c, kind, addr)
          <=> i <= Len(r.mshr[c][k].sub) /\ Is(r.mshr[c][k].sub[i], kind, addr)
    BY WaitsAt
  <2>3. QED
    BY <1>3, <1>4, <2>1, <2>2
<1>5. IsFiniteSet(A) /\ Cardinality(A) \in Nat
  BY <1>3, WaitType DEF WaitNum
<1>6. <<j, n + 1>> \notin A
  <2>1. n + 1 \in Nat \ {0} /\ ~(n + 1 <= n)
    OBVIOUS
  <2>2. QED
    BY <1>1, <1>w, <2>1
<1>7. <<j, n + 1>> \in B <=> Is(p, kind, addr)
  <2>1. n + 1 \in Nat \ {0} /\ n + 1 <= n + 1
    OBVIOUS
  <2>2. QED
    BY <1>2, <1>w, <2>1
<1>8. ASSUME NEW k \in 1 .. MshrEntries[c], NEW i \in 1 .. MshrSubentries[c],
             <<k, i>> # <<j, n + 1>>
      PROVE  <<k, i>> \in B <=> <<k, i>> \in A
  <2>1. i \in Nat \ {0}
    BY Geometry
  <2>2. CASE k # j
    <3>1. r.mshr[c][k] = s.mshr[c][k]
      BY <2>2 DEF Joins
    <3>2. QED
      BY <1>w, <2>1, <3>1
  <2>3. CASE k = j
    <3>1. i # n + 1
      BY <1>8, <2>3
    <3>2. i <= n + 1 <=> i <= n
      BY <2>1, <3>1
    <3>3. i <= n => r.mshr[c][j].sub[i] = s.mshr[c][j].sub[i]
      BY <1>2, <2>1
    <3>4. <<j, i>> \in A <=> i <= n /\ Is(s.mshr[c][j].sub[i], kind, addr)
      BY <1>1, <1>w, <2>1
    <3>5. <<j, i>> \in B <=> i <= n + 1 /\ Is(r.mshr[c][j].sub[i], kind, addr)
      BY <1>2, <1>w, <2>1
    <3>6. QED
      BY <2>3, <3>2, <3>3, <3>4, <3>5
  <2>4. QED
    BY <2>2, <2>3
<1>9. \A w : w # <<j, n + 1>> => (w \in B <=> w \in A)
  <2>1. /\ A \subseteq (1 .. MshrEntries[c]) \X (1 .. MshrSubentries[c])
        /\ B \subseteq (1 .. MshrEntries[c]) \X (1 .. MshrSubentries[c])
    BY <1>3, <1>4, WaitType
  <2>2. ASSUME NEW w, w \in A \cup B
        PROVE  /\ w[1] \in 1 .. MshrEntries[c] /\ w[2] \in 1 .. MshrSubentries[c]
               /\ w = <<w[1], w[2]>>
    BY <2>1, <2>2
  <2>3. ASSUME NEW w, w # <<j, n + 1>>, w \in A \cup B
        PROVE  w \in B <=> w \in A
    <3>1. /\ w[1] \in 1 .. MshrEntries[c] /\ w[2] \in 1 .. MshrSubentries[c]
          /\ w = <<w[1], w[2]>>
      BY <2>2, <2>3
    <3>2. <<w[1], w[2]>> \in B <=> <<w[1], w[2]>> \in A
      BY <1>8, <2>3, <3>1
    <3>3. QED
      BY <3>1, <3>2
  <2>4. QED
    BY <2>3
<1>10. CASE Is(p, kind, addr)
  <2>1. B = A \cup {<<j, n + 1>>}
    BY <1>7, <1>9, <1>10, Zenon
  <2>2. Cardinality(B) = Cardinality(A) + 1
    BY <1>5, <1>6, <2>1, FS_AddElement
  <2>3. QED
    BY <1>3, <1>4, <1>10, <2>2, OneIfType DEF WaitNum
<1>11. CASE ~Is(p, kind, addr)
  <2>1. \A w : w \in B <=> w \in A
    BY <1>6, <1>7, <1>9, <1>11
  <2>3. B = A
    BY <2>1, Zenon
  <2>2. QED
    BY <1>3, <1>4, <1>5, <1>11, <2>3, OneIfType DEF WaitNum
<1>12. QED
  BY <1>10, <1>11

\* The first one in the first entry leaves, and the others move up.
LEMMA WaitLess ==
  ASSUME NEW s, Typed(s), NEW r, Typed(r), NEW c \in Caches, s.mshr[c][1].sub # <<>>,
         r.mshr[c][1].sub = Tail(s.mshr[c][1].sub),
         \A i \in 2 .. MshrEntries[c] : r.mshr[c][i] = s.mshr[c][i],
         NEW kind, NEW addr
  PROVE  WaitNum(s, c, kind, addr) =
           WaitNum(r, c, kind, addr) + OneIf(Is(Head(s.mshr[c][1].sub), kind, addr))
<1>9. MshrEntries[c] \in Nat \ {0} /\ MshrSubentries[c] \in Nat \ {0} /\ 1 \in 1 .. MshrEntries[c]
  BY Geometry
<1>a. s.mshr[c][1].sub \in Seq(PacketSet(c)) /\ Len(s.mshr[c][1].sub) <= MshrSubentries[c]
  BY <1>9, SubTyped
<1>1. PICK q \in Seq(PacketSet(c)) : q = s.mshr[c][1].sub
  BY <1>a, Zenon
<1>2. /\ Len(Tail(q)) = Len(q) - 1 /\ Len(q) \in Nat \ {0}
      /\ \A i \in 1 .. (Len(q) - 1) : Tail(q)[i] = q[i + 1]
      /\ Head(q) = q[1]
  BY <1>1
<1>b. Len(q) - 1 \in Nat
  BY <1>2
<1>3. PICK n \in Nat : n = Len(q) - 1
  BY <1>b, Zenon
<1>4. /\ Len(s.mshr[c][1].sub) = n + 1 /\ Len(r.mshr[c][1].sub) = n
      /\ \A i \in 1 .. n : r.mshr[c][1].sub[i] = s.mshr[c][1].sub[i + 1]
  BY <1>1, <1>2, <1>3
<1>5. PICK A : A = Waiting(s, c, kind, addr)
  OBVIOUS
<1>6. PICK B : B = Waiting(r, c, kind, addr)
  OBVIOUS
<1>7. /\ IsFiniteSet(A) /\ Cardinality(A) \in Nat /\ IsFiniteSet(B)
      /\ A \subseteq (1 .. MshrEntries[c]) \X (1 .. MshrSubentries[c])
      /\ B \subseteq (1 .. MshrEntries[c]) \X (1 .. MshrSubentries[c])
  BY <1>5, <1>6, WaitType DEF WaitNum
<1>8. PICK D : D = A \ {<<1, 1>>}
  OBVIOUS
<1>w. \A k \in 1 .. MshrEntries[c], i \in Nat \ {0} :
        /\ <<k, i>> \in A <=> i <= Len(s.mshr[c][k].sub) /\ Is(s.mshr[c][k].sub[i], kind, addr)
        /\ <<k, i>> \in B <=> i <= Len(r.mshr[c][k].sub) /\ Is(r.mshr[c][k].sub[i], kind, addr)
  <2> TAKE k \in 1 .. MshrEntries[c], i \in Nat \ {0}
  <2>1. <<k, i>> \in Waiting(s, c, kind, addr)
          <=> i <= Len(s.mshr[c][k].sub) /\ Is(s.mshr[c][k].sub[i], kind, addr)
    BY WaitsAt
  <2>2. <<k, i>> \in Waiting(r, c, kind, addr)
          <=> i <= Len(r.mshr[c][k].sub) /\ Is(r.mshr[c][k].sub[i], kind, addr)
    BY WaitsAt
  <2>3. QED
    BY <1>5, <1>6, <2>1, <2>2
<1>10. /\ n + 1 <= MshrSubentries[c]
       /\ \A i \in 1 .. MshrSubentries[c] : <<1, i>> \in B => i + 1 \in 1 .. MshrSubentries[c]
  <2>1. n + 1 <= MshrSubentries[c]
    BY <1>4, <1>a
  <2>2. \A i \in 1 .. MshrSubentries[c] : <<1, i>> \in B => i <= n
    <3> TAKE i \in 1 .. MshrSubentries[c]
    <3>1. i \in Nat \ {0}
      BY <1>9
    <3>2. QED
      BY <1>4, <1>9, <1>w, <3>1
  <2>3. QED
    BY <1>9, <2>1, <2>2
<1>11. \A i \in Nat \ {0} : <<1, i>> \in B <=> <<1, i + 1>> \in A
  <2> TAKE i \in Nat \ {0}
  <2>1. i + 1 \in Nat \ {0} /\ (i <= n <=> i + 1 <= n + 1)
    OBVIOUS
  <2>2. i <= n => r.mshr[c][1].sub[i] = s.mshr[c][1].sub[i + 1]
    BY <1>4
  <2>3. <<1, i>> \in B <=> i <= n /\ Is(r.mshr[c][1].sub[i], kind, addr)
    BY <1>4, <1>9, <1>w
  <2>4. <<1, i + 1>> \in A <=> i + 1 <= n + 1 /\ Is(s.mshr[c][1].sub[i + 1], kind, addr)
    BY <1>4, <1>9, <1>w, <2>1
  <2>5. QED
    BY <2>1, <2>2, <2>3, <2>4
<1>12. \A k \in 2 .. MshrEntries[c], i \in 1 .. MshrSubentries[c] :
         <<k, i>> \in B <=> <<k, i>> \in A
  <2> TAKE k \in 2 .. MshrEntries[c], i \in 1 .. MshrSubentries[c]
  <2>1. k \in 1 .. MshrEntries[c] /\ i \in Nat \ {0} /\ r.mshr[c][k] = s.mshr[c][k]
    BY <1>9
  <2>2. QED
    BY <1>w, <2>1
<1>13. PICK f : f = [w \in B |-> <<w[1], IF w[1] = 1 THEN w[2] + 1 ELSE w[2]>>]
  OBVIOUS
<1>14. \A w \in B : /\ w[1] \in 1 .. MshrEntries[c] /\ w[2] \in 1 .. MshrSubentries[c]
                    /\ w = <<w[1], w[2]>>
  BY <1>7
<1>15. \A w \in D : /\ w[1] \in 1 .. MshrEntries[c] /\ w[2] \in 1 .. MshrSubentries[c]
                    /\ w = <<w[1], w[2]>> /\ w \in A
  BY <1>7, <1>8
<1>16. f \in [B -> D]
  <2>1. ASSUME NEW w \in B
        PROVE  f[w] \in D
    <3>1. CASE w[1] = 1
      <4>1. <<1, w[2]>> \in B /\ w[2] \in Nat \ {0}
        BY <1>9, <1>14, <3>1
      <4>2. <<1, w[2] + 1>> \in A /\ w[2] + 1 # 1
        BY <1>11, <4>1
      <4>3. f[w] = <<1, w[2] + 1>>
        BY <1>13, <3>1
      <4>4. QED
        BY <1>8, <4>2, <4>3
    <3>2. CASE w[1] # 1
      <4>1. w[1] \in 2 .. MshrEntries[c]
        BY <1>9, <1>14, <3>2
      <4>2. f[w] = w
        BY <1>13, <1>14, <3>2
      <4>3. w \in A /\ w # <<1, 1>>
        BY <1>12, <1>14, <3>2, <4>1
      <4>4. QED
        BY <1>8, <4>2, <4>3
    <3>3. QED
      BY <3>1, <3>2
  <2>2. QED
    BY <1>13, <2>1
<1>17. \A a, b \in B : f[a] = f[b] => a = b
  <2> SUFFICES ASSUME NEW a \in B, NEW b \in B, f[a] = f[b] PROVE a = b
    OBVIOUS
  <2>1. /\ a[1] = b[1]
        /\ (IF a[1] = 1 THEN a[2] + 1 ELSE a[2]) = (IF b[1] = 1 THEN b[2] + 1 ELSE b[2])
    BY <1>13
  <2>2. a[2] \in Nat /\ b[2] \in Nat
    BY <1>9, <1>14
  <2>3. a[2] = b[2]
    BY <2>1, <2>2
  <2>4. QED
    BY <1>14, <2>1, <2>3
<1>18. \A t \in D : \E a \in B : f[a] = t
  <2> TAKE t \in D
  <2>1. CASE t[1] = 1
    <3>1. t[2] # 1 /\ t[2] \in 1 .. MshrSubentries[c]
      BY <1>8, <1>15, <2>1
    <3>2. PICK i \in Nat \ {0} : t[2] = i + 1
      <4>1. t[2] - 1 \in Nat \ {0} /\ t[2] = (t[2] - 1) + 1
        BY <1>9, <3>1
      <4>2. QED
        BY <4>1
    <3>3. <<1, i>> \in B
      BY <1>11, <1>15, <2>1, <3>2
    <3>4. f[<<1, i>>] = <<1, i + 1>>
      <4>1. PICK w \in B : w = <<1, i>>
        BY <3>3
      <4>2. w[1] = 1 /\ w[2] = i
        BY <4>1
      <4>3. QED
        BY <1>13, <4>1, <4>2
    <3>5. QED
      BY <1>15, <2>1, <3>2, <3>3, <3>4
  <2>2. CASE t[1] # 1
    <3>1. t[1] \in 2 .. MshrEntries[c]
      BY <1>9, <1>15, <2>2
    <3>2. t \in B
      BY <1>12, <1>15, <3>1
    <3>3. f[t] = t
      BY <1>13, <1>15, <2>2, <3>2
    <3>4. QED
      BY <3>2, <3>3
  <2>3. QED
    BY <2>1, <2>2
<1>19. Cardinality(D) = Cardinality(B)
  BY <1>7, <1>16, <1>17, <1>18, SameSize
<1>20. <<1, 1>> \in A <=> Is(Head(q), kind, addr)
  <2>1. 1 \in Nat \ {0} /\ 1 <= n + 1
    OBVIOUS
  <2>2. QED
    BY <1>1, <1>2, <1>4, <1>9, <1>w, <2>1
<1>21. Cardinality(D) = IF <<1, 1>> \in A THEN Cardinality(A) - 1 ELSE Cardinality(A)
  BY <1>7, <1>8, FS_RemoveElement
<1>22. QED
  BY <1>1, <1>5, <1>6, <1>7, <1>19, <1>20, <1>21, OneIfType DEF WaitNum

-------------------------------------------------------------------------------
(* The core's requests: those that wait in its caches, and those answered.   *)

\* What the core asks, and which cache.
Kinds == {"fetch", "load", "store"}
\* Fetches go to the instruction cache.
CacheOf(kind) == IF kind = "fetch" THEN "L1I" ELSE "L1D"

\* How many requests of a kind for an address wait or have been answered.
Total(s, kind, addr) == WaitNum(s, CacheOf(kind), kind, addr) + Num(s.out, kind, addr)

\* None is lost and none answered twice.
Balanced(s, r) ==
  \A kind \in Kinds, addr \in Addresses : Total(r, kind, addr) = Total(s, kind, addr)

\* A cache has taken or answered a packet.
Gains(s, c, p, r) ==
  \A kind \in Kinds, addr \in Addresses :
    Total(r, kind, addr) =
      Total(s, kind, addr) + OneIf(CacheOf(kind) = c /\ Is(p, kind, addr))

\* MSHR entries are only released.
Shrunk(s, r) ==
  \A c \in Caches : \A i \in 1 .. MshrEntries[c] :
    r.mshr[c][i].sub # <<>> =>
      s.mshr[c][i].sub # <<>> /\ r.mshr[c][i].address = s.mshr[c][i].address

\* A packet is answered.
AnswersFor(s, p, r) ==
  \E x \in Answers : /\ x.type = p.type /\ x.addr = p.addr
                    /\ r.out = Append(s.out, x)

\* The first waiting packet of a cache has left its entry.
Leaves(s, c, r) ==
  /\ \A d \in Caches \ {c} : r.mshr[d] = s.mshr[d]
  /\ \A i \in 2 .. MshrEntries[c] : r.mshr[c][i] = s.mshr[c][i]
  /\ r.mshr[c][1].sub = Tail(s.mshr[c][1].sub)
  /\ r.mshr[c][1].address = s.mshr[c][1].address

\* Only first entries are, so a cache that is alone with a miss was so before.
OthersKept(s, r) ==
  \A c \in Caches : \A i \in 2 .. MshrEntries[c] : r.mshr[c][i].sub = s.mshr[c][i].sub

\* Requests are answered, no more.
Settles(s, r) == Balanced(s, r) /\ Shrunk(s, r) /\ OthersKept(s, r)

\* They are numbers.
LEMMA TotalType ==
  ASSUME NEW s, Typed(s), NEW kind, NEW addr
  PROVE  /\ WaitNum(s, CacheOf(kind), kind, addr) \in Nat /\ Num(s.out, kind, addr) \in Nat
         /\ Total(s, kind, addr) \in Nat
         /\ CacheOf(kind) \in {"L1I", "L1D"} /\ CacheOf(kind) \in Caches
<1>1. CacheOf(kind) \in {"L1I", "L1D"} /\ CacheOf(kind) \in Caches
  BY DEF CacheOf, Caches
<1>2. s.out \in Seq(Answers)
  BY DEF Typed
<1>3. WaitNum(s, CacheOf(kind), kind, addr) \in Nat
  BY <1>1, WaitType
<1>4. Num(s.out, kind, addr) \in Nat
  BY <1>2, NumType
<1>5. QED
  BY <1>1, <1>3, <1>4 DEF Total

\* What changes at most which entries of the L2 are busy.
LEMMA SettlesIf ==
  ASSUME NEW s, NEW r, r.out = s.out, Shrunk(s, r), OthersKept(s, r),
         \A c \in {"L1I", "L1D"} : SameWaiting(s, r, c)
  PROVE  Settles(s, r)
<1>1. ASSUME NEW kind \in Kinds, NEW addr \in Addresses
      PROVE  Total(r, kind, addr) = Total(s, kind, addr)
  <2>1. PICK d \in Caches : d = CacheOf(kind) /\ d \in {"L1I", "L1D"}
    BY DEF CacheOf, Caches
  <2>2. WaitNum(r, d, kind, addr) = WaitNum(s, d, kind, addr)
    BY <2>1, WaitSame
  <2>3. QED
    BY <2>1, <2>2 DEF Total
<1>2. QED
  BY <1>1 DEF Settles, Balanced

\* What no request sees.
LEMMA SettlesSame ==
  ASSUME NEW s, NEW r, r.out = s.out, r.mshr = s.mshr
  PROVE  Settles(s, r)
<1>1. Shrunk(s, r) /\ OthersKept(s, r)
  BY DEF Shrunk, OthersKept
<1>2. \A c \in {"L1I", "L1D"} : SameWaiting(s, r, c)
  BY DEF SameWaiting
<1>3. QED
  BY <1>1, <1>2, SettlesIf

\* One change after another.
LEMMA SettlesTwice ==
  ASSUME NEW s, NEW x, NEW r, Settles(s, x), Settles(x, r)
  PROVE  Settles(s, r)
<1>1. Balanced(s, r)
  BY DEF Settles, Balanced
<1>2. Shrunk(s, r)
  BY DEF Settles, Shrunk
<1>3. OthersKept(s, r)
  BY DEF Settles, OthersKept
<1>4. QED
  BY <1>1, <1>2, <1>3 DEF Settles

\* What is answered leaves the other entries alone.
LEMMA AloneSettled ==
  ASSUME NEW s, NEW r, Settles(s, r)
  PROVE  Alone(r) <=> Alone(s)
BY DEF Settles, OthersKept, Alone

\* A level 1 cache has requests of its own kinds only.
LEMMA OwnKind ==
  ASSUME NEW c \in {"L1I", "L1D"}, NEW p \in PacketSet(c), NEW kind \in Kinds, NEW addr,
         Is(p, kind, addr)
  PROVE  CacheOf(kind) = c
<1>1. CASE c = "L1I"
  <2>1. p.type = "fetch"
    BY <1>1 DEF PacketSet, Reads
  <2>2. QED
    BY <1>1, <2>1 DEF Is, CacheOf
<1>2. CASE c = "L1D"
  <2>1. p.type \in {"load", "store"}
    BY <1>2 DEF PacketSet, Reads, Stores
  <2>2. QED
    BY <1>2, <2>1 DEF Is, CacheOf
<1>3. QED
  BY <1>1, <1>2

\* A request that is answered at once.
LEMMA GainsAnswer ==
  ASSUME NEW s, Typed(s), NEW r, NEW c \in {"L1I", "L1D"}, NEW p \in PacketSet(c),
         AnswersFor(s, p, r), r.mshr = s.mshr
  PROVE  Gains(s, c, p, r)
<1>1. PICK x \in Answers : x.type = p.type /\ x.addr = p.addr /\ r.out = Append(s.out, x)
  BY DEF AnswersFor
<1>2. ASSUME NEW kind \in Kinds, NEW addr \in Addresses
      PROVE  Total(r, kind, addr) =
               Total(s, kind, addr) + OneIf(CacheOf(kind) = c /\ Is(p, kind, addr))
  <2>1. PICK d \in Caches : d = CacheOf(kind)
    BY TotalType
  <2>2. SameWaiting(s, r, d)
    BY DEF SameWaiting
  <2>3. WaitNum(r, d, kind, addr) = WaitNum(s, d, kind, addr)
    BY <2>2, WaitSame
  <2>4. Num(r.out, kind, addr) = Num(s.out, kind, addr) + OneIf(Is(p, kind, addr))
    <3>1. s.out \in Seq(Answers)
      BY DEF Typed
    <3>2. Num(Append(s.out, x), kind, addr) = Num(s.out, kind, addr) + OneIf(Is(x, kind, addr))
      BY <3>1, NumAppend
    <3>3. Is(x, kind, addr) <=> Is(p, kind, addr)
      BY <1>1 DEF Is
    <3>4. QED
      BY <1>1, <3>2, <3>3 DEF OneIf
  <2>5. OneIf(Is(p, kind, addr)) = OneIf(CacheOf(kind) = c /\ Is(p, kind, addr))
    BY OwnKind DEF OneIf
  <2>6. /\ WaitNum(s, d, kind, addr) \in Nat /\ Num(s.out, kind, addr) \in Nat
        /\ OneIf(Is(p, kind, addr)) \in {0, 1}
    BY <2>1, TotalType, OneIfType
  <2>7. QED
    BY <2>1, <2>3, <2>4, <2>5, <2>6 DEF Total
<1>3. QED
  BY <1>2 DEF Gains

\* What the counts do not depend on.
LEMMA RequestsSame ==
  ASSUME NEW s, NEW x, NEW r, r.out = x.out, r.mshr = x.mshr
  PROVE  /\ Settles(s, x) => Settles(s, r)
         /\ \A c, p : Gains(s, c, p, x) => Gains(s, c, p, r)
<1>1. \A kind, addr : Total(r, kind, addr) = Total(x, kind, addr)
  BY DEF Total, WaitNum, Waiting
<1>2. Settles(s, x) => Settles(s, r)
  BY <1>1 DEF Settles, Balanced, Shrunk, OthersKept
<1>3. \A c, p : Gains(s, c, p, x) => Gains(s, c, p, r)
  BY <1>1 DEF Gains
<1>4. QED
  BY <1>2, <1>3

\* What waits in the L2 is not the core's.
LEMMA SettlesBelow ==
  ASSUME NEW s, NEW r, r.out = s.out, Leaves(s, "L2", r), s.mshr["L2"][1].sub # <<>>
  PROVE  Settles(s, r)
<1>1. /\ \A d \in Caches \ {"L2"} : r.mshr[d] = s.mshr[d]
      /\ \A i \in 2 .. MshrEntries["L2"] : r.mshr["L2"][i] = s.mshr["L2"][i]
      /\ r.mshr["L2"][1].address = s.mshr["L2"][1].address
  BY DEF Leaves
<1>2. ASSUME NEW d \in Caches, NEW i \in 1 .. MshrEntries[d], r.mshr[d][i].sub # <<>>
      PROVE  s.mshr[d][i].sub # <<>> /\ r.mshr[d][i].address = s.mshr[d][i].address
  <2>1. CASE d # "L2"
    BY <1>1, <1>2, <2>1
  <2>2. CASE d = "L2" /\ i = 1
    BY <1>1, <2>2
  <2>3. CASE d = "L2" /\ i # 1
    <3>1. i \in 2 .. MshrEntries["L2"]
      BY <2>3, Geometry
    <3>2. QED
      BY <1>1, <1>2, <2>3, <3>1
  <2>4. QED
    BY <2>1, <2>2, <2>3
<1>3. Shrunk(s, r)
  BY <1>2 DEF Shrunk
<1>4. \A c \in {"L1I", "L1D"} : SameWaiting(s, r, c)
  BY <1>1 DEF SameWaiting, Caches
<1>5. OthersKept(s, r)
  BY <1>1 DEF OthersKept
<1>6. QED
  BY <1>3, <1>4, <1>5, SettlesIf

\* An answer, to the first one that waits.
LEMMA SettlesOne ==
  ASSUME NEW s, Typed(s), NEW r, Typed(r), NEW c \in {"L1I", "L1D"}, s.mshr[c][1].sub # <<>>,
         AnswersFor(s, Head(s.mshr[c][1].sub), r), Leaves(s, c, r)
  PROVE  Settles(s, r)
<1>1. c \in Caches /\ c \in Levels /\ 1 \in 1 .. MshrEntries[c]
  <2>1. c \in Caches /\ c \in Levels
    BY DEF Caches, Levels
  <2>2. MshrEntries[c] \in Nat \ {0}
    BY <2>1, Geometry
  <2>3. QED
    BY <2>1, <2>2
<1>a. /\ \A d \in Caches \ {c} : r.mshr[d] = s.mshr[d]
      /\ \A i \in 2 .. MshrEntries[c] : r.mshr[c][i] = s.mshr[c][i]
      /\ r.mshr[c][1].sub = Tail(s.mshr[c][1].sub)
      /\ r.mshr[c][1].address = s.mshr[c][1].address
  BY DEF Leaves
<1>b. PICK x \in Answers : /\ x.type = Head(s.mshr[c][1].sub).type
                          /\ x.addr = Head(s.mshr[c][1].sub).addr
                          /\ r.out = Append(s.out, x)
  BY DEF AnswersFor
<1>2. PICK q \in Seq(PacketSet(c)) : q = s.mshr[c][1].sub
  <2>1. s.mshr[c][1].sub \in Seq(PacketSet(c))
    BY <1>1, SubTyped
  <2>2. QED
    BY <2>1, Zenon
<1>3. PICK h \in PacketSet(c) : h = Head(q)
  BY <1>2, HeadTailProperties
<1>4. ASSUME NEW kind \in Kinds, NEW addr \in Addresses
      PROVE  Total(r, kind, addr) = Total(s, kind, addr)
  <2>1. PICK d \in Caches : d = CacheOf(kind) /\ d \in {"L1I", "L1D"}
    BY TotalType
  <2>2. Num(r.out, kind, addr) = Num(s.out, kind, addr) + OneIf(Is(h, kind, addr))
    <3>1. s.out \in Seq(Answers)
      BY DEF Typed
    <3>2. Num(Append(s.out, x), kind, addr) = Num(s.out, kind, addr) + OneIf(Is(x, kind, addr))
      BY <3>1, NumAppend
    <3>3. Is(x, kind, addr) <=> Is(h, kind, addr)
      BY <1>b, <1>2, <1>3 DEF Is
    <3>4. QED
      BY <1>b, <3>2, <3>3 DEF OneIf
  <2>3. WaitNum(s, d, kind, addr) = WaitNum(r, d, kind, addr) + OneIf(Is(h, kind, addr))
    <3>1. CASE c = d
      <4>1. WaitNum(s, c, kind, addr) =
              WaitNum(r, c, kind, addr) + OneIf(Is(Head(s.mshr[c][1].sub), kind, addr))
        BY <1>1, <1>a, WaitLess
      <4>2. QED
        BY <1>2, <1>3, <3>1, <4>1
    <3>2. CASE c # d
      <4>1. SameWaiting(s, r, d)
        BY <1>a, <3>2 DEF SameWaiting
      <4>2. WaitNum(r, d, kind, addr) = WaitNum(s, d, kind, addr)
        BY <4>1, WaitSame
      <4>3. ~Is(h, kind, addr)
        BY <1>3, <2>1, <3>2 DEF Is, CacheOf, Kinds, PacketSet, Reads, Stores
      <4>4. WaitNum(s, d, kind, addr) \in Nat
        BY WaitType
      <4>5. QED
        BY <4>2, <4>3, <4>4, OneIfType
    <3>3. QED
      BY <3>1, <3>2
  <2>4. /\ WaitNum(r, d, kind, addr) \in Nat /\ Num(s.out, kind, addr) \in Nat
        /\ OneIf(Is(h, kind, addr)) \in {0, 1}
    BY <2>1, TotalType, OneIfType
  <2>5. QED
    BY <2>1, <2>2, <2>3, <2>4 DEF Total
<1>5. Shrunk(s, r)
  <2>1. \A d \in Caches \ {c} : \A i \in 1 .. MshrEntries[d] : r.mshr[d][i] = s.mshr[d][i]
    BY <1>a
  <2>2. \A i \in 1 .. MshrEntries[c] : i = 1 \/ r.mshr[c][i] = s.mshr[c][i]
    <3> TAKE i \in 1 .. MshrEntries[c]
    <3>1. i = 1 \/ i \in 2 .. MshrEntries[c]
      BY <1>1, Geometry
    <3>2. QED
      BY <1>a, <3>1
  <2>a. \A i \in 1 .. MshrEntries[c] : r.mshr[c][i].sub # <<>> =>
          s.mshr[c][i].sub # <<>> /\ r.mshr[c][i].address = s.mshr[c][i].address
    BY <1>a, <2>2
  <2>3. QED
    BY <2>1, <2>a DEF Shrunk
<1>6. OthersKept(s, r)
  BY <1>a DEF OthersKept
<1>7. QED
  BY <1>4, <1>5, <1>6 DEF Settles, Balanced

-------------------------------------------------------------------------------
(* What each operator changes, and the types it keeps.                       *)

\* An assertion may fail, if none has.
May(s, r, why) == r.abort = s.abort \/ (s.abort = "none" /\ r.abort \in why)

\* The assertions of writeBack, and of the level that it calls.
Losses == {"refused"} \cup (IF RegionsCover THEN {} ELSE {"unallocated"})

\* A queue that has only taken write-backs.
Grown(c, q, r) ==
  /\ Len(q) <= Len(r)
  /\ \A i \in 1 .. Len(q) : r[i] = q[i]
  /\ \A i \in (Len(q) + 1) .. Len(r) :
       r[i].ready = Delay[c] /\ r[i].type = "writeback"

\* A failed assertion is recorded, and the first one stays.
LEMMA FailsEffect ==
  ASSUME NEW s, Typed(s), NEW why \in Aborts
  PROVE  LET r == Fails(s, why)
         IN /\ Typed(r)
            /\ r.abort = s.abort \/ (s.abort = "none" /\ r.abort = why)
            /\ r.queue = s.queue /\ r.blocks = s.blocks /\ r.mshr = s.mshr
            /\ r.store = s.store /\ r.out = s.out /\ r.freed = s.freed
            /\ r.reused = s.reused
  BY DEF Fails, Typed

\* A queue grows by one packet, unless memory has no region for it.
Received(s, c, p, q, r) ==
  /\ Typed(r)
  /\ r.blocks = s.blocks /\ r.mshr = s.mshr /\ r.store = s.store
  /\ r.out = s.out
  /\ \/ /\ c = "Mem" /\ getMemRegion(p.addr) = {}
        /\ r.queue = s.queue
        /\ May(s, r, {"unallocated"}) /\ r.abort # "none"
     \/ /\ r.abort = s.abort
        /\ r.queue[c] = Append(s.queue[c], q)
        /\ \A d \in Levels \ {c} : r.queue[d] = s.queue[d]

\* recvReq puts the packet last, or finds its address outside the regions.
LEMMA RecvEffect ==
  ASSUME NEW s, Typed(s), NEW c \in Levels, NEW p, NEW q \in PacketSet(c),
         q = [p EXCEPT !.ready = Delay[c]]
  PROVE  Received(s, c, p, q, recvReq(s, c, p))
<1>1. CASE c = "Mem" /\ getMemRegion(p.addr) = {}
  <2>1. recvReq(s, c, p) = Fails(s, "unallocated")
    BY <1>1 DEF recvReq
  <2>2. "unallocated" \in Aborts
    BY DEF Aborts
  <2>3. Fails(s, "unallocated").abort # "none"
    BY DEF Fails, Typed
  <2>4. QED
    BY <1>1, <2>1, <2>2, <2>3, FailsEffect DEF May, Received
<1>2. CASE ~(c = "Mem" /\ getMemRegion(p.addr) = {})
  <2>1. Append(s.queue[c], q) \in Seq(PacketSet(c))
    BY DEF Typed, QueuesTyped
  <2>2. recvReq(s, c, p) = [s EXCEPT !.queue[c] = Append(@, q),
                                     !.reused = @ \/ s.freed]
    BY <1>2 DEF recvReq
  <2> DEFINE r == [s EXCEPT !.queue[c] = Append(@, q), !.reused = @ \/ s.freed]
  <2>3. QueuesTyped([s.queue EXCEPT ![c] = Append(@, q)])
    BY <2>1 DEF Typed, QueuesTyped
  <2>4. /\ DOMAIN r = DOMAIN s
        /\ r.queue = [s.queue EXCEPT ![c] = Append(@, q)]
        /\ r.blocks = s.blocks /\ r.mshr = s.mshr /\ r.store = s.store
        /\ r.abort = s.abort /\ r.out = s.out /\ r.freed = s.freed
    BY DEF Typed
  <2>a. /\ r.queue[c] = Append(s.queue[c], q)
        /\ \A d \in Levels \ {c} : r.queue[d] = s.queue[d]
    BY <2>4 DEF Typed, QueuesTyped
  <2>5. r.reused \in BOOLEAN
    BY DEF Typed
  <2>6. Typed(r)
    <3> HIDE DEF r
    <3>1. QED
      BY <2>3, <2>4, <2>5 DEF Typed
  <2>7. QED
    BY <2>2, <2>4, <2>a, <2>6 DEF Received
<1>3. QED
  BY <1>1, <1>2

\* The address of a block that a way holds.
LEMMA HeldAddress ==
  ASSUME NEW s, Typed(s), NEW c \in Caches, NEW set \in Sets(c), NEW way \in Ways(c),
         s.blocks[c][set][way].valid
  PROVE  LET b == s.blocks[c][set][way]
             addr == getAddress(c, [tag |-> b.tag, set |-> set, offset |-> 0])
         IN /\ b.tag \in Nat
            /\ b.tag * NumSets[c] + set \in Held(c)
            /\ addr = (b.tag * NumSets[c] + set) * BlkSize
            /\ b.data \in [Offsets -> Values]
<1>1. s.blocks[c][set][way] \in BlockSet(c, set)
  BY DEF Typed, BlocksTyped
<1>2. PICK n \in Nat : n = s.blocks[c][set][way].tag * NumSets[c] + set
  BY <1>1, WordIsAddress DEF BlockSet, Held
<1>3. n * BlkSize + 0 = n * BlkSize
  BY Geometry
<1>4. QED
  BY <1>1, <1>2, <1>3 DEF BlockSet, getAddress

\* Every cache has a level below it.
LEMMA LevelBelow ==
  \A c \in Caches : Next1(c) \in Levels /\ (Next1(c) = "Mem" <=> c = "L2")
                    /\ (c # "L2" => Next1(c) = "L2")
  BY DEF Next1, Caches, Levels

\* A write-back joins the queue below, or fails for want of a region.
LEMMA SendWriteBack ==
  ASSUME NEW s, Typed(s), NEW d \in {"L2", "Mem"},
         NEW blk \in (IF d = "L2" THEN DataBlocks ELSE Blocks),
         NEW data \in [Offsets -> Values]
  PROVE  LET r == recvReq(s, d, Packet("writeback", blk * BlkSize, data))
         IN /\ Typed(r) /\ May(s, r, Losses)
            /\ r.blocks = s.blocks /\ r.mshr = s.mshr /\ r.store = s.store
            /\ r.out = s.out
            /\ \A e \in Levels \ {d} : r.queue[e] = s.queue[e]
            /\ Grown(d, s.queue[d], r.queue[d])
<1>1. PICK p : p = Packet("writeback", blk * BlkSize, data)
  OBVIOUS
<1>2. PICK q : q = [p EXCEPT !.ready = Delay[d]]
  OBVIOUS
<1>3. d \in Levels /\ Delay[d] \in 0 .. Delay[d]
  BY Geometry DEF Levels, Caches
<1>4. q = [type |-> "writeback", addr |-> blk * BlkSize, data |-> data,
           ready |-> Delay[d]]
  BY <1>1, <1>2 DEF Packet
<1>5. q \in WriteBacksOf(IF d = "L2" THEN DataBlocks ELSE Blocks, d)
  BY <1>3, <1>4 DEF WriteBacksOf, Starts
<1>6. q \in PacketSet(d)
  BY <1>5 DEF PacketSet
<1>7. s.queue[d] \in Seq(PacketSet(d)) /\ DOMAIN s.queue = Levels
  BY <1>3 DEF Typed, QueuesTyped
<1>8. PICK r : r = recvReq(s, d, p)
  OBVIOUS
<1>9. /\ Typed(r)
      /\ r.blocks = s.blocks /\ r.mshr = s.mshr /\ r.store = s.store
      /\ r.out = s.out
      /\ \/ /\ d = "Mem" /\ getMemRegion(p.addr) = {}
            /\ r.queue = s.queue
            /\ May(s, r, {"unallocated"}) /\ r.abort # "none"
         \/ /\ r.abort = s.abort
            /\ r.queue[d] = Append(s.queue[d], q)
            /\ \A e \in Levels \ {d} : r.queue[e] = s.queue[e]
  <2>1. Received(s, d, p, q, r)
    BY <1>2, <1>3, <1>6, <1>8, RecvEffect
  <2>2. QED
    BY <2>1 DEF Received
<1>10. CASE /\ d = "Mem" /\ getMemRegion(p.addr) = {}
            /\ r.queue = s.queue /\ May(s, r, {"unallocated"})
  <2>1. "unallocated" \in Losses
    BY <1>1, <1>10 DEF Packet, RegionsCover, Losses
  <2>2. Grown(d, s.queue[d], r.queue[d])
    BY <1>7, <1>10 DEF Grown
  <2>3. May(s, r, Losses)
    BY <1>10, <2>1 DEF May
  <2>4. QED
    BY <1>1, <1>8, <1>9, <1>10, <2>2, <2>3
<1>11. CASE /\ r.abort = s.abort
            /\ r.queue[d] = Append(s.queue[d], q)
            /\ \A e \in Levels \ {d} : r.queue[e] = s.queue[e]
  <2>1. q.ready = Delay[d] /\ q.type = "writeback"
    BY <1>4
  <2>2. Grown(d, s.queue[d], Append(s.queue[d], q))
    BY <1>6, <1>7, <2>1 DEF Grown
  <2>3. May(s, r, Losses)
    BY <1>11 DEF May
  <2>4. QED
    BY <1>1, <1>8, <1>9, <1>11, <2>2, <2>3
<1>12. QED
  BY <1>9, <1>10, <1>11

\* A queue that has not changed has only taken write-backs: none.
LEMMA NothingGrown ==
  ASSUME NEW s, Typed(s), NEW c \in Levels
  PROVE  Grown(c, s.queue[c], s.queue[c])
  BY DEF Typed, QueuesTyped, Grown

\* Only a write-back is sent, and only an assertion may fail.
LEMMA WriteBackEffect ==
  ASSUME NEW s, Typed(s), NEW c \in Caches, NEW set \in Sets(c), NEW way \in Ways(c)
  PROVE  LET r == writeBack(s, c, set, way)
         IN /\ Typed(r) /\ May(s, r, Losses)
            /\ r.blocks = s.blocks /\ r.mshr = s.mshr /\ r.store = s.store
            /\ r.out = s.out
            /\ \A d \in Levels \ {Next1(c)} : r.queue[d] = s.queue[d]
            /\ Grown(Next1(c), s.queue[Next1(c)], r.queue[Next1(c)])
<1>1. PICK b : b = s.blocks[c][set][way]
  OBVIOUS
<1>2. PICK addr : addr = getAddress(c, [tag |-> b.tag, set |-> set, offset |-> 0])
  OBVIOUS
<1>3. PICK d : d = Next1(c)
  OBVIOUS
<1>4. d \in {"L2", "Mem"} /\ d \in Levels
  BY <1>3 DEF Next1, Levels, Caches
<1>5. Grown(d, s.queue[d], s.queue[d])
  BY <1>4, NothingGrown
<1>6. writeBack(s, c, set, way) =
        IF ~(b.valid /\ b.dirty) THEN s
        ELSE IF Refused(s, d, addr) THEN Fails(s, "refused")
        ELSE recvReq(s, d, Packet("writeback", addr, b.data))
  BY <1>1, <1>2, <1>3 DEF writeBack
<1>7. CASE ~(b.valid /\ b.dirty)
  <2>1. writeBack(s, c, set, way) = s
    BY <1>6, <1>7
  <2>2. QED
    BY <1>3, <1>5, <2>1 DEF May
<1>8. CASE writeBack(s, c, set, way) = Fails(s, "refused")
  <2>1. "refused" \in Aborts /\ "refused" \in Losses
    BY DEF Aborts, Losses
  <2>2. QED
    BY <1>3, <1>5, <1>8, <2>1, FailsEffect DEF May
<1>9. CASE /\ b.valid /\ b.dirty
           /\ writeBack(s, c, set, way) =
                recvReq(s, d, Packet("writeback", addr, b.data))
  <2>1. PICK blk : blk = b.tag * NumSets[c] + set
    OBVIOUS
  <2>2. blk \in Held(c) /\ addr = blk * BlkSize /\ b.data \in [Offsets -> Values]
    BY <1>1, <1>2, <1>9, <2>1, HeldAddress
  <2>3. c # "L1I"
    <3>1. b \in BlockSet(c, set)
      BY <1>1 DEF Typed, BlocksTyped
    <3>2. QED
      BY <1>9, <3>1 DEF BlockSet
  <2>4. blk \in (IF d = "L2" THEN DataBlocks ELSE Blocks)
    BY <1>3, <2>2, <2>3 DEF Held, Next1, Caches
  <2>5. QED
    BY <1>3, <1>4, <1>9, <2>2, <2>4, SendWriteBack
<1>10. QED
  BY <1>6, <1>7, <1>8, <1>9

-------------------------------------------------------------------------------
(* The ways of a set.                                                        *)

\* A cache has the same blocks in the same ways.
SameHeld(s, r, c) == \A a \in Addresses : Holding(r, c, a) = Holding(s, c, a)

\* While the waiting packets of an entry are served: ctx.from is the state with
\* the block placed, k how many have been.
ServingL1(ctx, k, x) ==
  LET c == ctx.c
      from == ctx.from
  IN /\ Typed(x) /\ Holding(x, c, ctx.addr) # {}
     /\ x.queue = from.queue /\ x.store = from.store /\ x.abort = from.abort
     /\ \A d \in Caches \ {c} :
          x.blocks[d] = from.blocks[d] /\ x.mshr[d] = from.mshr[d]
     /\ \A i \in 2 .. MshrEntries[c] : x.mshr[c][i] = from.mshr[c][i]
     /\ x.mshr[c][1].sub =
          SubSeq(from.mshr[c][1].sub, k + 1, Len(from.mshr[c][1].sub))
     /\ SameHeld(from, x, c) /\ Settles(from, x)

\* The loop over the packets that wait in a level 1 cache.
L1Fold == INSTANCE FoldInduction WITH
            op <- LAMBDA c, addr, unused, x, p : ServeL1(x, c, addr, p),
            J <- ServingL1

\* A set of ways that is not empty has a lowest one.
LEMMA LowestWay ==
  ASSUME NEW c \in Caches, NEW S \in SUBSET Ways(c), S # {}
  PROVE  Lowest(S) \in S /\ Lowest(S) \in Ways(c) /\ \A w \in S : Lowest(S) <= w
<1>1. S \in SUBSET Nat
  BY Geometry DEF Ways
<1>2. \E x \in S : \A y \in S : x <= y
  BY <1>1, L1Fold!Least
<1>3. QED
  BY <1>2 DEF Lowest

\* And so has a set of MSHR entries.
LEMMA LowestEntry ==
  ASSUME NEW n \in Nat, NEW S \in SUBSET (1 .. n), S # {}
  PROVE  Lowest(S) \in S
<1>1. \E x \in S : \A y \in S : x <= y
  BY L1Fold!Least
<1>2. QED
  BY <1>1 DEF Lowest

\* The way of a block that a cache holds.
LEMMA WayHolds ==
  ASSUME NEW s, Typed(s), NEW c \in Caches, NEW addr \in Addresses,
         Holding(s, c, addr) # {}
  PROVE  LET loc == getLocation(c, addr)
             b == BlockAt(s, c, addr)
         IN /\ Way(s, c, addr) \in Ways(c) /\ loc.set \in Sets(c)
            /\ b = s.blocks[c][loc.set][Way(s, c, addr)]
            /\ b.valid /\ b.tag = loc.tag /\ b \in BlockSet(c, loc.set)
            /\ b.data \in [Offsets -> Values] /\ BlockOf(addr) \in Held(c)
<1>1. PICK loc : loc = getLocation(c, addr)
  OBVIOUS
<1>2. Holding(s, c, addr) \in SUBSET Ways(c)
  BY DEF Holding
<1>3. PICK w : w = Way(s, c, addr)
  OBVIOUS
<1>4. w \in Holding(s, c, addr) /\ w \in Ways(c)
  BY <1>2, <1>3, LowestWay DEF Way
<1>5. loc.set \in Sets(c) /\ loc.tag * NumSets[c] + loc.set = BlockOf(addr)
  BY <1>1, Location
<1>6. s.blocks[c][loc.set][w].valid /\ s.blocks[c][loc.set][w].tag = loc.tag
  BY <1>1, <1>4 DEF Holding
<1>7. BlockAt(s, c, addr) = s.blocks[c][loc.set][w]
  BY <1>1, <1>3 DEF BlockAt
<1>8. s.blocks[c][loc.set][w] \in BlockSet(c, loc.set)
  BY <1>4, <1>5 DEF Typed, BlocksTyped
<1>9. QED
  BY <1>1, <1>3, <1>4, <1>5, <1>6, <1>7, <1>8 DEF BlockSet

\* A state in which one way holds another block.
WithBlock(s, c, set, way, b) == [s EXCEPT !.blocks[c][set][way] = b]

\* One block is changed.
LEMMA BlockChange ==
  ASSUME NEW s, Typed(s), NEW c \in Caches, NEW set \in Sets(c), NEW way \in Ways(c),
         NEW b \in BlockSet(c, set), NEW r, r = WithBlock(s, c, set, way, b)
  PROVE  /\ Typed(r)
         /\ r.queue = s.queue /\ r.mshr = s.mshr /\ r.store = s.store
         /\ r.abort = s.abort /\ r.out = s.out
         /\ \A d \in Caches \ {c} : r.blocks[d] = s.blocks[d]
         /\ \A e \in Sets(c) \ {set} : r.blocks[c][e] = s.blocks[c][e]
         /\ \A w \in Ways(c) \ {way} : r.blocks[c][set][w] = s.blocks[c][set][w]
         /\ r.blocks[c][set][way] = b
<1>1. BlocksTyped(s.blocks)
  BY DEF Typed
<1>2. PICK row : row = [s.blocks[c][set] EXCEPT ![way] = b]
  OBVIOUS
<1>3. PICK table : table = [s.blocks EXCEPT ![c] = [s.blocks[c] EXCEPT ![set] = row]]
  OBVIOUS
<1>4. r = [s EXCEPT !.blocks = table]
  BY <1>2, <1>3 DEF WithBlock
<1>5. /\ row \in [Ways(c) -> BlockSet(c, set)]
      /\ \A w \in Ways(c) \ {way} : row[w] = s.blocks[c][set][w]
      /\ row[way] = b
  BY <1>1, <1>2 DEF BlocksTyped
<1>6. /\ DOMAIN table = Caches
      /\ \A d \in Caches \ {c} : table[d] = s.blocks[d]
      /\ DOMAIN table[c] = Sets(c)
      /\ \A e \in Sets(c) \ {set} : table[c][e] = s.blocks[c][e]
      /\ table[c][set] = row
  BY <1>1, <1>3 DEF BlocksTyped
<1>7. BlocksTyped(table)
  BY <1>1, <1>5, <1>6 DEF BlocksTyped
<1>8. /\ DOMAIN r = DOMAIN s /\ r.blocks = table
      /\ r.queue = s.queue /\ r.mshr = s.mshr /\ r.store = s.store
      /\ r.abort = s.abort /\ r.out = s.out
      /\ r.freed = s.freed /\ r.reused = s.reused
  BY <1>4 DEF Typed
<1>9. Typed(r)
  BY <1>7, <1>8 DEF Typed
<1>10. QED
  BY <1>5, <1>6, <1>8, <1>9

\* A state in which one MSHR entry is another.
WithEntry(s, c, i, e) == [s EXCEPT !.mshr[c][i] = e]

\* One MSHR entry is changed.
LEMMA EntryChange ==
  ASSUME NEW s, Typed(s), NEW c \in Caches, NEW i \in 1 .. MshrEntries[c],
         NEW e \in EntrySet(c), NEW r, r = WithEntry(s, c, i, e)
  PROVE  /\ Typed(r)
         /\ r.queue = s.queue /\ r.blocks = s.blocks /\ r.store = s.store
         /\ r.abort = s.abort /\ r.out = s.out
         /\ \A d \in Caches \ {c} : r.mshr[d] = s.mshr[d]
         /\ \A k \in (1 .. MshrEntries[c]) \ {i} : r.mshr[c][k] = s.mshr[c][k]
         /\ r.mshr[c][i] = e
<1>1. MshrTyped(s.mshr)
  BY DEF Typed
<1>2. PICK row : row = [s.mshr[c] EXCEPT ![i] = e]
  OBVIOUS
<1>3. PICK table : table = [s.mshr EXCEPT ![c] = row]
  OBVIOUS
<1>4. r = [s EXCEPT !.mshr = table]
  BY <1>2, <1>3 DEF WithEntry
<1>5. /\ row \in [1 .. MshrEntries[c] -> EntrySet(c)]
      /\ \A k \in (1 .. MshrEntries[c]) \ {i} : row[k] = s.mshr[c][k]
      /\ row[i] = e
  BY <1>1, <1>2 DEF MshrTyped
<1>6. /\ DOMAIN table = Caches /\ table[c] = row
      /\ \A d \in Caches \ {c} : table[d] = s.mshr[d]
  BY <1>1, <1>3 DEF MshrTyped
<1>7. MshrTyped(table)
  BY <1>1, <1>5, <1>6 DEF MshrTyped
<1>8. /\ DOMAIN r = DOMAIN s /\ r.mshr = table
      /\ r.queue = s.queue /\ r.blocks = s.blocks /\ r.store = s.store
      /\ r.abort = s.abort /\ r.out = s.out
      /\ r.freed = s.freed /\ r.reused = s.reused
  BY <1>4 DEF Typed
<1>9. Typed(r)
  BY <1>7, <1>8 DEF Typed
<1>10. QED
  BY <1>5, <1>6, <1>8, <1>9

\* What the type of a packet says of its address and its data.
LEMMA PacketFacts ==
  ASSUME NEW c \in Levels, NEW p \in PacketSet(c)
  PROVE  /\ p.addr \in Addresses /\ BlockOf(p.addr) \in Blocks
         /\ c \in Caches => BlockOf(p.addr) \in Held(c)
         /\ IsWrite(p) => c # "L1I"
         /\ IsWrite(p) => \A o \in Offsets : o \in DOMAIN p.data => p.data[o] \in Values
         /\ c \in {"L2", "Mem"} => BlockAddress(p.addr) = p.addr
         /\ p.type = "writeback" => c \in {"L2", "Mem"} /\ p.data \in [Offsets -> Values]
         /\ c = "L2" /\ ~IsWrite(p) => /\ PrevOf(p) \in {"L1I", "L1D"}
                                       /\ BlockOf(p.addr) \in Held(PrevOf(p))
<1>1. CASE c = "L1I"
  <2>1. p.type = "fetch" /\ p.addr \in TextWords
    BY <1>1 DEF PacketSet, Reads
  <2>2. QED
    BY <1>1, <2>1, WordIsAddress, WordsAreAddresses DEF Held, IsWrite, Caches
<1>2. CASE c = "L1D"
  <2>1. p.addr \in DataWords /\ p.type \in {"load", "store"}
    BY <1>2 DEF PacketSet, Reads, Stores
  <2>2. p.type = "store" => p \in Stores(c)
    BY <1>2 DEF PacketSet, Reads
  <2>3. ASSUME IsWrite(p), NEW o \in Offsets, o \in DOMAIN p.data
        PROVE  p.data[o] \in Values
    <3>1. p \in Stores(c)
      BY <2>1, <2>2, <2>3 DEF IsWrite
    <3>2. PICK o2 \in Offsets : p.data \in [{o2} -> Values]
      BY <3>1 DEF Stores
    <3>3. QED
      BY <2>3, <3>2
  <2>4. QED
    BY <1>2, <2>1, <2>3, WordIsAddress, WordsAreAddresses DEF Held, Caches
<1>3. CASE c \in {"L2", "Mem"}
  <2>1. \/ p.type = "fetch" /\ p.addr \in Starts(TextBlocks)
        \/ p.type = "load" /\ p.addr \in Starts(DataBlocks)
        \/ /\ p.type = "writeback" /\ p.addr \in Starts(Blocks)
           /\ p.data \in [Offsets -> Values]
    BY <1>3, WordIsAddress DEF PacketSet, Reads, WriteBacksOf, Starts
  <2>2. \A b \in Blocks : /\ b * BlkSize \in Addresses /\ BlockOf(b * BlkSize) = b
                          /\ BlockAddress(b * BlkSize) = b * BlkSize
    BY BlockAddresses
  <2>3. CASE p.type = "fetch" /\ p.addr \in Starts(TextBlocks)
    <3>1. PICK b \in TextBlocks : p.addr = b * BlkSize
      BY <2>3 DEF Starts
    <3>2. QED
      BY <1>3, <2>2, <2>3, <3>1, WordIsAddress DEF Held, IsWrite, Caches, PrevOf
  <2>4. CASE p.type = "load" /\ p.addr \in Starts(DataBlocks)
    <3>1. PICK b \in DataBlocks : p.addr = b * BlkSize
      BY <2>4 DEF Starts
    <3>2. QED
      BY <1>3, <2>2, <2>4, <3>1, WordIsAddress DEF Held, IsWrite, Caches, PrevOf
  <2>5. CASE /\ p.type = "writeback" /\ p.addr \in Starts(Blocks)
             /\ p.data \in [Offsets -> Values]
    <3>1. PICK b \in Blocks : p.addr = b * BlkSize
      BY <2>5 DEF Starts
    <3>2. QED
      BY <1>3, <2>2, <2>5, <3>1, WordIsAddress DEF Held, IsWrite, Caches
  <2>6. QED
    BY <2>1, <2>3, <2>4, <2>5
<1>4. QED
  BY <1>1, <1>2, <1>3 DEF Levels, Caches

\* What a cache holds depends on its blocks only.
LEMMA HoldingSame ==
  ASSUME NEW s, NEW r, NEW c \in Caches, r.blocks[c] = s.blocks[c], NEW addr
  PROVE  Holding(r, c, addr) = Holding(s, c, addr)
  BY DEF Holding

\* A packet is applied to a block that the cache holds.
LEMMA ApplyEffect ==
  ASSUME NEW s, Typed(s), NEW c \in Caches, NEW addr \in Addresses,
         Holding(s, c, addr) # {}, NEW d \in Levels, NEW p \in PacketSet(d),
         IsWrite(p) => c # "L1I"
  PROVE  LET r == Apply(s, c, addr, p)
         IN /\ Typed(r)
            /\ r.queue = s.queue /\ r.mshr = s.mshr /\ r.store = s.store
            /\ r.abort = s.abort /\ r.out = s.out
            /\ \A e \in Caches \ {c} : r.blocks[e] = s.blocks[e]
            /\ \A a \in Addresses : Holding(r, c, a) = Holding(s, c, a)
<1>1. PICK set : set = getLocation(c, addr).set
  OBVIOUS
<1>2. PICK way : way = Way(s, c, addr)
  OBVIOUS
<1>3. PICK old : old = s.blocks[c][set][way]
  OBVIOUS
<1>4. set \in Sets(c) /\ way \in Ways(c) /\ old \in BlockSet(c, set) /\ old.valid
      /\ old.data \in [Offsets -> Values]
  BY <1>1, <1>2, <1>3, WayHolds
<1>5. PICK b : b = Applied(p, old)
  OBVIOUS
<1>6. IsWrite(p) => \A o \in Offsets : o \in DOMAIN p.data => p.data[o] \in Values
  BY PacketFacts
<1>7. b \in BlockSet(c, set) /\ b.valid = old.valid /\ b.tag = old.tag
  <2>1. CASE IsWrite(p)
    <3>1. PICK data : data = Overwritten(p.data, old.data)
      OBVIOUS
    <3>2. data \in [Offsets -> Values]
      BY <1>4, <1>6, <2>1, <3>1 DEF Overwritten
    <3>3. b = [old EXCEPT !.data = data, !.dirty = TRUE]
      BY <1>5, <2>1, <3>1 DEF Applied
    <3>4. QED
      BY <1>4, <2>1, <3>2, <3>3 DEF BlockSet
  <2>2. CASE ~IsWrite(p)
    BY <1>4, <1>5, <2>2 DEF Applied
  <2>3. QED
    BY <2>1, <2>2
<1>8. PICK r : r = Apply(s, c, addr, p)
  OBVIOUS
<1>9. r = WithBlock(s, c, set, way, b)
  BY <1>1, <1>2, <1>3, <1>5, <1>8 DEF Apply, WithBlock
<1>10. /\ Typed(r)
       /\ r.queue = s.queue /\ r.mshr = s.mshr /\ r.store = s.store
       /\ r.abort = s.abort /\ r.out = s.out
       /\ \A k \in Caches \ {c} : r.blocks[k] = s.blocks[k]
       /\ \A e \in Sets(c) \ {set} : r.blocks[c][e] = s.blocks[c][e]
       /\ \A w \in Ways(c) \ {way} : r.blocks[c][set][w] = s.blocks[c][set][w]
       /\ r.blocks[c][set][way] = b
  BY <1>4, <1>7, <1>9, BlockChange
<1>11. ASSUME NEW a \in Addresses
       PROVE  Holding(r, c, a) = Holding(s, c, a)
  <2>1. getLocation(c, a).set \in Sets(c)
    BY Location
  <2>2. \A w \in Ways(c) :
          /\ r.blocks[c][getLocation(c, a).set][w].valid =
               s.blocks[c][getLocation(c, a).set][w].valid
          /\ r.blocks[c][getLocation(c, a).set][w].tag =
               s.blocks[c][getLocation(c, a).set][w].tag
    BY <1>3, <1>7, <1>10, <2>1
  <2>3. QED
    BY <2>2 DEF Holding
<1>12. QED
  BY <1>8, <1>10, <1>11

\* A block is put in its place, after the one there has been written back.
LEMMA PlacedEffect ==
  ASSUME NEW s, Typed(s), NEW c \in Caches, NEW addr \in Addresses,
         BlockOf(addr) \in Held(c), NEW data \in [Offsets -> Values], NEW victim,
         victim[c][BlockOf(addr)] \in Ways(c)
  PROVE  LET r == Placed(s, c, addr, data, victim)
         IN /\ Typed(r) /\ May(s, r, Losses)
            /\ r.mshr = s.mshr /\ r.store = s.store /\ r.out = s.out
            /\ \A d \in Levels \ {Next1(c)} : r.queue[d] = s.queue[d]
            /\ Grown(Next1(c), s.queue[Next1(c)], r.queue[Next1(c)])
            /\ \A d \in Caches \ {c} : r.blocks[d] = s.blocks[d]
            /\ Holding(r, c, addr) # {}
<1>1. PICK loc : loc = getLocation(c, addr)
  OBVIOUS
<1>2. /\ loc.set \in Sets(c) /\ loc.tag \in Nat
      /\ loc.tag * NumSets[c] + loc.set = BlockOf(addr)
  BY <1>1, Location
<1>3. PICK r : r = Placed(s, c, addr, data, victim)
  OBVIOUS
<1>4. CASE Holding(s, c, addr) # {}
  <2>1. PICK way : way = Way(s, c, addr)
    OBVIOUS
  <2>2. PICK old : old = s.blocks[c][loc.set][way]
    OBVIOUS
  <2>3. way \in Ways(c) /\ old \in BlockSet(c, loc.set) /\ old.valid /\ old.tag = loc.tag
    BY <1>1, <1>4, <2>1, <2>2, WayHolds
  <2>4. PICK b : b = [old EXCEPT !.data = data]
    OBVIOUS
  <2>5. b \in BlockSet(c, loc.set) /\ b.valid /\ b.tag = loc.tag
    BY <2>3, <2>4 DEF BlockSet
  <2>6. r = WithBlock(s, c, loc.set, way, b)
    BY <1>1, <1>3, <1>4, <2>1, <2>2, <2>4 DEF Placed, WithBlock
  <2>7. /\ Typed(r)
        /\ r.queue = s.queue /\ r.mshr = s.mshr /\ r.store = s.store
        /\ r.abort = s.abort /\ r.out = s.out
        /\ \A d \in Caches \ {c} : r.blocks[d] = s.blocks[d]
        /\ r.blocks[c][loc.set][way] = b
    BY <1>2, <2>3, <2>5, <2>6, BlockChange
  <2>8. way \in Holding(r, c, addr)
    BY <1>1, <2>3, <2>5, <2>7 DEF Holding
  <2>9. Next1(c) \in Levels /\ Grown(Next1(c), s.queue[Next1(c)], s.queue[Next1(c)])
    BY LevelBelow, NothingGrown
  <2>10. QED
    BY <1>3, <2>7, <2>8, <2>9 DEF May
<1>5. CASE Holding(s, c, addr) = {}
  <2>1. PICK way : way = WayFor(s, c, addr, victim)
    OBVIOUS
  <2>2. way \in Ways(c)
    <3>1. PICK invalid : invalid = {w \in Ways(c) : ~s.blocks[c][loc.set][w].valid}
      OBVIOUS
    <3>2. invalid # {} => Lowest(invalid) \in Ways(c)
      BY <3>1, LowestWay
    <3>3. way = IF invalid # {} THEN Lowest(invalid) ELSE victim[c][BlockOf(addr)]
      BY <1>1, <2>1, <3>1 DEF WayFor
    <3>4. QED
      BY <3>2, <3>3
  <2>3. PICK w : w = writeBack(s, c, loc.set, way)
    OBVIOUS
  <2>4. /\ Typed(w) /\ May(s, w, Losses)
        /\ w.blocks = s.blocks /\ w.mshr = s.mshr /\ w.store = s.store
        /\ w.out = s.out
        /\ \A d \in Levels \ {Next1(c)} : w.queue[d] = s.queue[d]
        /\ Grown(Next1(c), s.queue[Next1(c)], w.queue[Next1(c)])
    BY <1>2, <2>2, <2>3, WriteBackEffect
  <2>5. PICK b : b = [valid |-> TRUE, dirty |-> FALSE, tag |-> loc.tag, data |-> data]
    OBVIOUS
  <2>6. b \in BlockSet(c, loc.set) /\ b.valid /\ b.tag = loc.tag
    BY <1>2, <2>5 DEF BlockSet
  <2>7. r = WithBlock(w, c, loc.set, way, b)
    BY <1>1, <1>3, <1>5, <2>1, <2>3, <2>5 DEF Placed, WithBlock
  <2>8. /\ Typed(r)
        /\ r.queue = w.queue /\ r.mshr = w.mshr /\ r.store = w.store
        /\ r.abort = w.abort /\ r.out = w.out
        /\ \A d \in Caches \ {c} : r.blocks[d] = w.blocks[d]
        /\ r.blocks[c][loc.set][way] = b
    BY <1>2, <2>2, <2>4, <2>6, <2>7, BlockChange
  <2>9. way \in Holding(r, c, addr)
    BY <1>1, <2>2, <2>6, <2>8 DEF Holding
  <2>10. QED
    BY <1>3, <2>4, <2>8, <2>9 DEF May
<1>6. QED
  BY <1>4, <1>5

\* The core is answered.
LEMMA ToCoreEffect ==
  ASSUME NEW s, Typed(s), NEW c \in {"L1I", "L1D"}, NEW p \in PacketSet(c),
         NEW b, b.data \in [Offsets -> Values]
  PROVE  LET r == ToCore(s, p, b)
         IN /\ Typed(r)
            /\ r.queue = s.queue /\ r.blocks = s.blocks /\ r.mshr = s.mshr
            /\ r.store = s.store /\ r.abort = s.abort
            /\ AnswersFor(s, p, r)
<1>1. PICK x : x = [type |-> p.type, addr |-> p.addr,
                    value |-> b.data[p.addr % BlkSize]]
  OBVIOUS
<1>2. p.addr % BlkSize \in Offsets
  BY PacketFacts, AddressParts DEF Levels, Caches
<1>3. \/ p.type = "fetch" /\ p.addr \in TextWords
      \/ p.type \in {"load", "store"} /\ p.addr \in DataWords
  BY DEF PacketSet, Reads, Stores
<1>4. x \in Answers
  BY <1>1, <1>2, <1>3 DEF Answers
<1>5. Append(s.out, x) \in Seq(Answers)
  BY <1>4 DEF Typed
<1>6. ToCore(s, p, b) = [s EXCEPT !.out = Append(@, x)]
  BY <1>1 DEF ToCore
<1>7. x.type = p.type /\ x.addr = p.addr
  BY <1>1
<1>8. PICK r : r = ToCore(s, p, b)
  OBVIOUS
<1>9. /\ Typed(r)
      /\ r.queue = s.queue /\ r.blocks = s.blocks /\ r.mshr = s.mshr
      /\ r.store = s.store /\ r.abort = s.abort /\ r.out = Append(s.out, x)
  BY <1>5, <1>6, <1>8 DEF Typed
<1>10. AnswersFor(s, p, r)
  BY <1>4, <1>7, <1>9 DEF AnswersFor
<1>11. QED
  BY <1>8, <1>9, <1>10

\* The first waiting packet leaves the entry.
LEMMA LeaveEffect ==
  ASSUME NEW s, Typed(s), NEW c \in Caches, s.mshr[c][1].sub # <<>>
  PROVE  LET r == Leave(s, c)
         IN /\ Typed(r)
            /\ r.queue = s.queue /\ r.blocks = s.blocks /\ r.store = s.store
            /\ r.abort = s.abort /\ r.out = s.out
            /\ Leaves(s, c, r)
<1>1. MshrTyped(s.mshr) /\ 1 \in 1 .. MshrEntries[c]
  BY Geometry DEF Typed
<1>2. s.mshr[c][1].sub \in Seq(PacketSet(c)) /\ s.mshr[c][1] \in EntrySet(c)
  BY <1>1 DEF MshrTyped, EntrySet
<1>a. PICK sub : sub = Tail(s.mshr[c][1].sub)
  OBVIOUS
<1>b. sub \in Seq(PacketSet(c)) /\ Len(sub) <= MshrSubentries[c]
  <2>1. Len(s.mshr[c][1].sub) <= MshrSubentries[c]
    BY <1>2 DEF EntrySet
  <2>2. MshrSubentries[c] \in Nat
    BY Geometry
  <2>3. /\ sub \in Seq(PacketSet(c)) /\ Len(sub) = Len(s.mshr[c][1].sub) - 1
        /\ Len(s.mshr[c][1].sub) \in Nat
    BY <1>2, <1>a
  <2>4. QED
    BY <2>1, <2>2, <2>3
<1>3. PICK e : e = [s.mshr[c][1] EXCEPT !.sub = sub]
  OBVIOUS
<1>4. /\ e \in EntrySet(c) /\ e.sub = Tail(s.mshr[c][1].sub)
      /\ e.address = s.mshr[c][1].address
  BY <1>2, <1>a, <1>b, <1>3 DEF EntrySet
<1>5. Leave(s, c) = WithEntry(s, c, 1, e)
  BY <1>a, <1>3 DEF Leave, WithEntry
<1>6. PICK r : r = Leave(s, c)
  OBVIOUS
<1>7. /\ Typed(r)
      /\ r.queue = s.queue /\ r.blocks = s.blocks /\ r.store = s.store
      /\ r.abort = s.abort /\ r.out = s.out
      /\ \A d \in Caches \ {c} : r.mshr[d] = s.mshr[d]
      /\ \A i \in (1 .. MshrEntries[c]) \ {1} : r.mshr[c][i] = s.mshr[c][i]
      /\ r.mshr[c][1] = e
  BY <1>1, <1>4, <1>5, <1>6, EntryChange
<1>8. Leaves(s, c, r)
  BY <1>4, <1>7 DEF Leaves
<1>9. QED
  BY <1>6, <1>7, <1>8

-------------------------------------------------------------------------------
(* An answer to a level 1 cache.                                             *)

\* The rest of a sequence of which some have been served.
LEMMA RestOfSequence ==
  ASSUME NEW S, NEW q \in Seq(S), NEW k \in 1 .. Len(q)
  PROVE  /\ SubSeq(q, k, Len(q)) # <<>>
         /\ Tail(SubSeq(q, k, Len(q))) = SubSeq(q, k + 1, Len(q))
         /\ Head(SubSeq(q, k, Len(q))) = q[k]
<1>1. Len(q) \in k .. Len(q)
  OBVIOUS
<1>2. SubSeq(q, k, Len(q)) # <<>>
  <2>1. Len(SubSeq(q, k, Len(q))) = (Len(q) - k) + 1
    OBVIOUS
  <2>2. Len(SubSeq(q, k, Len(q))) # 0
    BY <2>1
  <2>3. Len(<<>>) = 0
    OBVIOUS
  <2>4. QED
    BY <2>2, <2>3, Zenon
<1>3. QED
  BY <1>1, <1>2, HeadTailOfSubSeq, Zenon

\* One waiting packet is served.
ServedOne(s, c, addr, r) ==
  /\ Typed(r) /\ Holding(r, c, addr) # {}
  /\ r.queue = s.queue /\ r.store = s.store /\ r.abort = s.abort
  /\ \A d \in Caches \ {c} : r.blocks[d] = s.blocks[d]
  /\ Leaves(s, c, r)
  /\ SameHeld(s, r, c) /\ Settles(s, r)

\* It is the first of the first entry.
LEMMA ServeL1Effect ==
  ASSUME NEW s, Typed(s), NEW c \in {"L1I", "L1D"}, NEW addr \in Addresses,
         Holding(s, c, addr) # {}, NEW p \in PacketSet(c), s.mshr[c][1].sub # <<>>,
         p = Head(s.mshr[c][1].sub)
  PROVE  ServedOne(s, c, addr, ServeL1(s, c, addr, p))
<1>1. c \in Caches /\ c \in Levels
  BY DEF Caches, Levels
<1>2. PICK x : x = Apply(s, c, addr, p)
  OBVIOUS
<1>3. IsWrite(p) => c # "L1I"
  BY <1>1, PacketFacts
<1>4. /\ Typed(x)
      /\ x.queue = s.queue /\ x.mshr = s.mshr /\ x.store = s.store
      /\ x.abort = s.abort /\ x.out = s.out
      /\ \A e \in Caches \ {c} : x.blocks[e] = s.blocks[e]
      /\ Holding(x, c, addr) # {}
      /\ \A a \in Addresses : Holding(x, c, a) = Holding(s, c, a)
  BY <1>1, <1>2, <1>3, ApplyEffect, SMTT(60)
<1>5. PICK b : b = BlockAt(x, c, addr)
  OBVIOUS
<1>6. b.data \in [Offsets -> Values]
  BY <1>1, <1>4, <1>5, WayHolds
<1>7. PICK y : y = ToCore(x, p, b)
  OBVIOUS
<1>8. /\ Typed(y)
      /\ y.queue = x.queue /\ y.blocks = x.blocks /\ y.mshr = x.mshr
      /\ y.store = x.store /\ y.abort = x.abort
      /\ AnswersFor(x, p, y)
  BY <1>4, <1>6, <1>7, ToCoreEffect
<1>9. PICK r : r = Leave(y, c)
  OBVIOUS
<1>10. y.mshr[c][1].sub # <<>>
  BY <1>4, <1>8
<1>11. /\ Typed(r)
       /\ r.queue = y.queue /\ r.blocks = y.blocks /\ r.store = y.store
       /\ r.abort = y.abort /\ r.out = y.out
       /\ Leaves(y, c, r)
  BY <1>1, <1>8, <1>9, <1>10, LeaveEffect
<1>12. \A a \in Addresses : Holding(r, c, a) = Holding(x, c, a)
  <2>1. r.blocks[c] = x.blocks[c]
    BY <1>8, <1>11
  <2>2. QED
    BY <1>1, <2>1, HoldingSame
<1>a. SameHeld(s, r, c)
  BY <1>4, <1>12 DEF SameHeld
<1>13. r = ServeL1(s, c, addr, p)
  BY <1>2, <1>5, <1>7, <1>9 DEF ServeL1
<1>14. AnswersFor(s, p, r) /\ Leaves(s, c, r)
  BY <1>4, <1>8, <1>11 DEF AnswersFor, Leaves
<1>15. Settles(s, r)
  BY <1>11, <1>14, SettlesOne
<1>16. Typed(r) /\ Holding(r, c, addr) # {}
  BY <1>4, <1>11, <1>12
<1>17. /\ r.queue = s.queue /\ r.store = s.store /\ r.abort = s.abort
       /\ \A d \in Caches \ {c} : r.blocks[d] = s.blocks[d]
  BY <1>4, <1>8, <1>11
<1>18. QED
  BY <1>13, <1>14, <1>15, <1>16, <1>17, <1>a DEF ServedOne

\* The loop of recvResp, in a level 1 cache.
AllServedL1(s, c, addr, subs) ==
  FoldLeft(LAMBDA st, p : ServeL1(st, c, addr, p), s, subs)

\* All that waited are served.
ServedAll(s, c, r) ==
  /\ Typed(r)
  /\ r.queue = s.queue /\ r.store = s.store /\ r.abort = s.abort
  /\ \A d \in Caches \ {c} : r.blocks[d] = s.blocks[d] /\ r.mshr[d] = s.mshr[d]
  /\ \A i \in 2 .. MshrEntries[c] : r.mshr[c][i] = s.mshr[c][i]
  /\ r.mshr[c][1].sub = <<>> /\ SameHeld(s, r, c) /\ Settles(s, r)

\* One after another.
LEMMA ServedL1Effect ==
  ASSUME NEW s, Typed(s), NEW c \in {"L1I", "L1D"}, NEW addr \in Addresses,
         Holding(s, c, addr) # {}, NEW subs, subs = s.mshr[c][1].sub
  PROVE  ServedAll(s, c, AllServedL1(s, c, addr, subs))
<1>1. c \in Caches /\ 1 \in 1 .. MshrEntries[c]
  BY Geometry DEF Caches
<1>2. subs \in Seq(PacketSet(c)) /\ Len(subs) \in Nat
  <2>1. s.mshr[c][1] \in EntrySet(c)
    BY <1>1 DEF Typed, MshrTyped
  <2>2. QED
    BY <2>1 DEF EntrySet
<1>3. PICK ctx : ctx = [c |-> c, addr |-> addr, from |-> s]
  OBVIOUS
<1>4. ctx.c = c /\ ctx.addr = addr /\ ctx.from = s
  BY <1>3
<1>5. ServingL1(ctx, 0, s)
  <2>1. SubSeq(subs, 1, Len(subs)) = subs
    BY <1>2
  <2>2. Settles(s, s)
    BY SettlesSame
  <2>3. SameHeld(s, s, c)
    BY DEF SameHeld
  <2>4. QED
    BY <1>4, <2>1, <2>2, <2>3 DEF ServingL1
<1>6. ASSUME NEW k \in 1 .. Len(subs), NEW x, ServingL1(ctx, k - 1, x)
      PROVE  ServingL1(ctx, k, ServeL1(x, c, addr, subs[k]))
  <2>1. /\ Typed(x) /\ Holding(x, c, addr) # {}
        /\ x.queue = s.queue /\ x.store = s.store /\ x.abort = s.abort
        /\ \A d \in Caches \ {c} : x.blocks[d] = s.blocks[d] /\ x.mshr[d] = s.mshr[d]
        /\ \A i \in 2 .. MshrEntries[c] : x.mshr[c][i] = s.mshr[c][i]
        /\ x.mshr[c][1].sub = SubSeq(subs, k, Len(subs)) /\ Settles(s, x)
        /\ SameHeld(s, x, c)
    <3>1. (k - 1) + 1 = k
      BY <1>2
    <3>2. QED
      BY <1>4, <1>6, <3>1 DEF ServingL1
  <2>2. PICK p \in PacketSet(c) : p = subs[k]
    BY <1>2
  <2>3. /\ SubSeq(subs, k, Len(subs)) # <<>>
        /\ Tail(SubSeq(subs, k, Len(subs))) = SubSeq(subs, k + 1, Len(subs))
        /\ Head(SubSeq(subs, k, Len(subs))) = subs[k]
    BY <1>2, RestOfSequence
  <2>4. PICK r : r = ServeL1(x, c, addr, p)
    OBVIOUS
  <2>5. /\ Typed(r) /\ Holding(r, c, addr) # {}
        /\ r.queue = x.queue /\ r.store = x.store /\ r.abort = x.abort
        /\ \A d \in Caches \ {c} : r.blocks[d] = x.blocks[d] /\ r.mshr[d] = x.mshr[d]
        /\ \A i \in 2 .. MshrEntries[c] : r.mshr[c][i] = x.mshr[c][i]
        /\ r.mshr[c][1].sub = Tail(x.mshr[c][1].sub) /\ Settles(x, r)
        /\ SameHeld(x, r, c)
    <3>1. x.mshr[c][1].sub # <<>> /\ p = Head(x.mshr[c][1].sub)
      BY <2>1, <2>2, <2>3
    <3>2. Typed(x) /\ Holding(x, c, addr) # {}
      BY <2>1
    <3>3. ServedOne(x, c, addr, r)
      BY <2>2, <2>4, <3>1, <3>2, ServeL1Effect
    <3>4. QED
      BY <3>3 DEF ServedOne, Leaves
  <2>6. r.mshr[c][1].sub = SubSeq(subs, k + 1, Len(subs))
    BY <2>1, <2>3, <2>5
  <2>a. Settles(s, r)
    BY <2>1, <2>5, SettlesTwice
  <2>b. SameHeld(s, r, c)
    BY <2>1, <2>5 DEF SameHeld
  <2>7. ServingL1(ctx, k, r)
    BY <1>4, <2>1, <2>5, <2>6, <2>a, <2>b, SMTT(60), ZenonT(60) DEF ServingL1
  <2>8. QED
    BY <2>2, <2>4, <2>7
<1>7. PICK r : r = L1Fold!Fold(c, addr, 0, s, subs)
  OBVIOUS
<1>8. r = AllServedL1(s, c, addr, subs)
  BY <1>7, Zenon DEF AllServedL1, L1Fold!Fold, FoldLeft, MapThenFoldSet, Max,
                     L1Fold!FoldLeft, L1Fold!MapThenFoldSet, L1Fold!Max
<1>9. ServingL1(ctx, Len(subs), r)
  BY <1>2, <1>5, <1>6, <1>7, L1Fold!FoldInvariant
<1>10. SubSeq(subs, Len(subs) + 1, Len(subs)) = <<>>
  BY <1>2
<1>11. ServedAll(s, c, r)
  BY <1>4, <1>9, <1>10 DEF ServingL1, ServedAll
<1>12. QED
  BY <1>8, <1>11

\* The victims a Tick may choose.
Evicts(victim) == \A c \in Caches, b \in Blocks : victim[c][b] \in Ways(c)

\* What an answer to a level 1 cache does: its first entry is released, and the L2
\* may be sent write-backs.
L1Filled(s, c, r) ==
  /\ Typed(r) /\ r.store = s.store
  /\ s.mshr[c][1].sub = <<>> => r.abort # "none" /\ May(s, r, Losses \cup {"noentry"})
  /\ s.mshr[c][1].sub # <<>> => May(s, r, Losses)
  /\ \A d \in Levels \ {"L2"} : r.queue[d] = s.queue[d]
  /\ Grown("L2", s.queue["L2"], r.queue["L2"])
  /\ \A d \in Caches \ {c} : r.blocks[d] = s.blocks[d] /\ r.mshr[d] = s.mshr[d]
  /\ \A i \in 2 .. MshrEntries[c] : r.mshr[c][i] = s.mshr[c][i]
  /\ r.mshr[c][1].sub = <<>>
  /\ Settles(s, r)

\* recvResp of a level 1 cache serves its first entry or finds none.
LEMMA FillL1Effect ==
  ASSUME NEW s, Typed(s), NEW c \in {"L1I", "L1D"}, NEW addr \in Addresses,
         BlockOf(addr) \in Held(c), NEW data \in [Offsets -> Values], NEW victim,
         Evicts(victim)
  PROVE  L1Filled(s, c, FillL1(s, c, addr, data, victim))
<1>1. c \in Caches /\ Next1(c) = "L2" /\ BlockOf(addr) \in Blocks
  BY AddressParts DEF Caches, Next1
<1>2. PICK x : x = Placed(s, c, addr, data, victim)
  OBVIOUS
<1>3. victim[c][BlockOf(addr)] \in Ways(c)
  BY <1>1 DEF Evicts
<1>4. /\ Typed(x) /\ May(s, x, Losses)
      /\ x.mshr = s.mshr /\ x.store = s.store /\ x.out = s.out
      /\ \A d \in Levels \ {"L2"} : x.queue[d] = s.queue[d]
      /\ Grown("L2", s.queue["L2"], x.queue["L2"])
      /\ \A d \in Caches \ {c} : x.blocks[d] = s.blocks[d]
      /\ Holding(x, c, addr) # {}
  BY <1>1, <1>2, <1>3, PlacedEffect
<1>5. PICK subs : subs = s.mshr[c][1].sub
  OBVIOUS
<1>6. PICK y : y = AllServedL1(x, c, addr, subs)
  OBVIOUS
<1>7. FillL1(s, c, addr, data, victim) =
        IF subs = <<>> THEN Fails(x, "noentry")
        ELSE [y EXCEPT !.mshr[c][1].address = 0]
  BY <1>2, <1>5, <1>6, Zenon DEF FillL1, AllServedL1
<1>8. CASE subs = <<>>
  <2>1. PICK r : r = Fails(x, "noentry")
    OBVIOUS
  <2>2. "noentry" \in Aborts
    BY DEF Aborts
  <2>3. /\ Typed(r)
        /\ r.abort = x.abort \/ (x.abort = "none" /\ r.abort = "noentry")
        /\ r.queue = x.queue /\ r.blocks = x.blocks /\ r.mshr = x.mshr
        /\ r.store = x.store /\ r.out = x.out
    BY <1>4, <2>1, <2>2, FailsEffect
  <2>4. r.abort # "none"
    BY <1>4, <2>1 DEF Fails, Typed
  <2>5. May(s, r, Losses \cup {"noentry"})
    BY <1>4, <2>3 DEF May
  <2>6. Settles(s, r)
    BY <1>4, <2>3, SettlesSame
  <2>7. QED
    BY <1>4, <1>5, <1>7, <1>8, <2>1, <2>3, <2>4, <2>5, <2>6, ZenonT(60) DEF L1Filled
<1>9. CASE subs # <<>>
  <2>1. /\ Typed(y)
        /\ y.queue = x.queue /\ y.store = x.store /\ y.abort = x.abort
        /\ \A d \in Caches \ {c} : y.blocks[d] = x.blocks[d] /\ y.mshr[d] = x.mshr[d]
        /\ \A i \in 2 .. MshrEntries[c] : y.mshr[c][i] = x.mshr[c][i]
        /\ y.mshr[c][1].sub = <<>> /\ Settles(x, y)
    <3>1. subs = x.mshr[c][1].sub /\ Typed(x) /\ Holding(x, c, addr) # {}
      BY <1>4, <1>5
    <3>2. ServedAll(x, c, y)
      BY <1>6, <3>1, ServedL1Effect
    <3>3. QED
      BY <3>2 DEF ServedAll
  <2>a. Typed(y) /\ y.mshr[c][1].sub = <<>>
    BY <2>1
  <2>2. 1 \in 1 .. MshrEntries[c] /\ y.mshr[c][1] \in EntrySet(c)
    <3>1. 1 \in 1 .. MshrEntries[c]
      BY <1>1, Geometry
    <3>2. QED
      BY <1>1, <2>a, <3>1 DEF Typed, MshrTyped
  <2>3. PICK e : e = [y.mshr[c][1] EXCEPT !.address = 0]
    OBVIOUS
  <2>4. e \in EntrySet(c) /\ e.sub = <<>>
    BY <2>a, <2>2, <2>3 DEF EntrySet
  <2>5. PICK r : r = [y EXCEPT !.mshr[c][1].address = 0]
    OBVIOUS
  <2>6. r = WithEntry(y, c, 1, e)
    BY <2>3, <2>5 DEF WithEntry
  <2>7. /\ Typed(r)
        /\ r.queue = y.queue /\ r.blocks = y.blocks /\ r.store = y.store
        /\ r.abort = y.abort /\ r.out = y.out
        /\ \A d \in Caches \ {c} : r.mshr[d] = y.mshr[d]
        /\ \A k \in (1 .. MshrEntries[c]) \ {1} : r.mshr[c][k] = y.mshr[c][k]
        /\ r.mshr[c][1] = e
    BY <1>1, <2>1, <2>2, <2>4, <2>6, EntryChange
  <2>8. \A i \in 2 .. MshrEntries[c] : r.mshr[c][i] = s.mshr[c][i]
    <3>1. \A i \in 2 .. MshrEntries[c] : i \in (1 .. MshrEntries[c]) \ {1}
      OBVIOUS
    <3>2. QED
      BY <1>4, <2>1, <2>7, <3>1
  <2>9. May(s, r, Losses)
    BY <1>4, <2>1, <2>7 DEF May
  <2>10. Settles(s, r)
    <3>1. Settles(s, x)
      BY <1>4, SettlesSame
    <3>2. \A d \in Caches : \A i \in 1 .. MshrEntries[d] :
            /\ r.mshr[d][i].sub = y.mshr[d][i].sub
            /\ r.mshr[d][i].sub # <<>> => r.mshr[d][i].address = y.mshr[d][i].address
      BY <2>a, <2>4, <2>7
    <3>3. Shrunk(y, r)
      BY <3>2 DEF Shrunk
    <3>4. \A d \in {"L1I", "L1D"} : SameWaiting(y, r, d)
      BY <3>2 DEF SameWaiting, Caches
    <3>a. OthersKept(y, r)
      BY <3>2 DEF OthersKept
    <3>5. Settles(y, r)
      BY <2>7, <3>3, <3>4, <3>a, SettlesIf
    <3>6. QED
      BY <2>1, <3>1, <3>5, SettlesTwice
  <2>11. QED
    BY <1>4, <1>5, <1>7, <1>9, <2>1, <2>4, <2>5, <2>7, <2>8, <2>9, <2>10 DEF L1Filled
<1>10. QED
  BY <1>8, <1>9

-------------------------------------------------------------------------------
(* An answer to the L2.                                                      *)

\* A queue that has taken write-backs twice.
LEMMA GrownTwice ==
  ASSUME NEW c \in Levels, NEW S, NEW q \in Seq(S), NEW r \in Seq(S), NEW t \in Seq(S),
         Grown(c, q, r), Grown(c, r, t)
  PROVE  Grown(c, q, t)
<1>1. Len(q) \in Nat /\ Len(r) \in Nat /\ Len(t) \in Nat
  OBVIOUS
<1>2. Len(q) <= Len(r) /\ Len(r) <= Len(t)
  BY DEF Grown
<1>3. \A i \in 1 .. Len(q) : t[i] = q[i]
  BY <1>1, <1>2 DEF Grown
<1>4. ASSUME NEW i \in (Len(q) + 1) .. Len(t)
      PROVE  t[i].ready = Delay[c] /\ t[i].type = "writeback"
  <2>1. CASE i <= Len(r)
    BY <1>1, <1>2, <2>1 DEF Grown
  <2>2. CASE ~(i <= Len(r))
    BY <1>1, <1>2, <2>2 DEF Grown
  <2>3. QED
    BY <2>1, <2>2
<1>5. QED
  BY <1>1, <1>2, <1>3, <1>4 DEF Grown

\* One packet that waited in the L2 is served: a level 1 cache's read is answered.
L2Served(s, p, r) ==
  /\ Typed(r) /\ r.store = s.store
  /\ \A d \in Levels \ {"L2"} : r.queue[d] = s.queue[d]
  /\ Grown("L2", s.queue["L2"], r.queue["L2"])
  /\ \A a \in Addresses : Holding(r, "L2", a) = Holding(s, "L2", a)
  /\ r.mshr["L2"][1].sub = Tail(s.mshr["L2"][1].sub)
  /\ r.mshr["L2"][1].address = s.mshr["L2"][1].address
  /\ \A i \in 2 .. MshrEntries["L2"] : r.mshr["L2"][i] = s.mshr["L2"][i]
  /\ Settles(s, r)
  /\ IsWrite(p) => /\ May(s, r, {"writeanswer"}) /\ r.abort # "none"
  /\ ~IsWrite(p) =>
       /\ PrevOf(p) \in {"L1I", "L1D"}
       /\ s.mshr[PrevOf(p)][1].sub = <<>> =>
            r.abort # "none" /\ May(s, r, Losses \cup {"noentry"})
       /\ s.mshr[PrevOf(p)][1].sub # <<>> => May(s, r, Losses)
       /\ \A d \in {"L1I", "L1D"} \ {PrevOf(p)} :
            r.blocks[d] = s.blocks[d] /\ r.mshr[d] = s.mshr[d]
       /\ \A i \in 2 .. MshrEntries[PrevOf(p)] :
            r.mshr[PrevOf(p)][i] = s.mshr[PrevOf(p)][i]
       /\ r.mshr[PrevOf(p)][1].sub = <<>>

\* A waiting write-back is answered wrongly; a waiting read fills the cache
\* above, in whose first MSHR entry nothing waits any more.
LEMMA ServeL2Effect ==
  ASSUME NEW s, Typed(s), NEW addr \in Addresses, Holding(s, "L2", addr) # {},
         NEW p \in PacketSet("L2"), s.mshr["L2"][1].sub # <<>>, NEW victim, Evicts(victim)
  PROVE  L2Served(s, p, ServeL2(s, addr, p, victim))
<1>1. "L2" \in Caches /\ "L2" \in Levels
  BY DEF Caches, Levels
<1>2. PICK x : x = Apply(s, "L2", addr, p)
  OBVIOUS
<1>3. /\ Typed(x)
      /\ x.queue = s.queue /\ x.mshr = s.mshr /\ x.store = s.store
      /\ x.abort = s.abort /\ x.out = s.out
      /\ \A e \in Caches \ {"L2"} : x.blocks[e] = s.blocks[e]
      /\ \A a \in Addresses : Holding(x, "L2", a) = Holding(s, "L2", a)
  BY <1>1, <1>2, ApplyEffect
<1>a. Settles(s, x)
  BY <1>3, SettlesSame
<1>4. PICK data : data = BlockAt(x, "L2", addr).data
  OBVIOUS
<1>5. data \in [Offsets -> Values]
  BY <1>1, <1>3, <1>4, WayHolds
<1>6. PICK c : c = PrevOf(p)
  OBVIOUS
<1>7. PICK y : y = IF IsWrite(p) THEN Fails(x, "writeanswer")
                   ELSE FillL1(x, c, p.addr, data, victim)
  OBVIOUS
<1>8. ServeL2(s, addr, p, victim) = Leave(y, "L2")
  BY <1>2, <1>4, <1>6, <1>7 DEF ServeL2
<1>9. PICK r : r = Leave(y, "L2")
  OBVIOUS
<1>10. \A d \in {"L1I", "L1D"} : d \in Caches \ {"L2"}
  BY DEF Caches
<1>11. CASE IsWrite(p)
  <2>1. "writeanswer" \in Aborts
    BY DEF Aborts
  <2>2. /\ Typed(y)
        /\ y.abort = x.abort \/ (x.abort = "none" /\ y.abort = "writeanswer")
        /\ y.queue = x.queue /\ y.blocks = x.blocks /\ y.mshr = x.mshr
        /\ y.store = x.store /\ y.out = x.out
    BY <1>3, <1>7, <1>11, <2>1, FailsEffect
  <2>3. y.abort # "none"
    BY <1>3, <1>7, <1>11 DEF Fails, Typed
  <2>4. y.mshr["L2"][1].sub # <<>>
    BY <1>3, <2>2
  <2>a. /\ Typed(r)
        /\ r.queue = y.queue /\ r.blocks = y.blocks /\ r.store = y.store
        /\ r.abort = y.abort /\ r.out = y.out
        /\ Leaves(y, "L2", r)
    BY <1>1, <1>9, <2>2, <2>4, LeaveEffect
  <2>5. /\ Typed(r)
        /\ r.queue = y.queue /\ r.blocks = y.blocks /\ r.store = y.store
        /\ r.abort = y.abort
        /\ \A i \in 2 .. MshrEntries["L2"] : r.mshr["L2"][i] = y.mshr["L2"][i]
        /\ r.mshr["L2"][1].sub = Tail(y.mshr["L2"][1].sub)
        /\ r.mshr["L2"][1].address = y.mshr["L2"][1].address
    BY <2>a DEF Leaves
  <2>b. Settles(s, r)
    <3>1. Settles(x, y)
      BY <2>2, SettlesSame
    <3>2. Settles(y, r)
      BY <2>4, <2>a, SettlesBelow
    <3>3. QED
      BY <1>a, <3>1, <3>2, SettlesTwice
  <2>6. May(s, r, {"writeanswer"})
    BY <1>3, <2>2, <2>5 DEF May
  <2>7. \A a \in Addresses : Holding(r, "L2", a) = Holding(x, "L2", a)
    BY <1>1, <2>2, <2>5, HoldingSame
  <2>8. Grown("L2", s.queue["L2"], s.queue["L2"])
    BY <1>1, NothingGrown
  <2>9. QED
    BY <1>3, <1>8, <1>9, <1>11, <2>2, <2>3, <2>5, <2>b, <2>6, <2>7, <2>8 DEF L2Served
<1>12. CASE ~IsWrite(p)
  <2>1. c \in {"L1I", "L1D"} /\ BlockOf(p.addr) \in Held(c) /\ p.addr \in Addresses
    BY <1>1, <1>6, <1>12, PacketFacts
  <2>2. y = FillL1(x, c, p.addr, data, victim)
    BY <1>7, <1>12
  <2>3. /\ Typed(y) /\ y.store = x.store
        /\ x.mshr[c][1].sub = <<>> =>
             y.abort # "none" /\ May(x, y, Losses \cup {"noentry"})
        /\ x.mshr[c][1].sub # <<>> => May(x, y, Losses)
        /\ \A d \in Levels \ {"L2"} : y.queue[d] = x.queue[d]
        /\ Grown("L2", x.queue["L2"], y.queue["L2"])
        /\ \A d \in Caches \ {c} : y.blocks[d] = x.blocks[d] /\ y.mshr[d] = x.mshr[d]
        /\ \A i \in 2 .. MshrEntries[c] : y.mshr[c][i] = x.mshr[c][i]
        /\ y.mshr[c][1].sub = <<>> /\ Settles(x, y)
    <3>1. L1Filled(x, c, y)
      BY <1>3, <1>5, <2>1, <2>2, FillL1Effect
    <3>2. QED
      BY <3>1 DEF L1Filled
  <2>4. "L2" \in Caches \ {c}
    BY <1>1, <2>1
  <2>5. y.mshr["L2"][1].sub # <<>> /\ y.mshr["L2"] = s.mshr["L2"]
        /\ y.blocks["L2"] = x.blocks["L2"]
    BY <1>3, <2>3, <2>4
  <2>a. /\ Typed(r)
        /\ r.queue = y.queue /\ r.blocks = y.blocks /\ r.store = y.store
        /\ r.abort = y.abort /\ r.out = y.out
        /\ Leaves(y, "L2", r)
    BY <1>1, <1>9, <2>3, <2>5, LeaveEffect
  <2>6. /\ Typed(r)
        /\ r.queue = y.queue /\ r.blocks = y.blocks /\ r.store = y.store
        /\ r.abort = y.abort
        /\ \A d \in Caches \ {"L2"} : r.mshr[d] = y.mshr[d]
        /\ \A i \in 2 .. MshrEntries["L2"] : r.mshr["L2"][i] = y.mshr["L2"][i]
        /\ r.mshr["L2"][1].sub = Tail(y.mshr["L2"][1].sub)
        /\ r.mshr["L2"][1].address = y.mshr["L2"][1].address
    BY <2>a DEF Leaves
  <2>b. Settles(s, r)
    <3>1. Settles(y, r)
      BY <2>5, <2>a, SettlesBelow
    <3>2. QED
      BY <1>a, <2>3, <3>1, SettlesTwice
  <2>7. \A a \in Addresses : Holding(r, "L2", a) = Holding(x, "L2", a)
    <3>1. r.blocks["L2"] = x.blocks["L2"]
      BY <2>5, <2>6
    <3>2. QED
      BY <1>1, <3>1, HoldingSame
  <2>8. /\ s.mshr[c][1].sub = <<>> =>
             r.abort # "none" /\ May(s, r, Losses \cup {"noentry"})
        /\ s.mshr[c][1].sub # <<>> => May(s, r, Losses)
    BY <1>3, <2>3, <2>6 DEF May
  <2>9. /\ \A d \in {"L1I", "L1D"} \ {c} :
             r.blocks[d] = s.blocks[d] /\ r.mshr[d] = s.mshr[d]
        /\ \A i \in 2 .. MshrEntries[c] : r.mshr[c][i] = s.mshr[c][i]
        /\ r.mshr[c][1].sub = <<>>
    BY <1>3, <1>10, <2>1, <2>3, <2>6
  <2>10. QED
    BY <1>3, <1>6, <1>8, <1>9, <1>12, <2>1, <2>3, <2>5, <2>6, <2>b, <2>7, <2>8, <2>9
       DEF L2Served
<1>13. QED
  BY <1>11, <1>12

\* The assertions that a Tick may fail.
Failures == Losses \cup {"noentry", "writeanswer"}

\* While they are served: ctx.from is the state with the block placed, k how many
\* have been.
ServingL2(ctx, k, x) ==
  LET from == ctx.from
      subs == from.mshr["L2"][1].sub
  IN /\ Typed(x) /\ x.store = from.store /\ May(from, x, Failures)
     /\ Holding(x, "L2", ctx.addr) # {}
     /\ \A d \in Levels \ {"L2"} : x.queue[d] = from.queue[d]
     /\ Grown("L2", from.queue["L2"], x.queue["L2"])
     /\ \A i \in 2 .. MshrEntries["L2"] : x.mshr["L2"][i] = from.mshr["L2"][i]
     /\ x.mshr["L2"][1].sub = SubSeq(subs, k + 1, Len(subs))
     /\ Settles(from, x)

\* The loop over the packets that wait in the L2.
L2Fold == INSTANCE FoldInduction WITH
            op <- LAMBDA addr, victim, unused, x, p : ServeL2(x, addr, p, victim),
            J <- ServingL2

\* The loop of recvResp, in the L2.
AllServedL2(s, addr, victim, subs) ==
  FoldLeft(LAMBDA st, p : ServeL2(st, addr, p, victim), s, subs)

\* One packet more is served.
LEMMA ServeL2Step ==
  ASSUME NEW ctx, NEW subs, subs = ctx.from.mshr["L2"][1].sub,
         subs \in Seq(PacketSet("L2")), NEW k \in 1 .. Len(subs),
         ctx.addr \in Addresses, Typed(ctx.from), NEW victim, Evicts(victim),
         NEW x, ServingL2(ctx, k - 1, x)
  PROVE  ServingL2(ctx, k, ServeL2(x, ctx.addr, subs[k], victim))
<1>1. PICK from : from = ctx.from
  OBVIOUS
<1>2. PICK addr \in Addresses : addr = ctx.addr
  OBVIOUS
<1>3. PICK p \in PacketSet("L2") : p = subs[k]
  OBVIOUS
<1>4. (k - 1) + 1 = k
  OBVIOUS
<1>5. /\ Typed(x) /\ x.store = from.store /\ May(from, x, Failures)
      /\ Holding(x, "L2", addr) # {}
      /\ \A d \in Levels \ {"L2"} : x.queue[d] = from.queue[d]
      /\ Grown("L2", from.queue["L2"], x.queue["L2"])
      /\ \A i \in 2 .. MshrEntries["L2"] : x.mshr["L2"][i] = from.mshr["L2"][i]
      /\ x.mshr["L2"][1].sub = SubSeq(subs, k, Len(subs)) /\ Settles(from, x)
  BY <1>1, <1>2, <1>4 DEF ServingL2
<1>6. /\ SubSeq(subs, k, Len(subs)) # <<>>
      /\ Tail(SubSeq(subs, k, Len(subs))) = SubSeq(subs, k + 1, Len(subs))
  BY RestOfSequence
<1>7. x.mshr["L2"][1].sub # <<>>
  BY <1>5, <1>6
<1>8. PICK r : r = ServeL2(x, addr, p, victim)
  OBVIOUS
<1>9. L2Served(x, p, r)
  <2>1. Typed(x) /\ Holding(x, "L2", addr) # {}
    BY <1>5
  <2>2. QED
    BY <1>7, <1>8, <2>1, ServeL2Effect
<1>10. /\ Typed(r) /\ r.store = x.store
       /\ \A d \in Levels \ {"L2"} : r.queue[d] = x.queue[d]
       /\ Grown("L2", x.queue["L2"], r.queue["L2"])
       /\ Holding(r, "L2", addr) # {}
       /\ r.mshr["L2"][1].sub = Tail(x.mshr["L2"][1].sub)
       /\ \A i \in 2 .. MshrEntries["L2"] : r.mshr["L2"][i] = x.mshr["L2"][i]
       /\ Settles(x, r)
  BY <1>5, <1>9 DEF L2Served
<1>11. May(x, r, Failures)
  BY <1>9 DEF L2Served, May, Failures
<1>12. May(from, r, Failures)
  BY <1>5, <1>11 DEF May
<1>13. Grown("L2", from.queue["L2"], r.queue["L2"])
  <2>1. "L2" \in Levels
    BY DEF Levels, Caches
  <2>2. /\ from.queue["L2"] \in Seq(PacketSet("L2"))
        /\ x.queue["L2"] \in Seq(PacketSet("L2"))
        /\ r.queue["L2"] \in Seq(PacketSet("L2"))
    BY <1>1, <1>5, <1>10, <2>1 DEF Typed, QueuesTyped
  <2>3. QED
    BY <1>5, <1>10, <2>1, <2>2, GrownTwice
<1>14. r.mshr["L2"][1].sub = SubSeq(subs, k + 1, Len(subs))
  BY <1>5, <1>6, <1>10
<1>a. Settles(from, r)
  BY <1>5, <1>10, SettlesTwice
<1>15. ServingL2(ctx, k, r)
  BY <1>1, <1>2, <1>5, <1>10, <1>12, <1>13, <1>14, <1>a DEF ServingL2
<1>16. QED
  BY <1>2, <1>3, <1>8, <1>15

\* All of them are.
LEMMA ServedL2Effect ==
  ASSUME NEW s, Typed(s), NEW addr \in Addresses, Holding(s, "L2", addr) # {},
         NEW victim, Evicts(victim), NEW subs, subs = s.mshr["L2"][1].sub
  PROVE  ServingL2([addr |-> addr, from |-> s], Len(subs),
                   AllServedL2(s, addr, victim, subs))
<1>1. PICK ctx : ctx = [addr |-> addr, from |-> s]
  OBVIOUS
<1>2. ctx.addr = addr /\ ctx.from = s
  BY <1>1
<1>3. "L2" \in Caches /\ "L2" \in Levels /\ 1 \in 1 .. MshrEntries["L2"]
  BY Geometry DEF Caches, Levels
<1>4. subs \in Seq(PacketSet("L2")) /\ Len(subs) \in Nat
  <2>1. s.mshr["L2"][1] \in EntrySet("L2")
    BY <1>3 DEF Typed, MshrTyped
  <2>2. QED
    BY <2>1 DEF EntrySet
<1>5. ServingL2(ctx, 0, s)
  <2>1. SubSeq(subs, 1, Len(subs)) = subs
    BY <1>4
  <2>2. Grown("L2", s.queue["L2"], s.queue["L2"])
    BY <1>3, NothingGrown
  <2>3. Settles(s, s)
    BY SettlesSame
  <2>4. QED
    BY <1>2, <2>1, <2>2, <2>3 DEF ServingL2, May
<1>6. \A k \in 1 .. Len(subs) : \A x :
        ServingL2(ctx, k - 1, x) => ServingL2(ctx, k, ServeL2(x, addr, subs[k], victim))
  <2> TAKE k \in 1 .. Len(subs)
  <2> TAKE x
  <2> HAVE ServingL2(ctx, k - 1, x)
  <2>1. QED
    BY <1>2, <1>4, ServeL2Step
<1>7. PICK r : r = L2Fold!Fold(addr, victim, 0, s, subs)
  OBVIOUS
<1>8. r = AllServedL2(s, addr, victim, subs)
  BY <1>7, Zenon DEF AllServedL2, L2Fold!Fold, FoldLeft, MapThenFoldSet, Max,
                     L2Fold!FoldLeft, L2Fold!MapThenFoldSet, L2Fold!Max
<1>9. ServingL2(ctx, Len(subs), r)
  BY <1>4, <1>5, <1>6, <1>7, L2Fold!FoldInvariant
<1>10. QED
  BY <1>1, <1>8, <1>9

\* What an answer to the L2 does.
L2Filled(s, r) ==
  /\ Typed(r) /\ r.store = s.store /\ May(s, r, Failures)
  /\ \A d \in {"L1I", "L1D"} : r.queue[d] = s.queue[d]
  /\ Grown("L2", s.queue["L2"], r.queue["L2"])
  /\ Grown("Mem", s.queue["Mem"], r.queue["Mem"])
  /\ \A i \in 2 .. MshrEntries["L2"] : r.mshr["L2"][i] = s.mshr["L2"][i]
  /\ r.mshr["L2"][1].sub = <<>>
  /\ Settles(s, r)

\* recvResp of the L2.
LEMMA FillL2Effect ==
  ASSUME NEW s, Typed(s), NEW addr \in Addresses, NEW data \in [Offsets -> Values],
         NEW victim, Evicts(victim)
  PROVE  L2Filled(s, FillL2(s, addr, data, victim))
<1>1. /\ "L2" \in Caches /\ Next1("L2") = "Mem" /\ BlockOf(addr) \in Held("L2")
      /\ BlockOf(addr) \in Blocks
  BY AddressParts DEF Caches, Next1, Held
<1>2. PICK x : x = Placed(s, "L2", addr, data, victim)
  OBVIOUS
<1>3. victim["L2"][BlockOf(addr)] \in Ways("L2")
  BY <1>1 DEF Evicts
<1>4. /\ Typed(x) /\ May(s, x, Losses)
      /\ x.mshr = s.mshr /\ x.store = s.store /\ x.out = s.out
      /\ \A d \in Levels \ {"Mem"} : x.queue[d] = s.queue[d]
      /\ Grown("Mem", s.queue["Mem"], x.queue["Mem"])
      /\ Holding(x, "L2", addr) # {}
  BY <1>1, <1>2, <1>3, PlacedEffect
<1>a. "L2" \in Levels \ {"Mem"} /\ {"L1I", "L1D"} \subseteq Levels \ {"Mem", "L2"}
      /\ "L2" \in Levels /\ "Mem" \in Levels \ {"L2"}
  BY DEF Levels, Caches
<1>5. PICK subs : subs = s.mshr["L2"][1].sub
  OBVIOUS
<1>6. PICK y : y = AllServedL2(x, addr, victim, subs)
  OBVIOUS
<1>7. FillL2(s, addr, data, victim) =
        IF subs = <<>> THEN Fails(x, "noentry")
        ELSE [y EXCEPT !.mshr["L2"][1].address = 0]
  BY <1>2, <1>5, <1>6, Zenon DEF FillL2, AllServedL2
<1>8. CASE subs = <<>>
  <2>1. PICK r : r = Fails(x, "noentry")
    OBVIOUS
  <2>2. "noentry" \in Aborts
    BY DEF Aborts
  <2>3. /\ Typed(r)
        /\ r.abort = x.abort \/ (x.abort = "none" /\ r.abort = "noentry")
        /\ r.queue = x.queue /\ r.store = x.store
        /\ r.mshr = x.mshr /\ r.out = x.out
    BY <1>4, <2>1, <2>2, FailsEffect
  <2>a. Settles(s, r)
    BY <1>4, <2>3, SettlesSame
  <2>4. May(s, r, Failures)
    BY <1>4, <2>3 DEF May, Failures
  <2>5. Grown("L2", s.queue["L2"], s.queue["L2"])
    BY <1>a, NothingGrown
  <2>6. QED
    BY <1>4, <1>5, <1>a, <1>7, <1>8, <2>1, <2>3, <2>a, <2>4, <2>5 DEF L2Filled
<1>9. CASE subs # <<>>
  <2>1. ServingL2([addr |-> addr, from |-> x], Len(subs), y)
    <3>1. subs = x.mshr["L2"][1].sub /\ Typed(x) /\ Holding(x, "L2", addr) # {}
      BY <1>4, <1>5
    <3>2. QED
      BY <1>6, <3>1, ServedL2Effect
  <2>2. /\ Typed(y) /\ y.store = x.store /\ May(x, y, Failures)
        /\ \A d \in Levels \ {"L2"} : y.queue[d] = x.queue[d]
        /\ Grown("L2", x.queue["L2"], y.queue["L2"])
        /\ \A i \in 2 .. MshrEntries["L2"] : y.mshr["L2"][i] = x.mshr["L2"][i]
        /\ Settles(x, y)
    BY <2>1 DEF ServingL2
  <2>a. y.mshr["L2"][1].sub = <<>>
    <3>1. y.mshr["L2"][1].sub = SubSeq(subs, Len(subs) + 1, Len(subs))
      BY <1>4, <1>5, <2>1 DEF ServingL2
    <3>a. 1 \in 1 .. MshrEntries["L2"]
      BY <1>1, Geometry
    <3>2. subs \in Seq(PacketSet("L2"))
      BY <1>1, <1>5, <3>a, SubTyped
    <3>3. SubSeq(subs, Len(subs) + 1, Len(subs)) = <<>>
      BY <3>2
    <3>4. QED
      BY <3>1, <3>3
  <2>3. 1 \in 1 .. MshrEntries["L2"]
    BY <1>1, Geometry
  <2>4. y.mshr["L2"][1] \in EntrySet("L2")
    BY <1>1, <2>2, <2>3 DEF Typed, MshrTyped
  <2>5. PICK e : e = [y.mshr["L2"][1] EXCEPT !.address = 0]
    OBVIOUS
  <2>6. e \in EntrySet("L2") /\ e.sub = <<>>
    BY <2>4, <2>5, <2>a DEF EntrySet
  <2>7. PICK r : r = [y EXCEPT !.mshr["L2"][1].address = 0]
    OBVIOUS
  <2>8. r = WithEntry(y, "L2", 1, e)
    BY <2>5, <2>7 DEF WithEntry
  <2>9. /\ Typed(r)
        /\ r.queue = y.queue /\ r.store = y.store /\ r.abort = y.abort
        /\ r.out = y.out
        /\ \A d \in Caches \ {"L2"} : r.mshr[d] = y.mshr[d]
        /\ \A k \in (1 .. MshrEntries["L2"]) \ {1} : r.mshr["L2"][k] = y.mshr["L2"][k]
        /\ r.mshr["L2"][1] = e
    BY <1>1, <2>2, <2>3, <2>6, <2>8, EntryChange
  <2>b. \A i \in 2 .. MshrEntries["L2"] : r.mshr["L2"][i] = s.mshr["L2"][i]
    <3>1. \A i \in 2 .. MshrEntries["L2"] : i \in (1 .. MshrEntries["L2"]) \ {1}
      OBVIOUS
    <3>2. QED
      BY <1>4, <2>2, <2>9, <3>1
  <2>c. Settles(s, r)
    <3>1. Settles(s, x)
      BY <1>4, SettlesSame
    <3>2. \A d \in Caches : \A i \in 1 .. MshrEntries[d] :
            r.mshr[d][i].sub # <<>> => r.mshr[d][i] = y.mshr[d][i]
      BY <2>6, <2>9
    <3>3. Shrunk(y, r)
      BY <3>2 DEF Shrunk
    <3>4. \A d \in {"L1I", "L1D"} : SameWaiting(y, r, d)
      BY <2>9 DEF SameWaiting, Caches
    <3>a. OthersKept(y, r)
      BY <2>9 DEF OthersKept
    <3>5. Settles(y, r)
      BY <2>9, <3>3, <3>4, <3>a, SettlesIf
    <3>6. QED
      BY <2>2, <3>1, <3>5, SettlesTwice
  <2>10. May(s, r, Failures)
    BY <1>4, <2>2, <2>9 DEF May, Failures
  <2>11. L2Filled(s, r)
    <3>1. Grown("L2", s.queue["L2"], r.queue["L2"])
      BY <1>4, <1>a, <2>2, <2>9
    <3>2. Grown("Mem", s.queue["Mem"], r.queue["Mem"])
      BY <1>4, <1>a, <2>2, <2>9
    <3>3. \A d \in {"L1I", "L1D"} : r.queue[d] = s.queue[d]
      BY <1>4, <1>a, <2>2, <2>9
    <3>4. Typed(r) /\ r.store = s.store /\ r.mshr["L2"][1].sub = <<>>
      BY <1>4, <2>2, <2>6, <2>9
    <3>5. QED
      BY <2>b, <2>c, <2>10, <3>1, <3>2, <3>3, <3>4 DEF L2Filled
  <2>12. QED
    BY <1>7, <1>9, <2>7, <2>11
<1>10. QED
  BY <1>8, <1>9

-------------------------------------------------------------------------------
(* One packet of a cache's Tick.                                             *)

\* The request for a block that a miss sends on.
LEMMA OnwardTyped ==
  ASSUME NEW c \in Caches, NEW p \in PacketSet(c), NEW q,
         q = [type |-> IF IsWrite(p) THEN "load" ELSE p.type,
              addr |-> BlockAddress(p.addr), data |-> <<>>, ready |-> Delay[Next1(c)]]
  PROVE  q \in PacketSet(Next1(c)) /\ ~IsWrite(q) /\ (c # "L2" => PrevOf(q) = c)
<1>1. /\ BlockOf(p.addr) \in Held(c) /\ BlockOf(p.addr) \in Blocks
      /\ BlockAddress(p.addr) = BlockOf(p.addr) * BlkSize
  BY PacketFacts DEF Levels, BlockAddress
<1>2. Delay[Next1(c)] \in 0 .. Delay[Next1(c)]
  BY LevelBelow, Geometry
<1>3. CASE c = "L1I"
  <2>1. p.type = "fetch" /\ ~IsWrite(p)
    BY <1>3 DEF PacketSet, Reads, IsWrite
  <2>2. Next1(c) = "L2" /\ BlockAddress(p.addr) \in Starts(TextBlocks)
    BY <1>1, <1>3 DEF Next1, Held, Starts
  <2>3. q \in Reads("fetch", Starts(TextBlocks), "L2")
    BY <1>2, <2>1, <2>2 DEF Reads
  <2>4. QED
    BY <1>3, <2>1, <2>2, <2>3 DEF PacketSet, IsWrite, PrevOf
<1>4. CASE c = "L1D"
  <2>1. p.type \in {"load", "store"}
    BY <1>4 DEF PacketSet, Reads, Stores
  <2>2. q.type = "load"
    BY <2>1 DEF IsWrite
  <2>3. Next1(c) = "L2" /\ BlockAddress(p.addr) \in Starts(DataBlocks)
    BY <1>1, <1>4 DEF Next1, Held, Starts
  <2>4. q \in Reads("load", Starts(DataBlocks), "L2")
    BY <1>2, <2>2, <2>3 DEF Reads
  <2>5. QED
    BY <1>4, <2>2, <2>3, <2>4 DEF PacketSet, IsWrite, PrevOf
<1>5. CASE c = "L2"
  <2>1. \/ p.type = "fetch" /\ p.addr \in Starts(TextBlocks)
        \/ p.type \in {"load", "writeback"} /\ p.addr \in Starts(DataBlocks)
    BY <1>5 DEF PacketSet, Reads, WriteBacksOf
  <2>2. Next1(c) = "Mem" /\ BlockAddress(p.addr) = p.addr
    BY <1>5, PacketFacts DEF Next1, Levels
  <2>3. \/ q \in Reads("fetch", Starts(TextBlocks), "Mem")
        \/ q \in Reads("load", Starts(DataBlocks), "Mem")
    BY <1>2, <2>1, <2>2 DEF Reads, IsWrite
  <2>4. q.type \in {"fetch", "load"}
    BY <2>1 DEF IsWrite
  <2>5. QED
    BY <1>5, <2>2, <2>3, <2>4 DEF PacketSet, IsWrite
<1>6. QED
  BY <1>3, <1>4, <1>5 DEF Caches

\* What is put off, joins an MSHR entry, or takes one and asks the level below.
PutOff(s, c, i, r) ==
  /\ r.mshr = s.mshr /\ r.abort = s.abort
  /\ \A d \in Levels \ {c} : r.queue[d] = s.queue[d]
  /\ Len(r.queue[c]) = Len(s.queue[c])
  /\ \A k \in (1 .. Len(s.queue[c])) \ {i} : r.queue[c][k] = s.queue[c][k]
  /\ r.queue[c][i] = [s.queue[c][i] EXCEPT !.ready = 1]

\* An MSHR entry takes a packet.
EntryTaken(s, c, j, p, r) ==
  /\ j \in 1 .. MshrEntries[c]
  /\ \A d \in Caches \ {c} : r.mshr[d] = s.mshr[d]
  /\ \A k \in (1 .. MshrEntries[c]) \ {j} : r.mshr[c][k] = s.mshr[c][k]
  /\ r.mshr[c][j].sub = Append(s.mshr[c][j].sub, p)
  /\ r.mshr[c][j].address = BlockAddress(p.addr)

\* The packet waits with others for its block.
Joined(s, c, p, r) ==
  /\ r.queue = s.queue /\ r.abort = s.abort
  /\ \E j \in 1 .. MshrEntries[c] :
       /\ EntryTaken(s, c, j, p, r)
       /\ s.mshr[c][j].sub # <<>> /\ s.mshr[c][j].address = BlockAddress(p.addr)

\* The packet takes an entry that was free, and the level below is asked; or the
\* request leaves the regions of memory.
Issued(s, c, p, r) ==
  /\ \E j \in 1 .. MshrEntries[c] : EntryTaken(s, c, j, p, r) /\ s.mshr[c][j].sub = <<>>
  /\ \A j \in 1 .. MshrEntries[c] :
       s.mshr[c][j].sub # <<>> => s.mshr[c][j].address # BlockAddress(p.addr)
  /\ \A d \in Levels \ {Next1(c)} : r.queue[d] = s.queue[d]
  /\ \/ /\ r.queue[Next1(c)] = s.queue[Next1(c)]
        /\ r.abort # "none" /\ May(s, r, Losses)
     \/ \E q \in PacketSet(Next1(c)) :
          /\ ~IsWrite(q) /\ (c # "L2" => PrevOf(q) = c)
          /\ q.addr = BlockAddress(p.addr) /\ q.ready = Delay[Next1(c)]
          /\ r.queue[Next1(c)] = Append(s.queue[Next1(c)], q)
          /\ r.abort = s.abort

\* processCacheMiss, when an entry takes the packet.
LEMMA MissTaken ==
  ASSUME NEW s, Typed(s), NEW c \in Caches, NEW p \in PacketSet(c),
         Takes(s, c, p.addr), NEW r, r = processCacheMiss(s, c, p)
  PROVE  /\ Typed(r) /\ r.store = s.store /\ r.blocks = s.blocks /\ r.out = s.out
         /\ Joined(s, c, p, r) \/ Issued(s, c, p, r)
<1>1. PICK block : block = BlockAddress(p.addr)
  OBVIOUS
<1>2. PICK matching : matching = {i \in DOMAIN s.mshr[c] : s.mshr[c][i].sub # <<>>
                                                         /\ s.mshr[c][i].address = block}
  OBVIOUS
<1>3. PICK free : free = {i \in DOMAIN s.mshr[c] : s.mshr[c][i].sub = <<>>}
  OBVIOUS
<1>c. FreeEntries(s, c) = free
  BY <1>3 DEF FreeEntries
<1>4. PICK j : j = Lowest(IF matching # {} THEN matching ELSE free)
  OBVIOUS
<1>5. PICK onward : onward = Packet(IF IsWrite(p) THEN "load" ELSE p.type, block, <<>>)
  OBVIOUS
<1>6. PICK e : e = [address |-> block, sub |-> Append(s.mshr[c][j].sub, p)]
  BY Zenon
<1>7. PICK added : added = WithEntry(s, c, j, e)
  OBVIOUS
<1>8. [s EXCEPT !.mshr[c][j] = [address |-> block, sub |-> Append(@.sub, p)]] = added
  BY <1>6, <1>7 DEF WithEntry
<1>b. Matching(s, c, p.addr) = matching
  BY <1>1, <1>2 DEF Matching, Entries
<1>9. r = IF matching # {} THEN added ELSE recvReq(added, Next1(c), onward)
  BY <1>1, <1>b, <1>c, <1>4, <1>5, <1>8 DEF processCacheMiss
<1>d. IF matching # {} THEN ~SubentriesFull(s, c, j) ELSE free # {}
  BY <1>4, <1>b, <1>c DEF Takes
<1>10. /\ DOMAIN s.mshr[c] = 1 .. MshrEntries[c]
       /\ \A i \in 1 .. MshrEntries[c] : s.mshr[c][i] \in EntrySet(c)
  BY DEF Typed, MshrTyped
<1>a. /\ MshrEntries[c] \in Nat
      /\ matching \in SUBSET (1 .. MshrEntries[c])
      /\ free \in SUBSET (1 .. MshrEntries[c])
  BY <1>2, <1>3, <1>10, Geometry
<1>11. matching # {} => j \in matching
  BY <1>4, <1>a, LowestEntry
<1>12. matching = {} /\ free # {} => j \in free
  BY <1>4, <1>a, LowestEntry
<1>13. block \in Starts(Blocks)
  BY <1>1, PacketFacts DEF Starts, BlockAddress, Levels
<1>14. ASSUME j \in 1 .. MshrEntries[c], Len(s.mshr[c][j].sub) < MshrSubentries[c]
       PROVE  /\ Typed(added)
              /\ added.queue = s.queue /\ added.blocks = s.blocks
              /\ added.store = s.store /\ added.abort = s.abort /\ added.out = s.out
              /\ EntryTaken(s, c, j, p, added)
  <2>1. s.mshr[c][j].sub \in Seq(PacketSet(c)) /\ MshrSubentries[c] \in Nat
    BY <1>10, <1>14, Geometry DEF EntrySet
  <2>2. PICK sub : sub = Append(s.mshr[c][j].sub, p)
    OBVIOUS
  <2>3. sub \in Seq(PacketSet(c)) /\ Len(sub) <= MshrSubentries[c]
    <3>1. sub \in Seq(PacketSet(c))
      BY <2>1, <2>2
    <3>2. Len(sub) = Len(s.mshr[c][j].sub) + 1
      BY <2>1, <2>2
    <3>3. Len(s.mshr[c][j].sub) \in Nat
      BY <2>1
    <3>4. QED
      BY <1>14, <2>1, <3>1, <3>2, <3>3
  <2>4. e \in EntrySet(c) /\ e.address = block /\ e.sub = sub
    BY <1>6, <1>13, <2>2, <2>3 DEF EntrySet
  <2>5. /\ Typed(added)
        /\ added.queue = s.queue /\ added.blocks = s.blocks
        /\ added.store = s.store /\ added.abort = s.abort /\ added.out = s.out
        /\ \A d \in Caches \ {c} : added.mshr[d] = s.mshr[d]
        /\ \A k \in (1 .. MshrEntries[c]) \ {j} : added.mshr[c][k] = s.mshr[c][k]
        /\ added.mshr[c][j] = e
    BY <1>7, <1>14, <2>4, EntryChange
  <2>6. QED
    BY <1>1, <1>14, <2>2, <2>4, <2>5 DEF EntryTaken
<1>15. CASE matching # {}
  <2>1. /\ j \in 1 .. MshrEntries[c]
        /\ s.mshr[c][j].address = block /\ s.mshr[c][j].sub # <<>>
    BY <1>2, <1>10, <1>11, <1>15
  <2>2. ~SubentriesFull(s, c, j) /\ r = added
    BY <1>9, <1>d, <1>15
  <2>3. Len(s.mshr[c][j].sub) < MshrSubentries[c]
    <3>1. /\ Len(s.mshr[c][j].sub) <= MshrSubentries[c]
          /\ Len(s.mshr[c][j].sub) \in Nat /\ MshrSubentries[c] \in Nat
      BY <1>10, <2>1, Geometry DEF EntrySet
    <3>2. QED
      BY <2>2, <3>1 DEF SubentriesFull
  <2>4. QED
    BY <1>1, <1>14, <2>1, <2>2, <2>3 DEF Joined
<1>16. CASE matching = {}
  <2>1. free # {} /\ r = recvReq(added, Next1(c), onward)
    BY <1>9, <1>d, <1>16
  <2>2. j \in 1 .. MshrEntries[c] /\ s.mshr[c][j].sub = <<>>
    BY <1>3, <1>10, <1>12, <1>16, <2>1
  <2>3. Len(s.mshr[c][j].sub) < MshrSubentries[c]
    BY <2>2, Geometry
  <2>4. /\ Typed(added)
        /\ added.queue = s.queue /\ added.blocks = s.blocks
        /\ added.store = s.store /\ added.abort = s.abort /\ added.out = s.out
        /\ EntryTaken(s, c, j, p, added)
    BY <1>14, <2>2, <2>3
  <2>5. PICK q : q = [onward EXCEPT !.ready = Delay[Next1(c)]]
    OBVIOUS
  <2>6. q = [type |-> IF IsWrite(p) THEN "load" ELSE p.type,
             addr |-> BlockAddress(p.addr), data |-> <<>>, ready |-> Delay[Next1(c)]]
    BY <1>1, <1>5, <2>5 DEF Packet
  <2>7. q \in PacketSet(Next1(c)) /\ ~IsWrite(q) /\ (c # "L2" => PrevOf(q) = c)
    BY <2>6, OnwardTyped
  <2>8. Next1(c) \in Levels
    BY LevelBelow
  <2>9. /\ Typed(r)
        /\ r.blocks = added.blocks /\ r.mshr = added.mshr /\ r.store = added.store
        /\ r.out = added.out
        /\ \/ /\ Next1(c) = "Mem" /\ getMemRegion(onward.addr) = {}
              /\ r.queue = added.queue
              /\ May(added, r, {"unallocated"}) /\ r.abort # "none"
           \/ /\ r.abort = added.abort
              /\ r.queue[Next1(c)] = Append(added.queue[Next1(c)], q)
              /\ \A d \in Levels \ {Next1(c)} : r.queue[d] = added.queue[d]
    <3>1. Received(added, Next1(c), onward, q, r)
      BY <2>1, <2>4, <2>5, <2>7, <2>8, RecvEffect
    <3>2. QED
      BY <3>1 DEF Received
  <2>10. EntryTaken(s, c, j, p, r)
    BY <2>4, <2>9 DEF EntryTaken
  <2>11. \A k \in 1 .. MshrEntries[c] :
           s.mshr[c][k].sub # <<>> => s.mshr[c][k].address # BlockAddress(p.addr)
    BY <1>1, <1>2, <1>10, <1>16
  <2>12. CASE /\ getMemRegion(onward.addr) = {}
              /\ r.queue = added.queue
              /\ May(added, r, {"unallocated"}) /\ r.abort # "none"
    <3>1. onward.addr = block
      BY <1>5 DEF Packet
    <3>2. "unallocated" \in Losses
      BY <1>13, <2>12, <3>1 DEF Starts, RegionsCover, Losses
    <3>3. May(s, r, Losses)
      BY <2>4, <2>12, <3>2 DEF May
    <3>4. QED
      BY <2>2, <2>4, <2>8, <2>9, <2>10, <2>11, <2>12, <3>3 DEF Issued
  <2>13. CASE /\ r.abort = added.abort
              /\ r.queue[Next1(c)] = Append(added.queue[Next1(c)], q)
              /\ \A d \in Levels \ {Next1(c)} : r.queue[d] = added.queue[d]
    <3>1. q.addr = BlockAddress(p.addr) /\ q.ready = Delay[Next1(c)]
      BY <2>6
    <3>2. /\ r.queue[Next1(c)] = Append(s.queue[Next1(c)], q)
          /\ r.abort = s.abort
      BY <2>4, <2>13
    <3>3. \A d \in Levels \ {Next1(c)} : r.queue[d] = s.queue[d]
      BY <2>4, <2>13
    <3>4. Issued(s, c, p, r)
      BY <2>2, <2>7, <2>10, <2>11, <3>1, <3>2, <3>3 DEF Issued
    <3>5. QED
      BY <2>4, <2>9, <3>4
  <2>14. QED
    BY <2>9, <2>12, <2>13
<1>17. QED
  BY <1>15, <1>16

\* What a miss does.
Missed(s, c, i, r) ==
  /\ Typed(r) /\ r.store = s.store /\ r.blocks = s.blocks /\ r.out = s.out
  /\ \/ PutOff(s, c, i, r) /\ ~Takes(s, c, s.queue[c][i].addr)
     \/ Joined(s, c, s.queue[c][i], r) /\ Takes(s, c, s.queue[c][i].addr)
     \/ Issued(s, c, s.queue[c][i], r) /\ Takes(s, c, s.queue[c][i].addr)

\* Level c is a cache, and p the i-th packet of its queue.
LEMMA QueuedPacket ==
  ASSUME NEW s, Typed(s), NEW c \in Caches, NEW i \in 1 .. Len(s.queue[c])
  PROVE  /\ c \in Levels /\ s.queue[c] \in Seq(PacketSet(c))
         /\ s.queue[c][i] \in PacketSet(c) /\ s.queue[c][i].addr \in Addresses
<1>1. c \in Levels /\ s.queue[c] \in Seq(PacketSet(c))
  BY DEF Levels, Typed, QueuesTyped
<1>2. s.queue[c][i] \in PacketSet(c)
  BY <1>1
<1>3. QED
  BY <1>1, <1>2, PacketFacts

\* A packet given another time.
LEMMA TimeChange ==
  ASSUME NEW c \in Levels, NEW p \in PacketSet(c), NEW n \in 0 .. Delay[c]
  PROVE  /\ [p EXCEPT !.ready = n] \in PacketSet(c)
         /\ [p EXCEPT !.ready = n].addr = p.addr /\ [p EXCEPT !.ready = n].type = p.type
         /\ [p EXCEPT !.ready = n].data = p.data /\ [p EXCEPT !.ready = n].ready = n
<1>1. PICK q : q = [p EXCEPT !.ready = n]
  OBVIOUS
<1>2. CASE c = "L1I"
  <2>1. p \in Reads("fetch", TextWords, c)
    BY <1>2 DEF PacketSet
  <2>2. q \in Reads("fetch", TextWords, c)
    BY <1>1, <2>1 DEF Reads
  <2>3. QED
    BY <1>1, <1>2, <2>1, <2>2 DEF PacketSet, Reads
<1>3. CASE c = "L1D"
  <2>1. p \in Reads("load", DataWords, c) \/ p \in Stores(c)
    BY <1>3 DEF PacketSet
  <2>2. p \in Reads("load", DataWords, c) => q \in Reads("load", DataWords, c)
    BY <1>1 DEF Reads
  <2>3. p \in Stores(c) => q \in Stores(c)
    BY <1>1 DEF Stores
  <2>4. QED
    BY <1>1, <1>3, <2>1, <2>2, <2>3 DEF PacketSet, Reads, Stores
<1>4. CASE c \notin {"L1I", "L1D"}
  <2>1. PICK bs : bs = IF c = "L2" THEN DataBlocks ELSE Blocks
    OBVIOUS
  <2>2. \/ p \in Reads("fetch", Starts(TextBlocks), c)
        \/ p \in Reads("load", Starts(DataBlocks), c)
        \/ p \in WriteBacksOf(bs, c)
    BY <1>4, <2>1 DEF PacketSet
  <2>3. \A t, a : p \in Reads(t, a, c) => q \in Reads(t, a, c)
    BY <1>1 DEF Reads
  <2>4. p \in WriteBacksOf(bs, c) => q \in WriteBacksOf(bs, c)
    BY <1>1 DEF WriteBacksOf
  <2>5. q \in PacketSet(c)
    BY <1>4, <2>1, <2>2, <2>3, <2>4 DEF PacketSet
  <2>6. QED
    BY <1>1, <2>2, <2>5 DEF Reads, WriteBacksOf
<1>5. QED
  BY <1>2, <1>3, <1>4

\* A packet that is put off is still a packet of its level.
LEMMA PutOffTyped ==
  ASSUME NEW c \in Levels, NEW p \in PacketSet(c)
  PROVE  /\ [p EXCEPT !.ready = 1] \in PacketSet(c)
         /\ [p EXCEPT !.ready = 1].addr = p.addr /\ [p EXCEPT !.ready = 1].type = p.type
         /\ [p EXCEPT !.ready = 1].data = p.data /\ [p EXCEPT !.ready = 1].ready = 1
<1>1. 1 \in 0 .. Delay[c]
  BY Geometry
<1>2. QED
  BY <1>1, TimeChange

\* A miss is put off, joins an entry or takes one.
LEMMA MissEffect ==
  ASSUME NEW s, Typed(s), NEW c \in Caches, NEW i \in 1 .. Len(s.queue[c])
  PROVE  Missed(s, c, i, Miss(s, c, i))
<1>1. PICK p \in PacketSet(c) : p = s.queue[c][i]
  BY QueuedPacket
<1>2. PICK x : x = processCacheMiss(s, c, p)
  OBVIOUS
<1>3. PICK y : y = [s EXCEPT !.queue[c][i].ready = 1]
  OBVIOUS
<1>4. Miss(s, c, i) = IF Takes(s, c, p.addr) THEN x ELSE y
  BY <1>1, <1>2, <1>3 DEF Miss
<1>5. CASE Takes(s, c, p.addr)
  <2>1. /\ Typed(x) /\ x.store = s.store /\ x.blocks = s.blocks /\ x.out = s.out
        /\ Joined(s, c, p, x) \/ Issued(s, c, p, x)
    BY <1>2, <1>5, MissTaken
  <2>2. QED
    BY <1>1, <1>4, <1>5, <2>1 DEF Missed
<1>6. CASE ~Takes(s, c, p.addr)
  <2>1. PICK q : q = [p EXCEPT !.ready = 1]
    OBVIOUS
  <2>2. q \in PacketSet(c) /\ c \in Levels
    BY <2>1, PutOffTyped, QueuedPacket
  <2>3. PICK line : line = [s.queue[c] EXCEPT ![i] = q]
    OBVIOUS
  <2>4. PICK queues : queues = [s.queue EXCEPT ![c] = line]
    OBVIOUS
  <2>5. y = [s EXCEPT !.queue = queues]
    BY <1>1, <1>3, <2>1, <2>3, <2>4
  <2>6. s.queue[c] \in Seq(PacketSet(c)) /\ DOMAIN s.queue = Levels
    BY <2>2 DEF Typed, QueuesTyped
  <2>7. /\ line \in Seq(PacketSet(c)) /\ Len(line) = Len(s.queue[c]) /\ line[i] = q
        /\ \A k \in (1 .. Len(s.queue[c])) \ {i} : line[k] = s.queue[c][k]
    BY <2>2, <2>3, <2>6
  <2>8. /\ queues[c] = line /\ \A d \in Levels \ {c} : queues[d] = s.queue[d]
        /\ DOMAIN queues = Levels
    BY <2>2, <2>4, <2>6
  <2>9. QueuesTyped(queues)
    BY <2>7, <2>8 DEF Typed, QueuesTyped
  <2>10. /\ DOMAIN y = DOMAIN s /\ y.queue = queues
         /\ y.blocks = s.blocks /\ y.mshr = s.mshr /\ y.store = s.store
         /\ y.abort = s.abort /\ y.out = s.out
         /\ y.freed = s.freed /\ y.reused = s.reused
    BY <2>5 DEF Typed
  <2>11. Typed(y)
    BY <2>9, <2>10 DEF Typed
  <2>12. PutOff(s, c, i, y)
    BY <1>1, <2>1, <2>7, <2>8, <2>10 DEF PutOff
  <2>13. QED
    BY <1>1, <1>4, <1>6, <2>10, <2>11, <2>12 DEF Missed
<1>7. QED
  BY <1>5, <1>6

\* What a hit does.  In the L2 it may answer the level 1 cache the read is from.
HitDone(s, c, p, r) ==
  /\ Typed(r) /\ r.store = s.store
  /\ \A a \in Addresses : Holding(r, c, a) = Holding(s, c, a)
  /\ c = "L2" => Settles(s, r)
  /\ c # "L2" => Gains(s, c, p, r)
  /\ c # "L2" \/ IsWrite(p) =>
       /\ r.queue = s.queue /\ r.mshr = s.mshr /\ r.abort = s.abort
       /\ \A d \in Caches \ {c} : r.blocks[d] = s.blocks[d]
  /\ c = "L2" /\ ~IsWrite(p) =>
       /\ PrevOf(p) \in {"L1I", "L1D"}
       /\ s.mshr[PrevOf(p)][1].sub = <<>> =>
            r.abort # "none" /\ May(s, r, Losses \cup {"noentry"})
       /\ s.mshr[PrevOf(p)][1].sub # <<>> => May(s, r, Losses)
       /\ \A d \in Levels \ {"L2"} : r.queue[d] = s.queue[d]
       /\ Grown("L2", s.queue["L2"], r.queue["L2"])
       /\ \A d \in {"L1I", "L1D"} \ {PrevOf(p)} : r.blocks[d] = s.blocks[d]
       /\ \A d \in Caches \ {PrevOf(p)} : r.mshr[d] = s.mshr[d]
       /\ \A i \in 2 .. MshrEntries[PrevOf(p)] :
            r.mshr[PrevOf(p)][i] = s.mshr[PrevOf(p)][i]
       /\ r.mshr[PrevOf(p)][1].sub = <<>>

\* A hit is applied and answered to the level above.
LEMMA HitEffect ==
  ASSUME NEW s, Typed(s), NEW c \in Caches, NEW p \in PacketSet(c),
         Holding(s, c, p.addr) # {}, NEW victim, Evicts(victim)
  PROVE  HitDone(s, c, p, Hit(s, c, p, victim))
<1>1. c \in Levels /\ p.addr \in Addresses
  BY PacketFacts DEF Levels
<1>2. PICK x : x = Apply(s, c, p.addr, p)
  OBVIOUS
<1>3. IsWrite(p) => c # "L1I"
  BY <1>1, PacketFacts
<1>4. /\ Typed(x)
      /\ x.queue = s.queue /\ x.mshr = s.mshr /\ x.store = s.store
      /\ x.abort = s.abort /\ x.out = s.out
      /\ \A e \in Caches \ {c} : x.blocks[e] = s.blocks[e]
      /\ \A a \in Addresses : Holding(x, c, a) = Holding(s, c, a)
  BY <1>1, <1>2, <1>3, ApplyEffect
<1>5. PICK b : b = BlockAt(x, c, p.addr)
  OBVIOUS
<1>6. b.data \in [Offsets -> Values]
  BY <1>1, <1>4, <1>5, WayHolds
<1>7. PICK y : y = IF p.type = "writeback" THEN x
                   ELSE IF c = "L2" THEN FillL1(x, PrevOf(p), p.addr, b.data, victim)
                   ELSE ToCore(x, p, b)
  OBVIOUS
<1>8. PICK r : r = [y EXCEPT !.freed = TRUE]
  OBVIOUS
<1>9. Hit(s, c, p, victim) = r
  BY <1>2, <1>5, <1>7, <1>8 DEF Hit
<1>10. ASSUME Typed(y)
       PROVE  /\ Typed(r) /\ r.queue = y.queue /\ r.blocks = y.blocks /\ r.mshr = y.mshr
              /\ r.store = y.store /\ r.abort = y.abort /\ r.out = y.out
  BY <1>8, <1>10 DEF Typed
<1>11. ASSUME r.blocks[c] = x.blocks[c]
       PROVE  \A a \in Addresses : Holding(r, c, a) = Holding(s, c, a)
  BY <1>4, <1>11, HoldingSame
<1>12. CASE p.type = "writeback"
  <2>1. y = x /\ IsWrite(p)
    BY <1>7, <1>12 DEF IsWrite
  <2>2. c = "L2"
    BY <1>12 DEF Caches, PacketSet, Reads, Stores
  <2>3. Settles(s, r)
    BY <1>4, <1>10, <2>1, SettlesSame
  <2>4. HitDone(s, c, p, r)
    BY <1>4, <1>10, <1>11, <2>1, <2>2, <2>3 DEF HitDone
  <2>5. QED
    BY <1>9, <2>4
<1>13. CASE p.type # "writeback" /\ c = "L2"
  <2>1. ~IsWrite(p) /\ "L2" \in Levels
    BY <1>1, <1>13 DEF PacketSet, Reads, WriteBacksOf, IsWrite
  <2>2. PICK d \in {"L1I", "L1D"} : d = PrevOf(p) /\ BlockOf(p.addr) \in Held(d)
    BY <1>13, <2>1, PacketFacts
  <2>3. y = FillL1(x, d, p.addr, b.data, victim)
    BY <1>7, <1>13, <2>2
  <2>4. L1Filled(x, d, y)
    BY <1>1, <1>4, <1>6, <2>2, <2>3, FillL1Effect
  <2>5. /\ Typed(y) /\ y.store = x.store
        /\ x.mshr[d][1].sub = <<>> => y.abort # "none" /\ May(x, y, Losses \cup {"noentry"})
        /\ x.mshr[d][1].sub # <<>> => May(x, y, Losses)
        /\ \A e \in Levels \ {"L2"} : y.queue[e] = x.queue[e]
        /\ Grown("L2", x.queue["L2"], y.queue["L2"])
        /\ \A e \in Caches \ {d} : y.blocks[e] = x.blocks[e] /\ y.mshr[e] = x.mshr[e]
        /\ \A i \in 2 .. MshrEntries[d] : y.mshr[d][i] = x.mshr[d][i]
        /\ y.mshr[d][1].sub = <<>> /\ Settles(x, y)
    BY <2>4 DEF L1Filled
  <2>6. /\ Typed(r) /\ r.queue = y.queue /\ r.blocks = y.blocks /\ r.mshr = y.mshr
        /\ r.store = y.store /\ r.abort = y.abort /\ r.out = y.out
    BY <1>10, <2>5
  <2>a. Settles(s, r)
    <3>1. Settles(s, x) /\ Settles(y, r)
      BY <1>4, <2>6, SettlesSame
    <3>2. Settles(s, y)
      BY <2>5, <3>1, SettlesTwice
    <3>3. QED
      BY <3>1, <3>2, SettlesTwice
  <2>7. c \in Caches \ {d}
    BY <1>13, <2>2
  <2>8. \A a \in Addresses : Holding(r, c, a) = Holding(s, c, a)
    BY <1>11, <2>5, <2>6, <2>7
  <2>9. \A e \in {"L1I", "L1D"} \ {d} : e \in Caches \ {d} /\ e \in Caches \ {c}
    BY <1>13 DEF Caches
  <2>10. \A e \in {"L1I", "L1D"} \ {d} : r.blocks[e] = s.blocks[e]
    BY <1>4, <2>5, <2>6, <2>9
  <2>11. \A e \in Caches \ {d} : r.mshr[e] = s.mshr[e]
    BY <1>4, <2>5, <2>6
  <2>12. /\ s.mshr[d][1].sub = <<>> => r.abort # "none" /\ May(s, r, Losses \cup {"noentry"})
         /\ s.mshr[d][1].sub # <<>> => May(s, r, Losses)
    BY <1>4, <2>5, <2>6 DEF May
  <2>13. HitDone(s, c, p, r)
    BY <1>4, <1>13, <2>1, <2>2, <2>5, <2>6, <2>8, <2>10, <2>11, <2>12, <2>a
       DEF HitDone
  <2>14. QED
    BY <1>9, <2>13
<1>14. CASE p.type # "writeback" /\ c # "L2"
  <2>1. c \in {"L1I", "L1D"} /\ y = ToCore(x, p, b)
    BY <1>7, <1>14 DEF Caches
  <2>2. /\ Typed(y)
        /\ y.queue = x.queue /\ y.blocks = x.blocks /\ y.mshr = x.mshr
        /\ y.store = x.store /\ y.abort = x.abort /\ AnswersFor(x, p, y)
    BY <1>4, <1>6, <2>1, ToCoreEffect
  <2>3. AnswersFor(s, p, r) /\ r.mshr = s.mshr
    BY <1>4, <1>10, <2>2 DEF AnswersFor
  <2>4. Gains(s, c, p, r)
    BY <2>1, <2>3, GainsAnswer
  <2>5. HitDone(s, c, p, r)
    BY <1>4, <1>10, <1>11, <1>14, <2>2, <2>4 DEF HitDone
  <2>6. QED
    BY <1>9, <2>5
<1>15. QED
  BY <1>12, <1>13, <1>14

\* What the i-th ready packet of a cache does.
Processed(s, c, i, r) ==
  LET p == s.queue[c][i]
  IN \/ Holding(s, c, p.addr) # {} /\ HitDone(s, c, p, r)
     \/ Holding(s, c, p.addr) = {} /\ Missed(s, c, i, r)

\* The body of the loop of a cache's Tick.
LEMMA ProcessEffect ==
  ASSUME NEW s, Typed(s), NEW c \in Caches, NEW i \in 1 .. Len(s.queue[c]), NEW n,
         NEW victim, Evicts(victim)
  PROVE  Processed(s, c, i, Process(s, c, n, victim, i))
<1>1. PICK p \in PacketSet(c) : p = s.queue[c][i]
  BY QueuedPacket
<1>2. PICK done : done = IF Holding(s, c, p.addr) # {} THEN Hit(s, c, p, victim)
                         ELSE Miss(s, c, i)
  OBVIOUS
<1>3. PICK moved \in BOOLEAN : moved = (i < n /\ Len(s.queue[c]) < Len(done.queue[c]))
  OBVIOUS
<1>4. PICK r : r = [done EXCEPT !.reused = @ \/ moved]
  OBVIOUS
<1>5. Process(s, c, n, victim, i) = r
  BY <1>1, <1>2, <1>3, <1>4 DEF Process
<1>6. ASSUME Typed(done)
      PROVE  /\ Typed(r) /\ r.queue = done.queue /\ r.blocks = done.blocks
             /\ r.mshr = done.mshr /\ r.store = done.store /\ r.abort = done.abort
             /\ r.out = done.out
  BY <1>4, <1>6 DEF Typed
<1>7. CASE Holding(s, c, p.addr) # {}
  <2>1. HitDone(s, c, p, done)
    BY <1>2, <1>7, HitEffect
  <2>2. /\ Typed(r) /\ r.queue = done.queue /\ r.blocks = done.blocks
        /\ r.mshr = done.mshr /\ r.store = done.store /\ r.abort = done.abort
        /\ r.out = done.out
    BY <1>6, <2>1 DEF HitDone
  <2>3. \A a \in Addresses : Holding(r, c, a) = Holding(done, c, a)
    BY <2>2 DEF Holding
  <2>a. /\ Settles(s, done) => Settles(s, r)
        /\ Gains(s, c, p, done) => Gains(s, c, p, r)
    BY <2>2, RequestsSame
  <2>4. HitDone(s, c, p, r)
    BY <2>1, <2>2, <2>3, <2>a DEF HitDone, May
  <2>5. QED
    BY <1>1, <1>5, <1>7, <2>4 DEF Processed
<1>8. CASE Holding(s, c, p.addr) = {}
  <2>1. Missed(s, c, i, done)
    BY <1>2, <1>8, MissEffect
  <2>2. /\ Typed(r) /\ r.queue = done.queue /\ r.blocks = done.blocks
        /\ r.mshr = done.mshr /\ r.store = done.store /\ r.abort = done.abort
        /\ r.out = done.out
    BY <1>6, <2>1 DEF Missed
  <2>3. PutOff(s, c, i, done) => PutOff(s, c, i, r)
    BY <2>2 DEF PutOff
  <2>4. \A j : EntryTaken(s, c, j, p, done) => EntryTaken(s, c, j, p, r)
    BY <2>2 DEF EntryTaken
  <2>5. Joined(s, c, p, done) => Joined(s, c, p, r)
    BY <2>2, <2>4 DEF Joined
  <2>6. Issued(s, c, p, done) => Issued(s, c, p, r)
    BY <2>2, <2>4 DEF Issued, May
  <2>7. Missed(s, c, i, r)
    BY <1>1, <2>1, <2>2, <2>3, <2>5, <2>6 DEF Missed
  <2>8. QED
    BY <1>1, <1>5, <1>8, <2>7 DEF Processed
<1>9. QED
  BY <1>7, <1>8

\* A queue that has only taken packets.
Extended(c, q, r) ==
  /\ Len(q) <= Len(r)
  /\ \A i \in 1 .. Len(q) : r[i] = q[i]
  /\ \A i \in (Len(q) + 1) .. Len(r) : r[i].ready = Delay[c]

\* A queue that has taken packets twice.
LEMMA ExtendedTwice ==
  ASSUME NEW c \in Levels, NEW S, NEW q \in Seq(S), NEW r \in Seq(S), NEW t \in Seq(S),
         Extended(c, q, r), Extended(c, r, t)
  PROVE  Extended(c, q, t)
<1>1. Len(q) \in Nat /\ Len(r) \in Nat /\ Len(t) \in Nat
  OBVIOUS
<1>2. Len(q) <= Len(r) /\ Len(r) <= Len(t)
  BY DEF Extended
<1>3. \A i \in 1 .. Len(q) : t[i] = q[i]
  BY <1>1, <1>2 DEF Extended
<1>4. ASSUME NEW i \in (Len(q) + 1) .. Len(t)
      PROVE  t[i].ready = Delay[c]
  <2>1. CASE i <= Len(r)
    BY <1>1, <1>2, <2>1 DEF Extended
  <2>2. CASE ~(i <= Len(r))
    BY <1>1, <1>2, <2>2 DEF Extended
  <2>3. QED
    BY <2>1, <2>2
<1>5. QED
  BY <1>1, <1>2, <1>3, <1>4 DEF Extended

\* What it does to the queues: its own packet may be put off, the rest stay.
QueuesProcessed(s, c, i, r) ==
  /\ \A d \in Levels \ {c} : Extended(d, s.queue[d], r.queue[d])
  /\ Len(s.queue[c]) <= Len(r.queue[c])
  /\ \A k \in (1 .. Len(s.queue[c])) \ {i} : r.queue[c][k] = s.queue[c][k]
  /\ r.queue[c][i] = s.queue[c][i] \/ r.queue[c][i].ready = 1
  /\ \A k \in (Len(s.queue[c]) + 1) .. Len(r.queue[c]) : r.queue[c][k].ready = Delay[c]

\* What that body does to the queues.
LEMMA ProcessedQueues ==
  ASSUME NEW s, Typed(s), NEW c \in Caches, NEW i \in 1 .. Len(s.queue[c]),
         NEW r, Processed(s, c, i, r)
  PROVE  /\ Typed(r) /\ r.store = s.store /\ May(s, r, Failures)
         /\ QueuesProcessed(s, c, i, r)
<1>1. PICK p \in PacketSet(c) : p = s.queue[c][i]
  BY QueuedPacket
<1>2. \A d \in Levels : s.queue[d] \in Seq(PacketSet(d)) /\ Len(s.queue[d]) \in Nat
  BY DEF Typed, QueuesTyped
<1>3. c \in Levels
  BY DEF Levels
<1>4. \A d \in Levels : Extended(d, s.queue[d], s.queue[d])
  BY <1>2 DEF Extended
<1>5. ASSUME r.queue = s.queue
      PROVE  QueuesProcessed(s, c, i, r)
  BY <1>2, <1>3, <1>4, <1>5 DEF QueuesProcessed
<1>6. CASE HitDone(s, c, p, r) /\ (c # "L2" \/ IsWrite(p))
  BY <1>5, <1>6 DEF HitDone, May
<1>7. CASE HitDone(s, c, p, r) /\ ~(c # "L2" \/ IsWrite(p))
  <2>1. /\ Typed(r) /\ r.store = s.store
        /\ \A d \in Levels \ {c} : r.queue[d] = s.queue[d]
        /\ Grown(c, s.queue[c], r.queue[c])
    BY <1>7 DEF HitDone
  <2>2. May(s, r, Failures)
    BY <1>7 DEF HitDone, May, Failures
  <2>3. QueuesProcessed(s, c, i, r)
    BY <1>3, <1>4, <2>1 DEF QueuesProcessed, Grown
  <2>4. QED
    BY <2>1, <2>2, <2>3
<1>8. CASE Missed(s, c, i, r)
  <2>1. Typed(r) /\ r.store = s.store
    BY <1>8 DEF Missed
  <2>2. CASE PutOff(s, c, i, r)
    <3>1. [p EXCEPT !.ready = 1].ready = 1
      BY <1>3, PutOffTyped
    <3>2. r.queue[c][i].ready = 1
      BY <1>1, <2>2, <3>1 DEF PutOff
    <3>3. QueuesProcessed(s, c, i, r)
      BY <1>2, <1>3, <1>4, <2>2, <3>2 DEF PutOff, QueuesProcessed
    <3>4. QED
      BY <2>1, <2>2, <3>3 DEF PutOff, May
  <2>3. CASE Joined(s, c, p, r)
    BY <1>5, <2>1, <2>3 DEF Joined, May
  <2>4. CASE Issued(s, c, p, r)
    <3>1. PICK d \in Levels : d = Next1(c) /\ d # c
      BY LevelBelow DEF Next1, Caches
    <3>2. Extended(d, s.queue[d], r.queue[d])
      <4>1. CASE r.queue[d] = s.queue[d]
        BY <1>4, <4>1
      <4>2. CASE r.queue[d] # s.queue[d]
        <5>1. PICK q \in PacketSet(d) : /\ q.ready = Delay[d]
                                        /\ r.queue[d] = Append(s.queue[d], q)
          BY <2>4, <3>1, <4>2 DEF Issued
        <5>2. QED
          BY <1>2, <5>1 DEF Extended
      <4>3. QED
        BY <4>1, <4>2
    <3>3. \A e \in Levels \ {d} : r.queue[e] = s.queue[e]
      BY <2>4, <3>1 DEF Issued
    <3>4. QueuesProcessed(s, c, i, r)
      BY <1>2, <1>3, <1>4, <3>1, <3>2, <3>3 DEF QueuesProcessed
    <3>5. May(s, r, Failures)
      BY <2>4 DEF Issued, May, Failures
    <3>6. QED
      BY <2>1, <3>4, <3>5
  <2>5. QED
    BY <1>1, <1>8, <2>2, <2>3, <2>4 DEF Missed
<1>9. QED
  BY <1>1, <1>6, <1>7, <1>8 DEF Processed

\* The busy entries of a cache have different addresses.
Distinct(s) ==
  \A c \in Caches : \A i, j \in 1 .. MshrEntries[c] :
    /\ s.mshr[c][i].sub # <<>> /\ s.mshr[c][j].sub # <<>>
    /\ s.mshr[c][i].address = s.mshr[c][j].address
    => i = j

\* What it does to the core's requests.
RequestsProcessed(s, c, i, r) ==
  /\ Distinct(s) => Distinct(r)
  /\ Alone(r) => Alone(s)
  /\ \A d \in {"L1I", "L1D"} \ {c} : r.queue[d] = s.queue[d]
  /\ c = "L2" => Balanced(s, r)
  /\ c # "L2" => \/ Gains(s, c, s.queue[c][i], r) /\ r.queue[c] = s.queue[c]
                 \/ Balanced(s, r) /\ PutOff(s, c, i, r)

\* A packet waits in an entry.
LEMMA GainsEntry ==
  ASSUME NEW s, Typed(s), NEW r, Typed(r), NEW c \in Caches, NEW p \in PacketSet(c),
         NEW j \in 1 .. MshrEntries[c], EntryTaken(s, c, j, p, r), r.out = s.out
  PROVE  /\ c = "L2" => Balanced(s, r)
         /\ c # "L2" => Gains(s, c, p, r)
<1>1. /\ \A d \in Caches \ {c} : r.mshr[d] = s.mshr[d]
      /\ \A i \in (1 .. MshrEntries[c]) \ {j} : r.mshr[c][i] = s.mshr[c][i]
      /\ r.mshr[c][j].sub = Append(s.mshr[c][j].sub, p)
  BY DEF EntryTaken
<1>2. ASSUME NEW kind \in Kinds, NEW addr \in Addresses, CacheOf(kind) # c
      PROVE  Total(r, kind, addr) = Total(s, kind, addr)
  <2>1. PICK d \in Caches : d = CacheOf(kind) /\ d # c
    BY <1>2, TotalType
  <2>2. SameWaiting(s, r, d)
    BY <1>1, <2>1 DEF SameWaiting
  <2>3. WaitNum(r, d, kind, addr) = WaitNum(s, d, kind, addr)
    BY <2>2, WaitSame
  <2>4. QED
    BY <2>1, <2>3 DEF Total
<1>3. ASSUME NEW kind \in Kinds, NEW addr \in Addresses, CacheOf(kind) = c
      PROVE  Total(r, kind, addr) = Total(s, kind, addr) + OneIf(Is(p, kind, addr))
  <2>1. WaitNum(r, c, kind, addr) = WaitNum(s, c, kind, addr) + OneIf(Is(p, kind, addr))
    <3>1. Joins(s, c, j, p, r)
      BY <1>1 DEF Joins
    <3>2. QED
      BY <3>1, WaitMore
  <2>2. /\ WaitNum(s, c, kind, addr) \in Nat /\ Num(s.out, kind, addr) \in Nat
        /\ OneIf(Is(p, kind, addr)) \in {0, 1}
    BY <1>3, TotalType, OneIfType
  <2>3. QED
    BY <1>3, <2>1, <2>2 DEF Total
<1>4. ASSUME c = "L2"
      PROVE  Balanced(s, r)
  <2>1. \A kind : CacheOf(kind) # c
    BY <1>4 DEF CacheOf
  <2>2. QED
    BY <1>2, <2>1 DEF Balanced
<1>5. ASSUME c # "L2"
      PROVE  Gains(s, c, p, r)
  <2>1. ASSUME NEW kind \in Kinds, NEW addr \in Addresses
        PROVE  Total(r, kind, addr) =
                 Total(s, kind, addr) + OneIf(CacheOf(kind) = c /\ Is(p, kind, addr))
    <3>1. CASE CacheOf(kind) = c
      <4>1. Total(r, kind, addr) = Total(s, kind, addr) + OneIf(Is(p, kind, addr))
        BY <1>3, <3>1
      <4>2. OneIf(CacheOf(kind) = c /\ Is(p, kind, addr)) = OneIf(Is(p, kind, addr))
        BY <3>1 DEF OneIf
      <4>3. QED
        BY <4>1, <4>2
    <3>2. CASE CacheOf(kind) # c
      <4>1. Total(s, kind, addr) \in Nat /\ Total(r, kind, addr) = Total(s, kind, addr)
        BY <1>2, <3>2, TotalType
      <4>2. OneIf(CacheOf(kind) = c /\ Is(p, kind, addr)) = 0
        BY <3>2 DEF OneIf
      <4>3. QED
        BY <4>1, <4>2
    <3>3. QED
      BY <3>1, <3>2
  <2>2. QED
    BY <2>1 DEF Gains
<1>6. QED
  BY <1>4, <1>5

\* Entries stay distinct: a miss takes one only if none has its block.
LEMMA DistinctKept ==
  ASSUME NEW s, NEW r, Distinct(s), NEW c \in Caches, NEW p,
         \/ Shrunk(s, r) \/ Joined(s, c, p, r) \/ Issued(s, c, p, r)
  PROVE  Distinct(r)
<1>1. CASE Shrunk(s, r)
  BY <1>1 DEF Shrunk, Distinct
<1>2. CASE Joined(s, c, p, r)
  <2>1. PICK j \in 1 .. MshrEntries[c] :
          EntryTaken(s, c, j, p, r) /\ s.mshr[c][j].sub # <<>>
          /\ s.mshr[c][j].address = BlockAddress(p.addr)
    BY <1>2 DEF Joined
  <2>2. Shrunk(s, r)
    BY <2>1 DEF EntryTaken, Shrunk
  <2>3. QED
    BY <2>2 DEF Shrunk, Distinct
<1>3. CASE Issued(s, c, p, r)
  <2>1. PICK j \in 1 .. MshrEntries[c] : EntryTaken(s, c, j, p, r)
    BY <1>3 DEF Issued
  <2>2. \A i \in 1 .. MshrEntries[c] :
          s.mshr[c][i].sub # <<>> => s.mshr[c][i].address # BlockAddress(p.addr)
    BY <1>3 DEF Issued
  <2>3. /\ \A d \in Caches \ {c} : r.mshr[d] = s.mshr[d]
        /\ \A k \in (1 .. MshrEntries[c]) \ {j} : r.mshr[c][k] = s.mshr[c][k]
        /\ r.mshr[c][j].address = BlockAddress(p.addr)
    BY <2>1 DEF EntryTaken
  <2>4. ASSUME NEW d \in Caches, NEW i \in 1 .. MshrEntries[d], NEW k \in 1 .. MshrEntries[d],
               r.mshr[d][i].sub # <<>>, r.mshr[d][k].sub # <<>>,
               r.mshr[d][i].address = r.mshr[d][k].address
        PROVE  i = k
    <3>1. CASE d # c
      BY <2>3, <2>4, <3>1 DEF Distinct
    <3>2. CASE d = c /\ i # j /\ k # j
      <4>1. r.mshr[c][i] = s.mshr[c][i] /\ r.mshr[c][k] = s.mshr[c][k]
        BY <2>3, <2>4, <3>2
      <4>2. QED
        BY <2>4, <3>2, <4>1 DEF Distinct
    <3>3. CASE d = c /\ i # j /\ k = j
      BY <2>2, <2>3, <2>4, <3>3
    <3>4. CASE d = c /\ i = j
      BY <2>2, <2>3, <2>4, <3>4
    <3>5. QED
      BY <3>1, <3>2, <3>3, <3>4
  <2>5. QED
    BY <2>4 DEF Distinct
<1>4. QED
  BY <1>1, <1>2, <1>3

\* A packet that is put last is in the sequence.
LEMMA AppendFills ==
  ASSUME NEW S, NEW q \in Seq(S), NEW p \in S
  PROVE  Append(q, p) # <<>>
<1>1. PICK r : r = Append(q, p)
  OBVIOUS
<1>2. Len(r) = Len(q) + 1 /\ Len(q) \in Nat
  BY <1>1
<1>3. Len(<<>>) = 0
  OBVIOUS
<1>4. QED
  BY <1>1, <1>2, <1>3

\* A cache that is alone with a miss after it takes a packet was so before, and
\* its first entry took it.
LEMMA TakesFirst ==
  ASSUME NEW s, Typed(s), NEW c \in Caches, NEW p \in PacketSet(c), NEW j,
         NEW r, EntryTaken(s, c, j, p, r), Alone(r)
  PROVE  j = 1 /\ Alone(s)
<1>1. /\ j \in 1 .. MshrEntries[c] /\ \A d \in Caches \ {c} : r.mshr[d] = s.mshr[d]
      /\ \A k \in (1 .. MshrEntries[c]) \ {j} : r.mshr[c][k] = s.mshr[c][k]
      /\ r.mshr[c][j].sub = Append(s.mshr[c][j].sub, p)
  BY DEF EntryTaken
<1>2. MshrEntries[c] \in Nat
  BY Geometry
<1>3. r.mshr[c][j].sub # <<>>
  <2>1. s.mshr[c][j].sub \in Seq(PacketSet(c))
    BY <1>1, SubTyped
  <2>2. QED
    BY <1>1, <2>1, AppendFills
<1>4. j = 1
  <2>1. j \notin 2 .. MshrEntries[c]
    BY <1>3 DEF Alone
  <2>2. QED
    BY <1>1, <1>2, <2>1
<1>5. ASSUME NEW d \in Caches, NEW i \in 2 .. MshrEntries[d]
      PROVE  s.mshr[d][i].sub = <<>>
  <2>1. r.mshr[d][i].sub = <<>>
    BY DEF Alone
  <2>2. CASE d # c
    BY <1>1, <2>1, <2>2
  <2>3. CASE d = c
    <3>1. i \in (1 .. MshrEntries[c]) \ {j}
      BY <1>2, <1>4, <2>3
    <3>2. QED
      BY <1>1, <2>1, <2>3, <3>1
  <2>4. QED
    BY <2>2, <2>3
<1>6. QED
  BY <1>4, <1>5 DEF Alone

\* No step of a Tick releases an entry other than the first.
LEMMA ProcessedAlone ==
  ASSUME NEW s, Typed(s), NEW c \in Caches, NEW i \in 1 .. Len(s.queue[c]),
         NEW r, Processed(s, c, i, r), Alone(r)
  PROVE  Alone(s)
<1>1. PICK p \in PacketSet(c) : p = s.queue[c][i]
  BY QueuedPacket
<1>2. CASE HitDone(s, c, p, r)
  <2>1. CASE c = "L2"
    <3>1. Settles(s, r)
      BY <1>2, <2>1 DEF HitDone
    <3>2. QED
      BY <3>1, AloneSettled
  <2>2. CASE c # "L2"
    <3>1. r.mshr = s.mshr
      BY <1>2, <2>2 DEF HitDone
    <3>2. QED
      BY <3>1 DEF Alone
  <2>3. QED
    BY <2>1, <2>2
<1>3. CASE PutOff(s, c, i, r)
  <2>1. r.mshr = s.mshr
    BY <1>3 DEF PutOff
  <2>2. QED
    BY <2>1 DEF Alone
<1>4. CASE Joined(s, c, p, r) \/ Issued(s, c, p, r)
  <2>1. PICK j \in 1 .. MshrEntries[c] : EntryTaken(s, c, j, p, r)
    BY <1>4 DEF Joined, Issued
  <2>2. QED
    BY <2>1, TakesFirst
<1>5. QED
  BY <1>1, <1>2, <1>3, <1>4 DEF Processed, Missed

\* What that body does to the core's requests.
LEMMA ProcessedRequests ==
  ASSUME NEW s, Typed(s), NEW c \in Caches, NEW i \in 1 .. Len(s.queue[c]),
         NEW r, Processed(s, c, i, r)
  PROVE  RequestsProcessed(s, c, i, r)
<1>1. PICK p \in PacketSet(c) : p = s.queue[c][i]
  BY QueuedPacket
<1>2. Next1(c) \notin {"L1I", "L1D"} /\ {"L1I", "L1D"} \subseteq Levels \ {Next1(c)}
      /\ {"L1I", "L1D"} \subseteq Levels \ {"L2"} /\ c \in Levels
  BY DEF Next1, Levels, Caches
<1>a. Alone(r) => Alone(s)
  BY ProcessedAlone
<1>3. CASE HitDone(s, c, p, r)
  <2>1. Shrunk(s, r)
    <3>1. CASE c = "L2"
      BY <1>3, <3>1 DEF HitDone, Settles
    <3>2. CASE c # "L2"
      BY <1>3, <3>2 DEF HitDone, Shrunk
    <3>3. QED
      BY <3>1, <3>2
  <2>2. Distinct(s) => Distinct(r)
    BY <2>1, DistinctKept
  <2>3. \A d \in {"L1I", "L1D"} \ {c} : r.queue[d] = s.queue[d]
    BY <1>2, <1>3 DEF HitDone
  <2>4. /\ c = "L2" => Balanced(s, r)
        /\ c # "L2" => Gains(s, c, p, r) /\ r.queue[c] = s.queue[c]
    BY <1>3 DEF HitDone, Settles
  <2>5. QED
    BY <1>1, <1>a, <2>2, <2>3, <2>4 DEF RequestsProcessed
<1>4. CASE Missed(s, c, i, r)
  <2>1. Typed(r) /\ r.out = s.out
    BY <1>4 DEF Missed
  <2>2. CASE PutOff(s, c, i, r)
    <3>1. r.mshr = s.mshr /\ \A d \in Levels \ {c} : r.queue[d] = s.queue[d]
      BY <2>2 DEF PutOff
    <3>2. Settles(s, r)
      BY <2>1, <3>1, SettlesSame
    <3>3. Distinct(s) => Distinct(r)
      BY <3>2, DistinctKept DEF Settles
    <3>4. QED
      BY <1>2, <1>a, <2>2, <3>1, <3>2, <3>3 DEF RequestsProcessed, Settles
  <2>3. CASE Joined(s, c, p, r) \/ Issued(s, c, p, r)
    <3>1. PICK j \in 1 .. MshrEntries[c] : EntryTaken(s, c, j, p, r)
      BY <2>3 DEF Joined, Issued
    <3>2. /\ c = "L2" => Balanced(s, r)
          /\ c # "L2" => Gains(s, c, p, r)
      BY <2>1, <3>1, GainsEntry
    <3>3. Distinct(s) => Distinct(r)
      BY <2>3, DistinctKept
    <3>4. /\ \A d \in {"L1I", "L1D"} \ {c} : r.queue[d] = s.queue[d]
          /\ c # "L2" => r.queue[c] = s.queue[c]
      BY <1>2, <2>3 DEF Joined, Issued, Next1, Levels, Caches
    <3>5. QED
      BY <1>1, <1>a, <3>2, <3>3, <3>4 DEF RequestsProcessed
  <2>4. QED
    BY <1>1, <1>4, <2>2, <2>3 DEF Missed
<1>5. QED
  BY <1>1, <1>3, <1>4 DEF Processed

-------------------------------------------------------------------------------
(* The packets of a queue that are ready, or not.                            *)

\* Where in a queue each packet of a selection is.
IsSelection(q, b, k, x, f) ==
  /\ f \in [1 .. Len(x) -> 1 .. k]
  /\ \A i, j \in 1 .. Len(x) : i < j => f[i] < f[j]
  /\ \A i \in 1 .. Len(x) : x[i] = q[f[i]] /\ (Ready(x[i]) <=> b)
  /\ \A i \in 1 .. k : (Ready(q[i]) <=> b) => \E j \in 1 .. Len(x) : f[j] = i

\* The fold by which Select takes the first k packets.
Selecting(ctx, k, x) ==
  /\ x \in Seq(ctx.set)
  /\ \E f : IsSelection(ctx.queue, ctx.ready, k, x, f)

\* Its step.
Take(b, x, p) == IF Ready(p) <=> b THEN Append(x, p) ELSE x

\* The loop of std::partition and std::remove_if.
SelectFold == INSTANCE FoldInduction WITH
                op <- LAMBDA b, unused1, unused2, x, p : Take(b, x, p),
                J <- Selecting

\* One packet more is looked at.
LEMMA TakeStep ==
  ASSUME NEW b \in BOOLEAN, NEW S, NEW q \in Seq(S), NEW k \in 1 .. Len(q),
         NEW x \in Seq(S), NEW f, IsSelection(q, b, k - 1, x, f)
  PROVE  /\ Take(b, x, q[k]) \in Seq(S)
         /\ \E g : IsSelection(q, b, k, Take(b, x, q[k]), g)
<1>1. k - 1 \in Nat /\ Len(x) \in Nat /\ q[k] \in S
  OBVIOUS
<1>2. CASE Ready(q[k]) <=> b
  <2>1. PICK y : y = Append(x, q[k])
    OBVIOUS
  <2>2. Take(b, x, q[k]) = y
    BY <1>2, <2>1 DEF Take
  <2>3. /\ y \in Seq(S) /\ Len(y) = Len(x) + 1 /\ y[Len(x) + 1] = q[k]
        /\ \A i \in 1 .. Len(x) : y[i] = x[i]
    BY <1>1, <2>1
  <2>4. PICK g : g = [i \in 1 .. Len(y) |-> IF i = Len(x) + 1 THEN k ELSE f[i]]
    OBVIOUS
  <2>5. g \in [1 .. Len(y) -> 1 .. k]
    BY <1>1, <2>3, <2>4 DEF IsSelection
  <2>6. \A i, j \in 1 .. Len(y) : i < j => g[i] < g[j]
    <3> SUFFICES ASSUME NEW i \in 1 .. Len(y), NEW j \in 1 .. Len(y), i < j
                 PROVE  g[i] < g[j]
      OBVIOUS
    <3>0. i \in 1 .. Len(x) /\ i # Len(x) + 1
      BY <1>1, <2>3
    <3>1. i \in 1 .. Len(x) /\ g[i] = f[i] /\ f[i] \in 1 .. (k - 1)
      BY <2>4, <3>0 DEF IsSelection
    <3>2. CASE j = Len(x) + 1
      BY <1>1, <2>4, <3>1, <3>2
    <3>3. CASE j # Len(x) + 1
      <4>1. j \in 1 .. Len(x)
        BY <1>1, <2>3, <3>3
      <4>2. g[j] = f[j]
        BY <2>4, <3>3
      <4>3. f[i] < f[j]
        BY <3>1, <4>1 DEF IsSelection
      <4>4. QED
        BY <3>1, <4>2, <4>3
    <3>4. QED
      BY <3>2, <3>3
  <2>7. \A i \in 1 .. Len(y) : y[i] = q[g[i]] /\ (Ready(y[i]) <=> b)
    <3> SUFFICES ASSUME NEW i \in 1 .. Len(y)
                 PROVE  y[i] = q[g[i]] /\ (Ready(y[i]) <=> b)
      OBVIOUS
    <3>1. CASE i = Len(x) + 1
      BY <1>2, <2>3, <2>4, <3>1
    <3>2. CASE i # Len(x) + 1
      <4>1. i \in 1 .. Len(x)
        BY <1>1, <2>3, <3>2
      <4>2. y[i] = x[i] /\ g[i] = f[i]
        BY <2>3, <2>4, <3>2, <4>1
      <4>3. QED
        BY <4>1, <4>2 DEF IsSelection
    <3>3. QED
      BY <3>1, <3>2
  <2>8. ASSUME NEW i \in 1 .. k, Ready(q[i]) <=> b
        PROVE  \E j \in 1 .. Len(y) : g[j] = i
    <3>1. CASE i = k
      BY <1>1, <2>3, <2>4, <3>1
    <3>2. CASE i # k
      <4>1. PICK j \in 1 .. Len(x) : f[j] = i
        BY <2>8, <3>2 DEF IsSelection
      <4>2. j \in 1 .. Len(y) /\ g[j] = f[j]
        BY <1>1, <2>3, <2>4
      <4>3. QED
        BY <4>1, <4>2
    <3>3. QED
      BY <3>1, <3>2
  <2>9. IsSelection(q, b, k, y, g)
    BY <2>5, <2>6, <2>7, <2>8 DEF IsSelection
  <2>10. QED
    BY <2>2, <2>3, <2>9
<1>3. CASE ~(Ready(q[k]) <=> b)
  <2>1. Take(b, x, q[k]) = x
    BY <1>3 DEF Take
  <2>2. f \in [1 .. Len(x) -> 1 .. k]
    BY <1>1 DEF IsSelection
  <2>3. \A i \in 1 .. k : (Ready(q[i]) <=> b) => \E j \in 1 .. Len(x) : f[j] = i
    <3>1. \A i \in 1 .. k : (Ready(q[i]) <=> b) => i \in 1 .. (k - 1)
      BY <1>3
    <3>2. QED
      BY <3>1 DEF IsSelection
  <2>4. IsSelection(q, b, k, x, f)
    BY <2>2, <2>3 DEF IsSelection
  <2>5. QED
    BY <2>1, <2>4
<1>4. QED
  BY <1>2, <1>3

\* A selection keeps the packets it should, in their order.
LEMMA SelectEffect ==
  ASSUME NEW b \in BOOLEAN, NEW S, NEW q \in Seq(S)
  PROVE  /\ Select(q, b) \in Seq(S)
         /\ \E f : IsSelection(q, b, Len(q), Select(q, b), f)
<1>1. PICK ctx : ctx = [set |-> S, queue |-> q, ready |-> b]
  OBVIOUS
<1>2. ctx.set = S /\ ctx.queue = q /\ ctx.ready = b
  BY <1>1
<1>3. Selecting(ctx, 0, <<>>)
  <2>1. IsSelection(q, b, 0, <<>>, <<>>)
    <3>1. <<>> \in [1 .. Len(<<>>) -> 1 .. 0] /\ 1 .. Len(<<>>) = {} /\ 1 .. 0 = {}
      OBVIOUS
    <3>2. QED
      BY <3>1 DEF IsSelection
  <2>2. <<>> \in Seq(S)
    OBVIOUS
  <2>3. QED
    BY <1>2, <2>1, <2>2 DEF Selecting
<1>4. \A k \in 1 .. Len(q) : \A x :
        Selecting(ctx, k - 1, x) => Selecting(ctx, k, Take(b, x, q[k]))
  <2> TAKE k \in 1 .. Len(q)
  <2> TAKE x
  <2> HAVE Selecting(ctx, k - 1, x)
  <2>1. x \in Seq(S)
    BY <1>2 DEF Selecting
  <2>2. PICK f : IsSelection(q, b, k - 1, x, f)
    BY <1>2 DEF Selecting
  <2>3. QED
    BY <1>2, <2>1, <2>2, TakeStep DEF Selecting
<1>5. PICK r : r = SelectFold!Fold(b, 0, 0, <<>>, q)
  OBVIOUS
<1>6. r = Select(q, b)
  BY <1>5, Zenon DEF Select, Take, SelectFold!Fold, FoldLeft, MapThenFoldSet, Max,
                     SelectFold!FoldLeft, SelectFold!MapThenFoldSet, SelectFold!Max
<1>7. Selecting(ctx, Len(q), r)
  BY <1>3, <1>4, <1>5, SelectFold!FoldInvariant
<1>8. QED
  BY <1>2, <1>6, <1>7 DEF Selecting

-------------------------------------------------------------------------------
(* Cache::Tick.                                                              *)

\* Packets that become ready in their order; and none that still is.
Sorted(q) == \A i, k \in 1 .. Len(q) : i < k => q[i].ready <= q[k].ready
\* None is ready.
Later(q) == \A i \in 1 .. Len(q) : q[i].ready >= 1

\* The time at which a packet of a level is ready.
LEMMA ReadyTimes ==
  ASSUME NEW c \in Levels, NEW p \in PacketSet(c)
  PROVE  /\ p.ready \in Nat /\ p.ready <= Delay[c]
         /\ Ready(p) \in BOOLEAN /\ Ready(p) <=> p.ready = 0
<1>1. p.ready \in 0 .. Delay[c] /\ Delay[c] \in Nat
  BY Geometry DEF PacketSet, Reads, Stores, WriteBacksOf
<1>2. QED
  BY <1>1 DEF Ready

\* A queue that only takes packets stays as it was in these respects.
LEMMA ExtendedOrder ==
  ASSUME NEW c \in Levels, NEW q \in Seq(PacketSet(c)), NEW r \in Seq(PacketSet(c)),
         Extended(c, q, r)
  PROVE  (Sorted(q) => Sorted(r)) /\ (Later(q) => Later(r))
<1>1. /\ Len(q) \in Nat /\ Len(r) \in Nat /\ Delay[c] \in Nat /\ Delay[c] >= 1
      /\ Len(q) <= Len(r)
  BY Geometry DEF Extended
<1>2. \A i \in 1 .. Len(r) : r[i].ready \in Nat /\ r[i].ready <= Delay[c]
  BY ReadyTimes
<1>3. \A i \in 1 .. Len(r) : i \notin 1 .. Len(q) => r[i].ready = Delay[c]
  BY <1>1 DEF Extended
<1>4. \A i \in 1 .. Len(q) : r[i].ready = q[i].ready /\ i \in 1 .. Len(r)
  BY <1>1 DEF Extended
<1>5. ASSUME Sorted(q), NEW i \in 1 .. Len(r), NEW k \in 1 .. Len(r), i < k
      PROVE  r[i].ready <= r[k].ready
  <2>1. CASE k \in 1 .. Len(q)
    <3>1. i \in 1 .. Len(q)
      BY <1>1, <1>5, <2>1
    <3>2. q[i].ready <= q[k].ready
      BY <1>5, <2>1, <3>1 DEF Sorted
    <3>3. QED
      BY <1>4, <2>1, <3>1, <3>2
  <2>2. CASE k \notin 1 .. Len(q)
    BY <1>2, <1>3, <2>2
  <2>3. QED
    BY <2>1, <2>2
<1>6. ASSUME Later(q), NEW i \in 1 .. Len(r)
      PROVE  r[i].ready >= 1
  <2>1. CASE i \in 1 .. Len(q)
    BY <1>4, <1>6, <2>1 DEF Later
  <2>2. CASE i \notin 1 .. Len(q)
    BY <1>1, <1>3, <2>2
  <2>3. QED
    BY <2>1, <2>2
<1>7. QED
  BY <1>5, <1>6 DEF Sorted, Later

\* A selection of a sorted queue is sorted; one of the packets that are not ready
\* has only those.
LEMMA SelectOrder ==
  ASSUME NEW c \in Levels, NEW q \in Seq(PacketSet(c)), NEW b \in BOOLEAN
  PROVE  /\ Select(q, b) \in Seq(PacketSet(c))
         /\ \A i \in 1 .. Len(Select(q, b)) : Ready(Select(q, b)[i]) <=> b
         /\ Sorted(q) => Sorted(Select(q, b))
         /\ ~b => Later(Select(q, b))
<1>1. PICK x : x = Select(q, b)
  OBVIOUS
<1>2. x \in Seq(PacketSet(c)) /\ \E f : IsSelection(q, b, Len(q), x, f)
  BY <1>1, SelectEffect
<1>3. PICK f : IsSelection(q, b, Len(q), x, f)
  BY <1>2
<1>4. \A i \in 1 .. Len(x) : x[i] = q[f[i]] /\ f[i] \in 1 .. Len(q) /\ (Ready(x[i]) <=> b)
  BY <1>3 DEF IsSelection
<1>5. ASSUME Sorted(q), NEW i \in 1 .. Len(x), NEW k \in 1 .. Len(x), i < k
      PROVE  x[i].ready <= x[k].ready
  <2>1. f[i] < f[k]
    BY <1>3, <1>5 DEF IsSelection
  <2>2. q[f[i]].ready <= q[f[k]].ready
    BY <1>4, <1>5, <2>1 DEF Sorted
  <2>3. QED
    BY <1>4, <2>2
<1>6. ASSUME ~b, NEW i \in 1 .. Len(x)
      PROVE  x[i].ready >= 1
  <2>1. ~Ready(x[i]) /\ x[i] \in PacketSet(c)
    BY <1>2, <1>4, <1>6
  <2>2. x[i].ready \in Nat /\ x[i].ready # 0
    BY <2>1, ReadyTimes
  <2>3. QED
    BY <2>2
<1>7. QED
  BY <1>1, <1>2, <1>4, <1>5, <1>6 DEF Sorted, Later

\* Where in a queue the requests of a kind are that are ready, or not.
Where(q, b, kind, addr) == {i \in 1 .. Len(q) : (Ready(q[i]) <=> b) /\ Is(q[i], kind, addr)}

\* A selection has the requests it selects.
LEMMA NumSelect ==
  ASSUME NEW S, NEW q \in Seq(S), NEW b \in BOOLEAN, NEW kind, NEW addr
  PROVE  /\ IsFiniteSet(Where(q, b, kind, addr))
         /\ Num(Select(q, b), kind, addr) = Cardinality(Where(q, b, kind, addr))
<1>1. PICK x \in Seq(S) : x = Select(q, b)
  BY SelectEffect
<1>2. PICK f : IsSelection(q, b, Len(q), x, f)
  BY <1>1, SelectEffect
<1>3. PICK A : A = {j \in DOMAIN x : Is(x[j], kind, addr)}
  OBVIOUS
<1>4. /\ DOMAIN x = 1 .. Len(x) /\ Len(x) \in Nat /\ IsFiniteSet(A)
      /\ Num(x, kind, addr) = Cardinality(A)
  BY <1>3, NumType DEF Num
<1>5. PICK B : B = Where(q, b, kind, addr)
  OBVIOUS
<1>6. PICK g : g = [j \in A |-> f[j]]
  OBVIOUS
<1>7. \A j \in A : f[j] \in B
  <2> TAKE j \in A
  <2>1. j \in 1 .. Len(x) /\ Is(x[j], kind, addr)
    BY <1>3, <1>4
  <2>2. f[j] \in 1 .. Len(q) /\ x[j] = q[f[j]] /\ (Ready(x[j]) <=> b)
    BY <1>2, <2>1 DEF IsSelection
  <2>3. QED
    BY <1>5, <2>1, <2>2 DEF Where
<1>8. g \in [A -> B]
  BY <1>6, <1>7
<1>9. ASSUME NEW j \in A, NEW k \in A, g[j] = g[k]
      PROVE  j = k
  <2>1. j \in 1 .. Len(x) /\ k \in 1 .. Len(x) /\ f[j] = f[k]
    BY <1>3, <1>4, <1>6, <1>9
  <2>2. f[j] \in 1 .. Len(q)
    BY <1>2, <2>1 DEF IsSelection
  <2>3. ~(j < k) /\ ~(k < j)
    BY <1>2, <2>1, <2>2 DEF IsSelection
  <2>4. QED
    BY <2>1, <2>3
<1>10. ASSUME NEW i \in B
       PROVE  \E j \in A : g[j] = i
  <2>1. i \in 1 .. Len(q) /\ (Ready(q[i]) <=> b) /\ Is(q[i], kind, addr)
    BY <1>5 DEF Where
  <2>2. PICK j \in 1 .. Len(x) : f[j] = i
    BY <1>2, <2>1 DEF IsSelection
  <2>3. x[j] = q[i]
    BY <1>2, <2>2 DEF IsSelection
  <2>4. j \in A
    BY <1>3, <1>4, <2>1, <2>2, <2>3
  <2>5. QED
    BY <1>6, <2>2, <2>4
<1>11. IsFiniteSet(B) /\ Cardinality(B) = Cardinality(A)
  BY <1>4, <1>8, <1>9, <1>10, SameSize
<1>12. QED
  BY <1>1, <1>4, <1>5, <1>11

\* std::partition loses no request and repeats none.
LEMMA NumReadyFirst ==
  ASSUME NEW S, NEW q \in Seq(S), NEW kind, NEW addr
  PROVE  Num(ReadyFirst(q), kind, addr) = Num(q, kind, addr)
<1>0. TRUE \in BOOLEAN /\ FALSE \in BOOLEAN
  OBVIOUS
<1>1. PICK a \in Seq(S) : a = Select(q, TRUE)
  BY <1>0, SelectEffect
<1>2. PICK b \in Seq(S) : b = Select(q, FALSE)
  BY <1>0, SelectEffect
<1>3. PICK A : A = Where(q, TRUE, kind, addr)
  OBVIOUS
<1>4. PICK B : B = Where(q, FALSE, kind, addr)
  OBVIOUS
<1>5. IsFiniteSet(A) /\ Num(a, kind, addr) = Cardinality(A)
  BY <1>0, <1>1, <1>3, NumSelect
<1>6. IsFiniteSet(B) /\ Num(b, kind, addr) = Cardinality(B)
  BY <1>0, <1>2, <1>4, NumSelect
<1>7. Num(q, kind, addr) = Cardinality(A \cup B) /\ A \cap B = {}
  <2>1. DOMAIN q = 1 .. Len(q)
    OBVIOUS
  <2>2. {i \in DOMAIN q : Is(q[i], kind, addr)} = A \cup B
    BY <1>3, <1>4, <2>1 DEF Where
  <2>3. A \cap B = {}
    BY <1>3, <1>4 DEF Where
  <2>4. QED
    BY <2>2, <2>3 DEF Num
<1>8. Cardinality(A \cup B) = Cardinality(A) + Cardinality(B)
  <2>1. Cardinality(A \cap B) = 0
    BY <1>7, FS_EmptySet
  <2>2. Cardinality(A) \in Nat /\ Cardinality(B) \in Nat
    BY <1>5, <1>6, FS_CardinalityType
  <2>3. Cardinality(A \cup B) = Cardinality(A) + Cardinality(B) - Cardinality(A \cap B)
    BY <1>5, <1>6, FS_Union
  <2>4. QED
    BY <2>1, <2>2, <2>3
<1>9. Num(a \o b, kind, addr) = Num(a, kind, addr) + Num(b, kind, addr)
  BY NumJoined
<1>10. QED
  BY <1>1, <1>2, <1>5, <1>6, <1>7, <1>8, <1>9 DEF ReadyFirst

\* Where the requests are that the loop of a cache's Tick leaves in its queue,
\* once it has processed k packets: those it has put off or not come to.
LiveAt(q, k, kind, addr) ==
  {i \in 1 .. Len(q) : (i > k \/ ~Ready(q[i])) /\ Is(q[i], kind, addr)}

\* How many they are.
Live(q, k, kind, addr) == Cardinality(LiveAt(q, k, kind, addr))

\* They are a number.
LEMMA LiveType ==
  ASSUME NEW S, NEW q \in Seq(S), NEW k, NEW kind, NEW addr
  PROVE  /\ IsFiniteSet(LiveAt(q, k, kind, addr))
         /\ Live(q, k, kind, addr) \in Nat
<1>1. Len(q) \in Nat
  OBVIOUS
<1>2. IsFiniteSet(1 .. Len(q)) /\ LiveAt(q, k, kind, addr) \subseteq 1 .. Len(q)
  BY <1>1, FS_Interval DEF LiveAt
<1>3. QED
  BY <1>2, FS_Subset, FS_CardinalityType DEF Live

\* At first all of them.
LEMMA LiveFirst ==
  ASSUME NEW S, NEW q \in Seq(S), NEW kind, NEW addr
  PROVE  Live(q, 0, kind, addr) = Num(q, kind, addr)
<1>1. DOMAIN q = 1 .. Len(q) /\ \A i \in 1 .. Len(q) : i > 0
  OBVIOUS
<1>2. LiveAt(q, 0, kind, addr) = {i \in DOMAIN q : Is(q[i], kind, addr)}
  BY <1>1 DEF LiveAt
<1>3. QED
  BY <1>2 DEF Live, Num

\* A packet that is done with.
LEMMA LiveDone ==
  ASSUME NEW S, NEW q \in Seq(S), NEW k \in 1 .. Len(q), Ready(q[k]), NEW kind, NEW addr
  PROVE  Live(q, k - 1, kind, addr) = Live(q, k, kind, addr) + OneIf(Is(q[k], kind, addr))
<1>1. PICK A : A = LiveAt(q, k, kind, addr)
  OBVIOUS
<1>2. PICK B : B = LiveAt(q, k - 1, kind, addr)
  OBVIOUS
<1>3. IsFiniteSet(A) /\ Cardinality(A) \in Nat
  BY <1>1, LiveType DEF Live
<1>4. k \notin A /\ (k \in B <=> Is(q[k], kind, addr))
  BY <1>1, <1>2 DEF LiveAt
<1>5. \A i \in 1 .. Len(q) : i # k => (i \in A <=> i \in B)
  <2> TAKE i \in 1 .. Len(q)
  <2> HAVE i # k
  <2>1. i > k <=> i > k - 1
    OBVIOUS
  <2>2. QED
    BY <1>1, <1>2, <2>1 DEF LiveAt
<1>6. A \subseteq 1 .. Len(q) /\ B \subseteq 1 .. Len(q)
  BY <1>1, <1>2 DEF LiveAt
<1>7. CASE Is(q[k], kind, addr)
  <2>1. B = A \cup {k}
    BY <1>4, <1>5, <1>6, <1>7
  <2>2. Cardinality(B) = Cardinality(A) + 1
    BY <1>3, <1>4, <2>1, FS_AddElement
  <2>3. QED
    BY <1>1, <1>2, <1>7, <2>2 DEF Live, OneIf
<1>8. CASE ~Is(q[k], kind, addr)
  <2>1. k \notin A /\ k \notin B
    BY <1>4, <1>8
  <2>2. \A i \in 1 .. Len(q) : i \in A <=> i \in B
    BY <1>5, <2>1
  <2>3. B = A
    BY <1>6, <2>2
  <2>4. QED
    BY <1>1, <1>2, <1>3, <1>8, <2>3 DEF Live, OneIf
<1>9. QED
  BY <1>7, <1>8

\* A packet that is put off.
Put(q, k, r) ==
  /\ Len(r) = Len(q)
  /\ \A i \in (1 .. Len(q)) \ {k} : r[i] = q[i]
  /\ r[k].type = q[k].type /\ r[k].addr = q[k].addr /\ ~Ready(r[k])

\* It stays among them.
LEMMA LivePut ==
  ASSUME NEW S, NEW q \in Seq(S), NEW r, NEW k \in 1 .. Len(q), Put(q, k, r),
         NEW kind, NEW addr
  PROVE  Live(r, k, kind, addr) = Live(q, k - 1, kind, addr)
<1>0. /\ Len(r) = Len(q)
      /\ \A i \in (1 .. Len(q)) \ {k} : r[i] = q[i]
      /\ r[k].type = q[k].type /\ r[k].addr = q[k].addr /\ ~Ready(r[k])
  BY DEF Put
<1>1. \A i \in 1 .. Len(q) : Is(r[i], kind, addr) <=> Is(q[i], kind, addr)
  BY <1>0 DEF Is
<1>2. \A i \in 1 .. Len(q) : i # k => (i > k <=> i > k - 1)
  OBVIOUS
<1>3. k > k - 1
  OBVIOUS
<1>4. \A i \in 1 .. Len(q) : i \in LiveAt(r, k, kind, addr) <=> i \in LiveAt(q, k - 1, kind, addr)
  BY <1>0, <1>1, <1>2, <1>3 DEF LiveAt
<1>5. LiveAt(r, k, kind, addr) = LiveAt(q, k - 1, kind, addr)
  BY <1>0, <1>4 DEF LiveAt
<1>6. QED
  BY <1>5 DEF Live

\* In the end those that are not removed, if no packet was left out.
AllDone(q, n) == \A i \in 1 .. Len(q) : i > n => ~Ready(q[i])

\* So the last pass keeps them.
LEMMA LiveLast ==
  ASSUME NEW S, NEW q \in Seq(S), NEW n \in Nat, AllDone(q, n), NEW kind, NEW addr
  PROVE  Num(Select(q, FALSE), kind, addr) = Live(q, n, kind, addr)
<1>0. FALSE \in BOOLEAN
  OBVIOUS
<1>1. Where(q, FALSE, kind, addr) = LiveAt(q, n, kind, addr)
  BY DEF Where, LiveAt, AllDone
<1>2. QED
  BY <1>0, <1>1, NumSelect DEF Live

\* The ready packets put first, and one of them changed.
WithQueue(s, c, q) == [s EXCEPT !.queue[c] = q]

\* The types of a state whose queue is replaced.
LEMMA QueueChange ==
  ASSUME NEW s, Typed(s), NEW c \in Levels, NEW q \in Seq(PacketSet(c)), NEW r,
         r = WithQueue(s, c, q)
  PROVE  /\ Typed(r) /\ r.blocks = s.blocks /\ r.mshr = s.mshr /\ r.store = s.store
         /\ r.abort = s.abort /\ r.out = s.out
         /\ \A d \in Levels \ {c} : r.queue[d] = s.queue[d]
         /\ r.queue[c] = q
<1>1. DOMAIN s.queue = Levels /\ \A d \in Levels : s.queue[d] \in Seq(PacketSet(d))
  BY DEF Typed, QueuesTyped
<1>2. /\ r.blocks = s.blocks /\ r.mshr = s.mshr /\ r.store = s.store
      /\ r.abort = s.abort /\ r.out = s.out /\ r.freed = s.freed
      /\ r.reused = s.reused
      /\ r.queue = [s.queue EXCEPT ![c] = q]
      /\ DOMAIN r = DOMAIN s
  BY DEF Typed, WithQueue
<1>3. /\ \A d \in Levels \ {c} : r.queue[d] = s.queue[d]
      /\ r.queue[c] = q /\ DOMAIN r.queue = Levels
  BY <1>1, <1>2
<1>4. \A d \in Levels : r.queue[d] \in Seq(PacketSet(d))
  <2> TAKE d \in Levels
  <2>1. CASE d = c
    BY <1>3, <2>1
  <2>2. CASE d # c
    BY <1>1, <1>3, <2>2
  <2>3. QED
    BY <2>1, <2>2
<1>5. QueuesTyped(r.queue)
  BY <1>3, <1>4 DEF QueuesTyped
<1>6. Typed(r)
  BY <1>2, <1>5 DEF Typed
<1>7. QED
  BY <1>2, <1>3, <1>6

\* While the first n packets of the queue of ctx.from are processed, k of them
\* have been: these are gone or put off, unless they are ready and will go.
TickedQueue(c, k, q, r) ==
  /\ Len(q) <= Len(r)
  /\ \A i \in 1 .. Len(q) :
       IF i <= k THEN r[i].ready <= 1 ELSE r[i] = q[i]
  /\ \A i \in (Len(q) + 1) .. Len(r) : r[i].ready = Delay[c]

\* The core's requests that are in a level 1 cache, or have been answered: those
\* in the queue of the cache whose Tick it is, of which k have been processed.
Left(x, c, k, kind, addr) ==
  Total(x, kind, addr)
    + (IF CacheOf(kind) = c THEN Live(x.queue[c], k, kind, addr) ELSE 0)

\* While the first k packets of the queue of c are processed, none is lost.
Counting(from, c, k, x) ==
  /\ Distinct(from) => Distinct(x)
  /\ Alone(x) => Alone(from)
  /\ \A d \in {"L1I", "L1D"} \ {c} : x.queue[d] = from.queue[d]
  /\ \A kind \in Kinds, addr \in Addresses :
       Left(x, c, k, kind, addr) = Left(from, c, 0, kind, addr)

\* While they are processed: ctx.from is the state with the ready packets first,
\* ctx.c the level and k how many have been processed.
Ticking(ctx, k, x) ==
  LET from == ctx.from
  IN /\ Typed(x) /\ x.store = from.store /\ May(from, x, Failures)
     /\ \A d \in Levels \ {ctx.c} : Extended(d, from.queue[d], x.queue[d])
     /\ TickedQueue(ctx.c, k, from.queue[ctx.c], x.queue[ctx.c])
     /\ Counting(from, ctx.c, k, x)

\* The loop of a cache's Tick.
TickFold == INSTANCE FoldInduction WITH
              op <- LAMBDA c, n, victim, x, i : Process(x, c, n, victim, i),
              J <- Ticking

\* The packet processed is the k-th, whatever the packets before it did.
LEMMA TickingQueue ==
  ASSUME NEW c \in Levels, NEW q \in Seq(PacketSet(c)), NEW x \in Seq(PacketSet(c)),
         NEW r \in Seq(PacketSet(c)), NEW k \in 1 .. Len(q), q[k].ready <= 1,
         TickedQueue(c, k - 1, q, x), Len(x) <= Len(r),
         \A i \in (1 .. Len(x)) \ {k} : r[i] = x[i],
         r[k] = x[k] \/ r[k].ready = 1,
         \A i \in (Len(x) + 1) .. Len(r) : r[i].ready = Delay[c]
  PROVE  TickedQueue(c, k, q, r)
<1>1. /\ Len(q) \in Nat /\ Len(x) \in Nat /\ Len(r) \in Nat /\ Len(q) <= Len(x)
      /\ k \in Nat /\ k \in 1 .. Len(x)
  BY DEF TickedQueue
<1>2. \A i \in 1 .. Len(q) : IF i <= k - 1 THEN x[i].ready <= 1 ELSE x[i] = q[i]
  BY DEF TickedQueue
<1>3. ASSUME NEW i \in 1 .. Len(q)
      PROVE  IF i <= k THEN r[i].ready <= 1 ELSE r[i] = q[i]
  <2>1. CASE i = k
    <3>1. x[k] = q[k]
      BY <1>1, <1>2
    <3>2. QED
      BY <1>1, <2>1, <3>1
  <2>2. CASE i # k
    <3>1. r[i] = x[i] /\ (i <= k <=> i <= k - 1)
      BY <1>1, <2>2
    <3>2. QED
      BY <1>2, <3>1
  <2>3. QED
    BY <2>1, <2>2
<1>4. ASSUME NEW i \in (Len(q) + 1) .. Len(r)
      PROVE  r[i].ready = Delay[c]
  <2>1. CASE i \in 1 .. Len(x)
    <3>1. i # k /\ i \in (Len(q) + 1) .. Len(x)
      BY <1>1, <2>1
    <3>2. QED
      BY <2>1, <3>1 DEF TickedQueue
  <2>2. CASE i \notin 1 .. Len(x)
    BY <1>1, <2>2
  <2>3. QED
    BY <2>1, <2>2
<1>5. QED
  BY <1>1, <1>3, <1>4 DEF TickedQueue

\* The k-th packet's request is answered, waits in an entry or is put off.
LEMMA CountingStep ==
  ASSUME NEW c \in Caches, NEW from, NEW x, Typed(x), NEW r, Typed(r),
         NEW k \in 1 .. Len(x.queue[c]), Ready(x.queue[c][k]),
         Counting(from, c, k - 1, x), RequestsProcessed(x, c, k, r)
  PROVE  Counting(from, c, k, r)
<1>1. PICK q \in Seq(PacketSet(c)) : q = x.queue[c]
  BY DEF Typed, QueuesTyped, Levels
<1>2. k \in 1 .. Len(q) /\ Ready(q[k]) /\ k \in Nat
  BY <1>1
<1>3. (Distinct(from) => Distinct(r)) /\ (Alone(r) => Alone(from))
  BY DEF Counting, RequestsProcessed
<1>4. \A d \in {"L1I", "L1D"} \ {c} : r.queue[d] = from.queue[d]
  BY DEF Counting, RequestsProcessed
<1>5. ASSUME NEW kind \in Kinds, NEW addr \in Addresses
      PROVE  Left(r, c, k, kind, addr) = Left(x, c, k - 1, kind, addr)
  <2>1. Total(x, kind, addr) \in Nat /\ Total(r, kind, addr) \in Nat
    BY TotalType
  <2>2. CASE CacheOf(kind) # c
    <3>1. Total(r, kind, addr) = Total(x, kind, addr)
      <4>1. CASE c = "L2" \/ Balanced(x, r)
        BY <4>1 DEF RequestsProcessed, Balanced
      <4>2. CASE Gains(x, c, x.queue[c][k], r)
        <5>1. OneIf(CacheOf(kind) = c /\ Is(x.queue[c][k], kind, addr)) = 0
          BY <2>2 DEF OneIf
        <5>2. QED
          BY <2>1, <4>2, <5>1 DEF Gains
      <4>3. QED
        BY <4>1, <4>2 DEF RequestsProcessed
    <3>2. QED
      BY <2>2, <3>1 DEF Left
  <2>3. CASE CacheOf(kind) = c
    <3>1. c # "L2"
      BY <2>3, TotalType DEF CacheOf
    <3>2. /\ Live(q, k, kind, addr) \in Nat /\ Live(q, k - 1, kind, addr) \in Nat
          /\ OneIf(Is(q[k], kind, addr)) \in {0, 1}
      BY LiveType, OneIfType
    <3>3. CASE Gains(x, c, q[k], r) /\ r.queue[c] = q
      <4>1. Total(r, kind, addr) = Total(x, kind, addr) + OneIf(Is(q[k], kind, addr))
        <5>1. OneIf(CacheOf(kind) = c /\ Is(q[k], kind, addr)) = OneIf(Is(q[k], kind, addr))
          BY <2>3 DEF OneIf
        <5>2. QED
          BY <3>3, <5>1 DEF Gains
      <4>2. Live(q, k - 1, kind, addr) = Live(q, k, kind, addr) + OneIf(Is(q[k], kind, addr))
        BY <1>2, LiveDone
      <4>3. QED
        BY <1>1, <2>1, <2>3, <3>2, <3>3, <4>1, <4>2 DEF Left
    <3>4. CASE Balanced(x, r) /\ PutOff(x, c, k, r)
      <4>1. Total(r, kind, addr) = Total(x, kind, addr)
        BY <3>4 DEF Balanced
      <4>2. /\ Len(r.queue[c]) = Len(q)
            /\ \A i \in (1 .. Len(q)) \ {k} : r.queue[c][i] = q[i]
            /\ r.queue[c][k] = [q[k] EXCEPT !.ready = 1]
        BY <1>1, <3>4 DEF PutOff
      <4>3. /\ r.queue[c][k].type = q[k].type /\ r.queue[c][k].addr = q[k].addr
            /\ ~Ready(r.queue[c][k])
        <5>1. q[k] \in PacketSet(c) /\ c \in Levels
          BY <1>1, <1>2 DEF Levels
        <5>2. 1 \in 0 .. Delay[c]
          BY <5>1, Geometry
        <5>3. PICK p : p = [q[k] EXCEPT !.ready = 1]
          OBVIOUS
        <5>4. p.type = q[k].type /\ p.addr = q[k].addr /\ p.ready = 1
          BY <5>1, <5>2, <5>3, TimeChange
        <5>5. QED
          BY <4>2, <5>3, <5>4 DEF Ready
      <4>4. Live(r.queue[c], k, kind, addr) = Live(q, k - 1, kind, addr)
        <5>1. Put(q, k, r.queue[c])
          BY <4>2, <4>3 DEF Put
        <5>2. QED
          BY <1>2, <5>1, LivePut
      <4>5. QED
        BY <1>1, <2>3, <4>1, <4>4 DEF Left
    <3>5. QED
      BY <1>1, <3>1, <3>3, <3>4 DEF RequestsProcessed
  <2>4. QED
    BY <2>2, <2>3
<1>6. ASSUME NEW kind \in Kinds, NEW addr \in Addresses
      PROVE  Left(r, c, k, kind, addr) = Left(from, c, 0, kind, addr)
  <2>1. Left(x, c, k - 1, kind, addr) = Left(from, c, 0, kind, addr)
    BY DEF Counting
  <2>2. QED
    BY <1>5, <2>1
<1>7. QED
  BY <1>3, <1>4, <1>6 DEF Counting

\* One packet more is processed.
LEMMA TickStep ==
  ASSUME NEW c \in Caches, NEW from, Typed(from), NEW ctx,
         ctx = [c |-> c, from |-> from], NEW n, NEW victim, Evicts(victim),
         NEW k \in 1 .. Len(from.queue[c]), from.queue[c][k].ready = 0,
         NEW x, Ticking(ctx, k - 1, x)
  PROVE  Ticking(ctx, k, Process(x, c, n, victim, k))
<1>1. ctx.c = c /\ ctx.from = from /\ c \in Levels
  BY DEF Levels
<1>2. /\ Typed(x) /\ x.store = from.store /\ May(from, x, Failures)
      /\ \A d \in Levels \ {c} : Extended(d, from.queue[d], x.queue[d])
      /\ TickedQueue(c, k - 1, from.queue[c], x.queue[c])
      /\ Counting(from, c, k - 1, x)
  BY <1>1 DEF Ticking
<1>3. PICK r : r = Process(x, c, n, victim, k)
  OBVIOUS
<1>4. /\ \A d \in Levels : /\ from.queue[d] \in Seq(PacketSet(d))
                           /\ x.queue[d] \in Seq(PacketSet(d))
  BY <1>2 DEF Typed, QueuesTyped
<1>5. k \in 1 .. Len(x.queue[c])
  BY <1>1, <1>2, <1>4 DEF TickedQueue
<1>6. Processed(x, c, k, r)
  BY <1>2, <1>3, <1>5, ProcessEffect
<1>7. /\ Typed(r) /\ r.store = x.store /\ May(x, r, Failures)
      /\ QueuesProcessed(x, c, k, r)
  BY <1>2, <1>5, <1>6, ProcessedQueues
<1>8. \A d \in Levels : r.queue[d] \in Seq(PacketSet(d))
  BY <1>7 DEF Typed, QueuesTyped
<1>9. ASSUME NEW d \in Levels \ {c}
      PROVE  Extended(d, from.queue[d], r.queue[d])
  <2>1. Extended(d, x.queue[d], r.queue[d]) /\ Extended(d, from.queue[d], x.queue[d])
    BY <1>2, <1>7 DEF QueuesProcessed
  <2>2. QED
    BY <1>4, <1>8, <2>1, ExtendedTwice
<1>10. TickedQueue(c, k, from.queue[c], r.queue[c])
  <2>0. from.queue[c][k].ready <= 1
    OBVIOUS
  <2>1. /\ Len(x.queue[c]) <= Len(r.queue[c])
        /\ \A i \in (1 .. Len(x.queue[c])) \ {k} : r.queue[c][i] = x.queue[c][i]
        /\ r.queue[c][k] = x.queue[c][k] \/ r.queue[c][k].ready = 1
        /\ \A i \in (Len(x.queue[c]) + 1) .. Len(r.queue[c]) :
             r.queue[c][i].ready = Delay[c]
    BY <1>7 DEF QueuesProcessed
  <2>2. QED
    BY <1>1, <1>2, <1>4, <1>8, <2>0, <2>1, TickingQueue
<1>11. May(from, r, Failures)
  BY <1>2, <1>7 DEF May
<1>12. Counting(from, c, k, r)
  <2>1. RequestsProcessed(x, c, k, r)
    BY <1>2, <1>5, <1>6, ProcessedRequests
  <2>2. Ready(x.queue[c][k])
    <3>1. k \in Nat /\ ~(k <= k - 1)
      OBVIOUS
    <3>2. x.queue[c][k] = from.queue[c][k]
      BY <1>2, <3>1 DEF TickedQueue
    <3>3. QED
      BY <3>2 DEF Ready
  <2>3. QED
    BY <1>2, <1>5, <1>7, <2>1, <2>2, CountingStep
<1>13. QED
  BY <1>1, <1>2, <1>3, <1>7, <1>9, <1>10, <1>11, <1>12 DEF Ticking

\* A Tick keeps each request of the core's in its place or answers it, and
\* takes an MSHR entry only for a block that has none.
RequestsKept(s, r) ==
  /\ Distinct(s) => Distinct(r)
  /\ Alone(r) => Alone(s)
  /\ \A kind \in Kinds, addr \in Addresses :
       Num(r.queue[CacheOf(kind)], kind, addr) + Total(r, kind, addr) =
         Num(s.queue[CacheOf(kind)], kind, addr) + Total(s, kind, addr)

\* One queue is replaced.
QueueSet(s, c, q, r) ==
  /\ r.queue[c] = q /\ \A d \in Levels \ {c} : r.queue[d] = s.queue[d]
  /\ r.mshr = s.mshr /\ r.out = s.out

\* Its loop does, with the passes over the queue before and after it.
LEMMA CountingDone ==
  ASSUME NEW s, Typed(s), NEW start, Typed(start), NEW x, Typed(x), NEW r, Typed(r),
         NEW c \in Caches, NEW n \in Nat, QueueSet(s, c, ReadyFirst(s.queue[c]), start),
         Counting(start, c, n, x), AllDone(x.queue[c], n),
         QueueSet(x, c, Select(x.queue[c], FALSE), r)
  PROVE  RequestsKept(s, r)
<1>1. PICK q \in Seq(PacketSet(c)) : q = s.queue[c]
  BY DEF Typed, QueuesTyped, Levels
<1>2. PICK f \in Seq(PacketSet(c)) : f = start.queue[c]
  BY DEF Typed, QueuesTyped, Levels
<1>3. PICK y \in Seq(PacketSet(c)) : y = x.queue[c]
  BY DEF Typed, QueuesTyped, Levels
<1>q. /\ \A d \in Levels \ {c} : start.queue[d] = s.queue[d] /\ r.queue[d] = x.queue[d]
      /\ start.queue[c] = ReadyFirst(s.queue[c]) /\ r.queue[c] = Select(x.queue[c], FALSE)
      /\ start.mshr = s.mshr /\ start.out = s.out /\ r.mshr = x.mshr /\ r.out = x.out
  BY DEF QueueSet
<1>4. Distinct(s) => Distinct(r)
  BY <1>q DEF Counting, Distinct
<1>a. Alone(r) => Alone(s)
  <2>1. (Alone(r) <=> Alone(x)) /\ (Alone(start) <=> Alone(s))
    BY <1>q DEF Alone
  <2>2. QED
    BY <2>1 DEF Counting
<1>5. ASSUME NEW kind \in Kinds, NEW addr \in Addresses
      PROVE  Num(r.queue[CacheOf(kind)], kind, addr) + Total(r, kind, addr) =
               Num(s.queue[CacheOf(kind)], kind, addr) + Total(s, kind, addr)
  <2>1. Total(start, kind, addr) = Total(s, kind, addr)
    BY <1>q DEF Total, WaitNum, Waiting
  <2>2. Total(r, kind, addr) = Total(x, kind, addr)
    BY <1>q DEF Total, WaitNum, Waiting
  <2>3. Left(x, c, n, kind, addr) = Left(start, c, 0, kind, addr)
    BY DEF Counting
  <2>4. Total(x, kind, addr) \in Nat /\ Total(start, kind, addr) \in Nat
    BY TotalType
  <2>5. PICK d \in {"L1I", "L1D"} : d = CacheOf(kind) /\ d \in Levels
    BY TotalType DEF Levels
  <2>6. CASE d = c
    <3>1. Num(ReadyFirst(q), kind, addr) = Num(q, kind, addr)
      BY NumReadyFirst
    <3>2. Live(f, 0, kind, addr) = Num(f, kind, addr)
      BY LiveFirst
    <3>3. Num(Select(y, FALSE), kind, addr) = Live(y, n, kind, addr)
      BY <1>3, LiveLast
    <3>4. /\ Num(s.queue[d], kind, addr) = Live(start.queue[c], 0, kind, addr)
          /\ Num(r.queue[d], kind, addr) = Live(x.queue[c], n, kind, addr)
      BY <1>1, <1>2, <1>3, <1>q, <2>6, <3>1, <3>2, <3>3
    <3>5. /\ Live(start.queue[c], 0, kind, addr) \in Nat
          /\ Live(x.queue[c], n, kind, addr) \in Nat
      BY <1>2, <1>3, LiveType
    <3>6. Total(x, kind, addr) + Live(x.queue[c], n, kind, addr)
            = Total(start, kind, addr) + Live(start.queue[c], 0, kind, addr)
      BY <2>3, <2>5, <2>6 DEF Left
    <3>7. QED
      BY <2>1, <2>2, <2>4, <2>5, <3>4, <3>5, <3>6
  <2>7. CASE d # c
    <3>1. r.queue[d] = s.queue[d]
      <4>1. d \in {"L1I", "L1D"} \ {c} /\ d \in Levels \ {c}
        BY <2>5, <2>7
      <4>2. x.queue[d] = start.queue[d]
        BY <4>1 DEF Counting
      <4>3. QED
        BY <1>q, <4>1, <4>2
    <3>2. Total(x, kind, addr) + 0 = Total(start, kind, addr) + 0
      BY <2>3, <2>5, <2>7 DEF Left
    <3>3. QED
      BY <2>1, <2>2, <2>4, <2>5, <3>1, <3>2
  <2>8. QED
    BY <2>6, <2>7
<1>6. QED
  BY <1>4, <1>5, <1>a DEF RequestsKept

\* What a cache's Tick does.
Ticked(s, c, r) ==
  /\ RequestsKept(s, r)
  /\ Typed(r) /\ r.store = s.store /\ May(s, r, Failures)
  /\ \A d \in Levels \ {c} : Extended(d, s.queue[d], r.queue[d])
  /\ Later(r.queue[c])
  /\ Sorted(s.queue[c]) => Sorted(r.queue[c])

\* The packets due come first, and the others are all later.
DueFirst(c, q, n, r) ==
  /\ r \in Seq(PacketSet(c)) /\ n \in Nat /\ n <= Len(r)
  /\ \A i \in 1 .. n : r[i].ready = 0
  /\ \A i \in 1 .. Len(r) : i > n => r[i].ready >= 1
  /\ Sorted(q) => Sorted(r)

\* The ready packets, then the others.
LEMMA Joining ==
  ASSUME NEW c \in Levels, NEW q, NEW a \in Seq(PacketSet(c)), NEW b \in Seq(PacketSet(c)),
         \A i \in 1 .. Len(a) : Ready(a[i]), Later(b), Sorted(q) => Sorted(b)
  PROVE  DueFirst(c, q, Len(a), a \o b)
<1>1. PICK r \in Seq(PacketSet(c)) : r = a \o b
  BY ConcatProperties
<1>2. /\ Len(a) \in Nat /\ Len(b) \in Nat /\ Len(r) = Len(a) + Len(b)
      /\ \A i \in 1 .. Len(a) : r[i] = a[i]
      /\ \A i \in 1 .. Len(r) : i > Len(a) => r[i] = b[i - Len(a)] /\ i - Len(a) \in 1 .. Len(b)
  BY <1>1
<1>3. \A i \in 1 .. Len(r) : r[i].ready \in Nat
  BY ReadyTimes
<1>4. ASSUME NEW i \in 1 .. Len(a)
      PROVE  r[i].ready = 0
  <2>1. a[i] \in PacketSet(c) /\ Ready(a[i]) /\ r[i] = a[i]
    BY <1>2
  <2>2. QED
    BY <2>1, ReadyTimes
<1>5. \A i \in 1 .. Len(r) : i > Len(a) => r[i].ready >= 1
  BY <1>2 DEF Later
<1>6. ASSUME Sorted(q), NEW i \in 1 .. Len(r), NEW k \in 1 .. Len(r), i < k
      PROVE  r[i].ready <= r[k].ready
  <2>1. CASE i <= Len(a)
    <3>1. r[i].ready = 0 /\ r[k].ready \in Nat
      BY <1>2, <1>3, <1>4, <2>1
    <3>2. QED
      BY <3>1
  <2>2. CASE ~(i <= Len(a))
    <3>1. /\ r[i] = b[i - Len(a)] /\ r[k] = b[k - Len(a)]
          /\ i - Len(a) \in 1 .. Len(b) /\ k - Len(a) \in 1 .. Len(b)
          /\ i - Len(a) < k - Len(a)
      BY <1>2, <1>6, <2>2
    <3>2. QED
      BY <1>6, <3>1 DEF Sorted
  <2>3. QED
    BY <2>1, <2>2
<1>7. QED
  BY <1>1, <1>2, <1>4, <1>5, <1>6 DEF Sorted, DueFirst

\* std::partition loses no packet and invents none.
LEMMA ReadyFirstEffect ==
  ASSUME NEW c \in Levels, NEW q \in Seq(PacketSet(c))
  PROVE  DueFirst(c, q, Len(Select(q, TRUE)), ReadyFirst(q))
<1>1. TRUE \in BOOLEAN /\ FALSE \in BOOLEAN
  OBVIOUS
<1>2. PICK a : a = Select(q, TRUE)
  OBVIOUS
<1>3. PICK b : b = Select(q, FALSE)
  OBVIOUS
<1>4. a \in Seq(PacketSet(c)) /\ \A i \in 1 .. Len(a) : Ready(a[i])
  BY <1>1, <1>2, SelectOrder
<1>5. b \in Seq(PacketSet(c)) /\ Later(b) /\ (Sorted(q) => Sorted(b))
  BY <1>1, <1>3, SelectOrder
<1>6. DueFirst(c, q, Len(a), a \o b)
  BY <1>4, <1>5, Joining
<1>7. QED
  BY <1>2, <1>3, <1>6 DEF ReadyFirst

\* The loop of a cache's Tick.
AllProcessed(s, c, n, victim, places) ==
  FoldLeft(LAMBDA st, i : Process(st, c, n, victim, i), s, places)

\* The ready packets, processed one by one.
LEMMA AllProcessedEffect ==
  ASSUME NEW s, Typed(s), NEW c \in Caches, NEW q, NEW n, NEW victim, Evicts(victim),
         DueFirst(c, q, n, s.queue[c]), NEW seq, seq = [i \in 1 .. n |-> i]
  PROVE  Ticking([c |-> c, from |-> s], n, AllProcessed(s, c, n, victim, seq))
<1>1. PICK ctx : ctx = [c |-> c, from |-> s]
  OBVIOUS
<1>2. ctx.c = c /\ ctx.from = s /\ c \in Levels
  BY <1>1 DEF Levels
<1>3. \A d \in Levels : s.queue[d] \in Seq(PacketSet(d)) /\ Len(s.queue[d]) \in Nat
  BY DEF Typed, QueuesTyped
<1>4. n \in Nat /\ n <= Len(s.queue[c]) /\ \A i \in 1 .. n : s.queue[c][i].ready = 0
  BY DEF DueFirst
<1>6. seq \in Seq(Nat) /\ Len(seq) = n /\ \A k \in 1 .. n : seq[k] = k
  BY <1>4
<1>7. Ticking(ctx, 0, s)
  <2>1. \A d \in Levels : Extended(d, s.queue[d], s.queue[d])
    BY <1>3 DEF Extended
  <2>2. TickedQueue(c, 0, s.queue[c], s.queue[c])
    BY <1>2, <1>3 DEF TickedQueue
  <2>3. Counting(s, c, 0, s)
    BY DEF Counting
  <2>4. QED
    BY <1>2, <2>1, <2>2, <2>3 DEF Ticking, May
<1>8. \A k \in 1 .. Len(seq) : \A x :
        Ticking(ctx, k - 1, x) => Ticking(ctx, k, Process(x, c, n, victim, seq[k]))
  <2> TAKE k \in 1 .. Len(seq)
  <2> TAKE x
  <2> HAVE Ticking(ctx, k - 1, x)
  <2>1. k \in 1 .. Len(s.queue[c]) /\ s.queue[c][k].ready = 0 /\ seq[k] = k
    BY <1>2, <1>3, <1>4, <1>6
  <2>2. Ticking(ctx, k, Process(x, c, n, victim, k))
    BY <1>1, <2>1, TickStep
  <2>3. QED
    BY <2>1, <2>2
<1>9. PICK r : r = TickFold!Fold(c, n, victim, s, seq)
  OBVIOUS
<1>10. r = AllProcessed(s, c, n, victim, seq)
  BY <1>9, Zenon DEF AllProcessed, TickFold!Fold, FoldLeft, MapThenFoldSet, Max,
                     TickFold!FoldLeft, TickFold!MapThenFoldSet, TickFold!Max
<1>11. Ticking(ctx, Len(seq), r)
  BY <1>6, <1>7, <1>8, <1>9, TickFold!FoldInvariant
<1>12. QED
  BY <1>1, <1>6, <1>10, <1>11

\* The packets that were not ready, and those sent, are not.
LEMMA LaterReady ==
  ASSUME NEW c \in Levels, NEW old, NEW q, NEW n, DueFirst(c, old, n, q),
         NEW x \in Seq(PacketSet(c)), TickedQueue(c, n, q, x)
  PROVE  AllDone(x, n)
<1>1. /\ q \in Seq(PacketSet(c)) /\ Len(q) \in Nat /\ Len(x) \in Nat /\ n \in Nat
      /\ Delay[c] \in Nat \ {0}
  BY Geometry DEF TickedQueue, DueFirst
<1>2. ASSUME NEW i \in 1 .. Len(x), i > n
      PROVE  ~Ready(x[i])
  <2>1. x[i] \in PacketSet(c)
    OBVIOUS
  <2>2. x[i].ready \in Nat /\ (Ready(x[i]) <=> x[i].ready = 0)
    BY <2>1, ReadyTimes
  <2>3. CASE i \in 1 .. Len(q)
    <3>1. ~(i <= n)
      BY <1>1, <1>2
    <3>2. x[i] = q[i]
      BY <2>3, <3>1 DEF TickedQueue
    <3>3. q[i].ready >= 1
      BY <1>2, <2>3 DEF DueFirst
    <3>4. QED
      BY <2>2, <3>2, <3>3
  <2>4. CASE i \notin 1 .. Len(q)
    <3>1. i \in (Len(q) + 1) .. Len(x)
      BY <1>1, <2>4
    <3>2. x[i].ready = Delay[c]
      BY <3>1 DEF TickedQueue
    <3>3. QED
      BY <1>1, <2>2, <3>2
  <2>5. QED
    BY <2>3, <2>4
<1>3. QED
  BY <1>2 DEF AllDone

\* What is left of the queue: the packets put off, then the others, then those sent.
LEMMA LeftSorted ==
  ASSUME NEW c \in Levels, NEW old, NEW q, NEW n, DueFirst(c, old, n, q), Sorted(q),
         NEW x \in Seq(PacketSet(c)), TickedQueue(c, n, q, x)
  PROVE  Sorted(Select(x, FALSE))
<1>1. /\ q \in Seq(PacketSet(c)) /\ Len(q) \in Nat /\ Len(x) \in Nat /\ n \in Nat
      /\ n <= Len(q) /\ Len(q) <= Len(x) /\ Delay[c] \in Nat
  BY Geometry DEF TickedQueue, DueFirst
<1>2. \A i \in 1 .. Len(x) : x[i].ready \in Nat /\ x[i].ready <= Delay[c]
  BY ReadyTimes
<1>3. PICK y : y = Select(x, FALSE)
  OBVIOUS
<1>4. FALSE \in BOOLEAN
  OBVIOUS
<1>5. PICK f : IsSelection(x, FALSE, Len(x), y, f)
  BY <1>3, <1>4, SelectEffect
<1>6. Later(y)
  BY <1>3, <1>4, SelectOrder
<1>7. \A i \in 1 .. Len(y) : y[i] = x[f[i]] /\ f[i] \in 1 .. Len(x)
  BY <1>5 DEF IsSelection
<1>8. \A i \in 1 .. Len(q) : IF i <= n THEN x[i].ready <= 1 ELSE x[i] = q[i]
  BY DEF TickedQueue
<1>9. ASSUME NEW i \in 1 .. Len(y), NEW k \in 1 .. Len(y), i < k
      PROVE  y[i].ready <= y[k].ready
  <2>1. /\ f[i] < f[k] /\ f[i] \in 1 .. Len(x) /\ f[k] \in 1 .. Len(x)
        /\ y[i] = x[f[i]] /\ y[k] = x[f[k]]
    BY <1>5, <1>7, <1>9 DEF IsSelection
  <2>2. y[i].ready \in Nat /\ y[k].ready \in Nat /\ y[k].ready >= 1
    BY <1>2, <1>6, <2>1 DEF Later
  <2>3. CASE f[i] <= n
    <3>1. y[i].ready <= 1
      BY <1>1, <1>8, <2>1, <2>3
    <3>2. QED
      BY <2>2, <3>1
  <2>4. CASE f[k] > Len(q)
    <3>1. y[k].ready = Delay[c] /\ y[i].ready <= Delay[c]
      BY <1>1, <1>2, <2>1, <2>4 DEF TickedQueue
    <3>2. QED
      BY <3>1
  <2>5. CASE f[i] > n /\ f[k] <= Len(q)
    <3>1. f[i] \in 1 .. Len(q) /\ f[k] \in 1 .. Len(q) /\ f[k] > n
      BY <1>1, <2>1, <2>5
    <3>2. x[f[i]] = q[f[i]] /\ x[f[k]] = q[f[k]]
      BY <1>1, <1>8, <2>5, <3>1
    <3>3. q[f[i]].ready <= q[f[k]].ready
      BY <2>1, <3>1 DEF Sorted
    <3>4. QED
      BY <2>1, <3>2, <3>3
  <2>6. QED
    BY <1>1, <2>1, <2>3, <2>4, <2>5
<1>10. QED
  BY <1>3, <1>9 DEF Sorted

\* The Tick of a cache.
LEMMA CacheTickEffect ==
  ASSUME NEW s, Typed(s), NEW c \in Caches, NEW victim, Evicts(victim)
  PROVE  Ticked(s, c, CacheTick(s, c, victim))
<1>1. c \in Levels /\ s.queue[c] \in Seq(PacketSet(c))
  BY DEF Levels, Typed, QueuesTyped
<1>2. PICK n : n = Len(Select(s.queue[c], TRUE))
  OBVIOUS
<1>3. PICK first : first = ReadyFirst(s.queue[c])
  OBVIOUS
<1>4. DueFirst(c, s.queue[c], n, first)
  BY <1>1, <1>2, <1>3, ReadyFirstEffect
<1>5. first \in Seq(PacketSet(c))
  BY <1>4 DEF DueFirst
<1>6. PICK start : start = [s EXCEPT !.queue[c] = ReadyFirst(@)]
  OBVIOUS
<1>7. start = WithQueue(s, c, first)
  BY <1>3, <1>6 DEF WithQueue
<1>8. PICK seq : seq = [i \in 1 .. n |-> i]
  OBVIOUS
<1>9. PICK x : x = AllProcessed(start, c, n, victim, seq)
  OBVIOUS
<1>10. PICK r : r = [x EXCEPT !.queue[c] = Select(@, FALSE)]
  OBVIOUS
<1>11. CacheTick(s, c, victim) = r
  <2>1. CacheTick(s, c, victim) =
          [AllProcessed([s EXCEPT !.queue[c] = ReadyFirst(@)], c,
                        Len(Select(s.queue[c], TRUE)), victim,
                        [i \in 1 .. Len(Select(s.queue[c], TRUE)) |-> i])
             EXCEPT !.queue[c] = Select(@, FALSE)]
    BY Zenon DEF CacheTick, AllProcessed
  <2>2. AllProcessed([s EXCEPT !.queue[c] = ReadyFirst(@)], c,
                     Len(Select(s.queue[c], TRUE)), victim,
                     [i \in 1 .. Len(Select(s.queue[c], TRUE)) |-> i]) = x
    BY <1>2, <1>6, <1>8, <1>9, Zenon
  <2>3. QED
    BY <1>10, <2>1, <2>2, Zenon
<1>12. /\ Typed(start) /\ start.store = s.store /\ start.abort = s.abort
       /\ start.mshr = s.mshr /\ start.out = s.out
       /\ \A d \in Levels \ {c} : start.queue[d] = s.queue[d]
       /\ start.queue[c] = first
  BY <1>1, <1>5, <1>7, QueueChange
<1>13. Ticking([c |-> c, from |-> start], n, x)
  BY <1>4, <1>8, <1>9, <1>12, AllProcessedEffect
<1>14. /\ Typed(x) /\ x.store = s.store /\ May(s, x, Failures)
       /\ \A d \in Levels \ {c} : Extended(d, s.queue[d], x.queue[d])
       /\ TickedQueue(c, n, first, x.queue[c])
       /\ Counting(start, c, n, x)
  BY <1>12, <1>13 DEF Ticking, May
<1>15. x.queue[c] \in Seq(PacketSet(c))
  BY <1>1, <1>14 DEF Typed, QueuesTyped
<1>16. PICK y : y = Select(x.queue[c], FALSE)
  OBVIOUS
<1>17. y \in Seq(PacketSet(c)) /\ Later(y)
  <2>1. FALSE \in BOOLEAN
    OBVIOUS
  <2>2. QED
    BY <1>1, <1>15, <1>16, <2>1, SelectOrder
<1>18. Sorted(s.queue[c]) => Sorted(y)
  <2>1. Sorted(s.queue[c]) => Sorted(first)
    BY <1>4 DEF DueFirst
  <2>2. QED
    BY <1>1, <1>4, <1>14, <1>15, <1>16, <2>1, LeftSorted
<1>19. /\ Typed(r) /\ r.store = x.store /\ r.abort = x.abort
       /\ r.mshr = x.mshr /\ r.out = x.out
       /\ \A d \in Levels \ {c} : r.queue[d] = x.queue[d]
       /\ r.queue[c] = y
  <2>1. r = WithQueue(x, c, y)
    BY <1>10, <1>16 DEF WithQueue
  <2>2. Typed(x) /\ y \in Seq(PacketSet(c)) /\ c \in Levels
    BY <1>1, <1>14, <1>17
  <2>3. QED
    BY <2>1, <2>2, QueueChange
<1>20. RequestsKept(s, r)
  <2>1. n \in Nat
    BY <1>4 DEF DueFirst
  <2>2. AllDone(x.queue[c], n)
    BY <1>1, <1>4, <1>14, <1>15, LaterReady
  <2>3. QueueSet(s, c, ReadyFirst(s.queue[c]), start)
    BY <1>3, <1>12 DEF QueueSet
  <2>4. QueueSet(x, c, Select(x.queue[c], FALSE), r)
    BY <1>16, <1>19 DEF QueueSet
  <2>5. QED
    BY <1>12, <1>14, <1>19, <2>1, <2>2, <2>3, <2>4, CountingDone
<1>21. QED
  BY <1>11, <1>14, <1>17, <1>18, <1>19, <1>20 DEF Ticked, May

-------------------------------------------------------------------------------
(* BaseMemory::Tick.                                                         *)

\* How many packets at the front are ready is well defined.
LEMMA DueEffect ==
  ASSUME NEW c \in Levels, NEW q \in Seq(PacketSet(c))
  PROVE  /\ Due(q) \in 0 .. Len(q)
         /\ \A i \in 1 .. Due(q) : Ready(q[i])
         /\ Due(q) = Len(q) \/ ~Ready(q[Due(q) + 1])
<1>1. PICK S : S = {n \in 0 .. Len(q) : n = Len(q) \/ ~Ready(q[n + 1])}
  OBVIOUS
<1>2. Len(q) \in Nat
  OBVIOUS
<1>3. S \in SUBSET Nat /\ Len(q) \in S
  BY <1>1, <1>2
<1>4. S # {}
  BY <1>3
<1>5. PICK n \in S : \A m \in S : n <= m
  BY <1>3, <1>4, L1Fold!Least
<1>6. n \in 0 .. Len(q) /\ (n = Len(q) \/ ~Ready(q[n + 1]))
  BY <1>1, <1>5
<1>7. ASSUME NEW i \in 1 .. n
      PROVE  Ready(q[i])
  <2>1. i - 1 \in 0 .. Len(q) /\ i - 1 \in Nat /\ ~(n <= i - 1) /\ i - 1 # Len(q)
        /\ (i - 1) + 1 = i
    BY <1>2, <1>6
  <2>2. i - 1 \notin S
    BY <1>5, <2>1
  <2>3. QED
    BY <1>1, <2>1, <2>2
<1>8. QED
  <2> DEFINE P(m) == /\ m \in 0 .. Len(q)
                     /\ \A i \in 1 .. m : Ready(q[i])
                     /\ m = Len(q) \/ ~Ready(q[m + 1])
  <2>1. Due(q) = CHOOSE m : P(m)
    BY Zenon DEF Due
  <2>2. P(n)
    BY <1>6, <1>7
  <2>3. P(CHOOSE m : P(m))
    BY <2>2, Zenon
  <2>4. QED
    BY <2>1, <2>3, Zenon

\* The front of a queue that has grown is taken away.
LEMMA TailExtended ==
  ASSUME NEW c \in Levels, NEW q \in Seq(PacketSet(c)), NEW r \in Seq(PacketSet(c)),
         NEW k \in 1 .. Len(q), Extended(c, SubSeq(q, k, Len(q)), r)
  PROVE  /\ r # <<>> /\ Tail(r) \in Seq(PacketSet(c)) /\ Head(r) = q[k]
         /\ Extended(c, SubSeq(q, k + 1, Len(q)), Tail(r))
<1>1. PICK a : a = SubSeq(q, k, Len(q))
  OBVIOUS
<1>2. PICK b : b = SubSeq(q, k + 1, Len(q))
  OBVIOUS
<1>3. Len(q) \in Nat /\ Len(r) \in Nat /\ k \in Nat
  OBVIOUS
<1>4. /\ Len(a) = (Len(q) - k) + 1
      /\ \A i \in 1 .. Len(a) : a[i] = q[(k + i) - 1]
  BY <1>1, <1>3
<1>5. /\ Len(b) = Len(q) - k
      /\ \A i \in 1 .. Len(b) : b[i] = q[k + i]
  BY <1>2, <1>3
<1>6. Len(a) <= Len(r) /\ \A i \in 1 .. Len(a) : r[i] = a[i]
  BY <1>1 DEF Extended
<1>7. Len(r) >= 1
  BY <1>3, <1>4, <1>6
<1>8. PICK t : t = Tail(r)
  OBVIOUS
<1>9. /\ r # <<>> /\ t \in Seq(PacketSet(c)) /\ Head(r) = r[1] /\ Len(t) = Len(r) - 1
      /\ \A i \in 1 .. Len(t) : t[i] = r[i + 1]
  BY <1>3, <1>7, <1>8
<1>10. Head(r) = q[k]
  <2>1. 1 \in 1 .. Len(a) /\ (k + 1) - 1 = k
    BY <1>3, <1>4
  <2>2. QED
    BY <1>4, <1>6, <1>9, <2>1
<1>11. ASSUME NEW i \in 1 .. Len(b)
       PROVE  t[i] = b[i]
  <2>1. i + 1 \in 1 .. Len(a) /\ i \in 1 .. Len(t) /\ (k + (i + 1)) - 1 = k + i
    BY <1>3, <1>4, <1>5, <1>6, <1>9
  <2>2. t[i] = r[i + 1] /\ r[i + 1] = a[i + 1]
    BY <1>6, <1>9, <2>1
  <2>3. a[i + 1] = q[k + i]
    BY <1>4, <2>1
  <2>4. QED
    BY <1>5, <2>2, <2>3
<1>12. ASSUME NEW i \in (Len(b) + 1) .. Len(t)
       PROVE  t[i].ready = Delay[c]
  <2>1. i + 1 \in (Len(a) + 1) .. Len(r) /\ i \in 1 .. Len(t)
    BY <1>3, <1>4, <1>5, <1>9
  <2>2. QED
    BY <1>1, <1>9, <2>1 DEF Extended
<1>13. Len(b) <= Len(t)
  BY <1>3, <1>4, <1>5, <1>6, <1>9
<1>14. Extended(c, b, t)
  BY <1>11, <1>12, <1>13 DEF Extended
<1>15. QED
  BY <1>2, <1>8, <1>9, <1>10, <1>14

\* Write-backs are packets.
LEMMA GrownExtended ==
  ASSUME NEW c \in Levels, NEW q, NEW r, Grown(c, q, r)
  PROVE  Extended(c, q, r)
  BY DEF Grown, Extended

\* What serving the front packet of memory does.
MemServed(s, r) ==
  /\ Settles(s, r) /\ Typed(r) /\ May(s, r, Failures)
  /\ \A d \in {"L1I", "L1D"} : r.queue[d] = s.queue[d]
  /\ Extended("L2", s.queue["L2"], r.queue["L2"])
  /\ Extended("Mem", Tail(s.queue["Mem"]), r.queue["Mem"])

\* Memory writes a block, or answers the L2 with one.
LEMMA ServeMemEffect ==
  ASSUME NEW s, Typed(s), s.queue["Mem"] # <<>>, NEW p, p = Head(s.queue["Mem"]),
         NEW victim, Evicts(victim)
  PROVE  MemServed(s, ServeMem(s, p, victim))
<1>1. "Mem" \in Levels /\ "L2" \in Levels /\ {"L1I", "L1D"} \subseteq Levels
      /\ "L2" # "Mem" /\ "Mem" \notin {"L1I", "L1D"} /\ "L2" \in Levels \ {"Mem"}
      /\ {"L1I", "L1D"} \subseteq Levels \ {"Mem"}
  BY DEF Levels, Caches
<1>2. \A d \in Levels : s.queue[d] \in Seq(PacketSet(d)) /\ Len(s.queue[d]) \in Nat
  BY DEF Typed, QueuesTyped
<1>3. s.queue["Mem"] \in Seq(PacketSet("Mem"))
  BY <1>1, <1>2
<1>4. p \in PacketSet("Mem") /\ Tail(s.queue["Mem"]) \in Seq(PacketSet("Mem"))
  BY <1>3
<1>5. PICK q : q = Tail(s.queue["Mem"])
  OBVIOUS
<1>6. q \in Seq(PacketSet("Mem")) /\ Len(q) \in Nat
  BY <1>4, <1>5
<1>7. PICK x : x = [s EXCEPT !.queue["Mem"] = Tail(@)]
  OBVIOUS
<1>8. x = WithQueue(s, "Mem", q)
  BY <1>5, <1>7 DEF WithQueue
<1>9. /\ Typed(x) /\ x.store = s.store /\ x.abort = s.abort
      /\ x.mshr = s.mshr /\ x.out = s.out
      /\ \A d \in Levels \ {"Mem"} : x.queue[d] = s.queue[d]
      /\ x.queue["Mem"] = q
  BY <1>1, <1>6, <1>8, QueueChange
<1>10. /\ p.addr \in Addresses /\ BlockAddress(p.addr) = p.addr
       /\ p.type = "writeback" => p.data \in [Offsets -> Values]
  BY <1>1, <1>4, PacketFacts
<1>11. Extended("Mem", q, q) /\ Extended("L2", s.queue["L2"], s.queue["L2"])
  BY <1>1, <1>2, <1>6 DEF Extended
<1>12. CASE IsWrite(p)
  <2>1. p.data \in [Offsets -> Values]
    <3>1. p.type # "store"
      BY <1>4 DEF PacketSet, Reads, WriteBacksOf
    <3>2. QED
      BY <1>10, <1>12, <3>1 DEF IsWrite
  <2>2. PICK words : words = {p.addr + o : o \in Offsets}
    OBVIOUS
  <2>3. PICK new : new = [a \in Addresses |->
                            IF a \in words THEN p.data[a - p.addr] ELSE s.store[a]]
    OBVIOUS
  <2>4. new \in [Addresses -> Values]
    <3>1. ASSUME NEW a \in Addresses
          PROVE  new[a] \in Values
      <4>1. CASE a \in words
        <5>1. PICK o \in Offsets : a = p.addr + o
          BY <2>2, <4>1
        <5>2. a - p.addr = o
          <6>1. p.addr \in Nat /\ o \in Nat
            <7>1. p.addr \in Nat
              BY <1>10, AddressParts
            <7>2. o \in 0 .. (BlkSize - 1) /\ BlkSize \in Nat
              BY Geometry DEF Offsets
            <7>3. QED
              BY <7>1, <7>2
          <6>2. QED
            BY <5>1, <6>1
        <5>3. QED
          BY <2>1, <2>3, <4>1, <5>2
      <4>2. CASE a \notin words
        BY <2>3, <4>2 DEF Typed
      <4>3. QED
        BY <4>1, <4>2
    <3>2. QED
      BY <2>3, <3>1
  <2>5. PICK r : r = [x EXCEPT !.store = new]
    OBVIOUS
  <2>6. ServeMem(s, p, victim) = r
    <3>1. ServeMem(s, p, victim) =
            [x EXCEPT !.store = [a \in Addresses |->
                                   IF a \in words THEN p.data[a - p.addr] ELSE @[a]]]
      BY <1>7, <1>12, <2>2 DEF ServeMem
    <3>2. QED
      BY <1>9, <2>3, <2>5, <3>1
  <2>7. /\ Typed(r) /\ r.queue = x.queue /\ r.abort = x.abort
        /\ r.mshr = x.mshr /\ r.out = x.out
    BY <1>9, <2>4, <2>5 DEF Typed
  <2>8. Settles(s, r)
    BY <1>9, <2>7, SettlesSame
  <2>9. QED
    BY <1>1, <1>5, <1>9, <1>11, <2>6, <2>7, <2>8 DEF MemServed, May
<1>13. CASE ~IsWrite(p)
  <2>1. PICK data : data = [o \in Offsets |-> s.store[p.addr + o]]
    OBVIOUS
  <2>2. data \in [Offsets -> Values]
    <3>1. BlockOf(p.addr) \in Blocks /\ p.addr = BlockOf(p.addr) * BlkSize
      BY <1>10, AddressParts
    <3>2. \A o \in Offsets : p.addr + o \in Addresses
      BY <3>1, BlockAddresses
    <3>3. \A o \in Offsets : s.store[p.addr + o] \in Values
      BY <3>2 DEF Typed
    <3>4. QED
      BY <2>1, <3>3
  <2>3. PICK r : r = FillL2(x, p.addr, data, victim)
    OBVIOUS
  <2>4. ServeMem(s, p, victim) = r
    BY <1>7, <1>13, <2>1, <2>3 DEF ServeMem
  <2>5. L2Filled(x, r)
    BY <1>9, <1>10, <2>2, <2>3, FillL2Effect
  <2>6. /\ Typed(r) /\ May(x, r, Failures)
        /\ \A d \in {"L1I", "L1D"} : r.queue[d] = x.queue[d]
        /\ Extended("L2", x.queue["L2"], r.queue["L2"])
        /\ Extended("Mem", x.queue["Mem"], r.queue["Mem"])
        /\ Settles(x, r)
    BY <1>1, <2>5, GrownExtended DEF L2Filled
  <2>7. Settles(s, r)
    <3>1. Settles(s, x)
      BY <1>9, SettlesSame
    <3>2. QED
      BY <2>6, <3>1, SettlesTwice
  <2>8. QED
    BY <1>1, <1>5, <1>9, <2>4, <2>6, <2>7 DEF MemServed, May
<1>14. QED
  BY <1>12, <1>13

\* While the first packets of memory's queue are served: k of them have been.
MemTicking(ctx, k, x) ==
  LET from == ctx.from
      q == from.queue["Mem"]
  IN /\ Settles(from, x) /\ Typed(x) /\ May(from, x, Failures)
     /\ \A d \in {"L1I", "L1D"} : x.queue[d] = from.queue[d]
     /\ Extended("L2", from.queue["L2"], x.queue["L2"])
     /\ Extended("Mem", SubSeq(q, k + 1, Len(q)), x.queue["Mem"])

\* The loop of BaseMemory::Tick.
MemFold == INSTANCE FoldInduction WITH
             op <- LAMBDA victim, unused1, unused2, x, p : ServeMem(x, p, victim),
             J <- MemTicking

\* One packet more is served.
LEMMA MemTickStep ==
  ASSUME NEW from, Typed(from), NEW ctx, ctx.from = from, NEW victim, Evicts(victim),
         NEW q, q = from.queue["Mem"], NEW k \in 1 .. Len(q),
         NEW x, MemTicking(ctx, k - 1, x)
  PROVE  MemTicking(ctx, k, ServeMem(x, q[k], victim))
<1>1. "Mem" \in Levels /\ "L2" \in Levels
  BY DEF Levels, Caches
<1>2. q \in Seq(PacketSet("Mem")) /\ Len(q) \in Nat
  BY <1>1 DEF Typed, QueuesTyped
<1>3. (k - 1) + 1 = k
  BY <1>2
<1>4. /\ Settles(from, x) /\ Typed(x) /\ May(from, x, Failures)
      /\ \A d \in {"L1I", "L1D"} : x.queue[d] = from.queue[d]
      /\ Extended("L2", from.queue["L2"], x.queue["L2"])
      /\ Extended("Mem", SubSeq(q, k, Len(q)), x.queue["Mem"])
  BY <1>3 DEF MemTicking
<1>5. /\ x.queue["Mem"] \in Seq(PacketSet("Mem"))
      /\ x.queue["L2"] \in Seq(PacketSet("L2"))
      /\ from.queue["L2"] \in Seq(PacketSet("L2"))
  BY <1>1, <1>4 DEF Typed, QueuesTyped
<1>6. /\ x.queue["Mem"] # <<>> /\ Head(x.queue["Mem"]) = q[k]
      /\ Tail(x.queue["Mem"]) \in Seq(PacketSet("Mem"))
      /\ Extended("Mem", SubSeq(q, k + 1, Len(q)), Tail(x.queue["Mem"]))
  BY <1>1, <1>2, <1>4, <1>5, TailExtended
<1>7. PICK r : r = ServeMem(x, q[k], victim)
  OBVIOUS
<1>8. MemServed(x, r)
  BY <1>4, <1>6, <1>7, ServeMemEffect
<1>9. /\ Settles(x, r) /\ Typed(r) /\ May(x, r, Failures)
      /\ \A d \in {"L1I", "L1D"} : r.queue[d] = x.queue[d]
      /\ Extended("L2", x.queue["L2"], r.queue["L2"])
      /\ Extended("Mem", Tail(x.queue["Mem"]), r.queue["Mem"])
  BY <1>8 DEF MemServed
<1>10. /\ r.queue["Mem"] \in Seq(PacketSet("Mem"))
       /\ r.queue["L2"] \in Seq(PacketSet("L2"))
  BY <1>1, <1>9 DEF Typed, QueuesTyped
<1>11. Extended("L2", from.queue["L2"], r.queue["L2"])
  BY <1>1, <1>4, <1>5, <1>9, <1>10, ExtendedTwice
<1>12. SubSeq(q, k + 1, Len(q)) \in Seq(PacketSet("Mem"))
  BY <1>2
<1>13. Extended("Mem", SubSeq(q, k + 1, Len(q)), r.queue["Mem"])
  <2>1. PICK rest : rest = SubSeq(q, k + 1, Len(q))
    OBVIOUS
  <2>2. PICK tail : tail = Tail(x.queue["Mem"])
    OBVIOUS
  <2>3. /\ rest \in Seq(PacketSet("Mem")) /\ tail \in Seq(PacketSet("Mem"))
        /\ Extended("Mem", rest, tail) /\ Extended("Mem", tail, r.queue["Mem"])
    BY <1>6, <1>9, <1>12, <2>1, <2>2
  <2>4. Extended("Mem", rest, r.queue["Mem"])
    BY <1>1, <1>10, <2>3, ExtendedTwice
  <2>5. QED
    BY <2>1, <2>4
<1>14. May(from, r, Failures)
  BY <1>4, <1>9 DEF May
<1>15. Settles(from, r)
  BY <1>4, <1>9, SettlesTwice
<1>16. MemTicking(ctx, k, r)
  BY <1>4, <1>9, <1>11, <1>13, <1>14, <1>15 DEF MemTicking
<1>17. QED
  BY <1>7, <1>16

\* What memory's Tick does.
MemTicked(s, r) ==
  /\ Settles(s, r) /\ Typed(r) /\ May(s, r, Failures)
  /\ \A d \in {"L1I", "L1D"} : r.queue[d] = s.queue[d]
  /\ Extended("L2", s.queue["L2"], r.queue["L2"])
  /\ Sorted(s.queue["Mem"]) => Sorted(r.queue["Mem"]) /\ Later(r.queue["Mem"])

\* The loop of BaseMemory::Tick.
AllServedMem(s, victim, q) == FoldLeft(LAMBDA st, p : ServeMem(st, p, victim), s, q)

\* The packets after those due are sorted and later.
LEMMA AfterDue ==
  ASSUME NEW c \in Levels, NEW q \in Seq(PacketSet(c)), Sorted(q), NEW n, n = Due(q)
  PROVE  /\ Sorted(SubSeq(q, n + 1, Len(q))) /\ Later(SubSeq(q, n + 1, Len(q)))
<1>1. /\ n \in 0 .. Len(q) /\ Len(q) \in Nat
      /\ n = Len(q) \/ ~Ready(q[n + 1])
  BY DueEffect
<1>2. PICK a : a = SubSeq(q, n + 1, Len(q))
  OBVIOUS
<1>3. /\ Len(a) = Len(q) - n /\ \A i \in 1 .. Len(a) : a[i] = q[n + i] /\ n + i \in 1 .. Len(q)
  BY <1>1, <1>2, SMTT(60)
<1>4. Sorted(a)
  <2>1. ASSUME NEW i \in 1 .. Len(a), NEW k \in 1 .. Len(a), i < k
        PROVE  a[i].ready <= a[k].ready
    <3>1. n + i \in 1 .. Len(q) /\ n + k \in 1 .. Len(q) /\ n + i < n + k
      BY <1>1, <1>3, <2>1
    <3>2. q[n + i].ready <= q[n + k].ready
      BY <3>1 DEF Sorted
    <3>3. QED
      BY <1>3, <3>2
  <2>2. QED
    BY <2>1 DEF Sorted
<1>5. ASSUME NEW i \in 1 .. Len(a)
      PROVE  a[i].ready >= 1
  <2>1. n + 1 \in 1 .. Len(q) /\ n # Len(q) /\ 1 \in 1 .. Len(a)
    BY <1>1, <1>3
  <2>2. q[n + 1].ready \in Nat /\ q[n + 1].ready # 0
    BY <1>1, <2>1, ReadyTimes
  <2>3. q[n + i].ready \in Nat /\ n + i \in 1 .. Len(q)
    BY <1>3, ReadyTimes
  <2>4. q[n + 1].ready <= q[n + i].ready
    <3>1. CASE i = 1
      BY <2>2, <3>1
    <3>2. CASE i # 1
      BY <1>1, <1>3, <2>1, <2>3, <3>2 DEF Sorted
    <3>3. QED
      BY <3>1, <3>2
  <2>5. QED
    BY <1>3, <2>2, <2>3, <2>4
<1>6. QED
  BY <1>2, <1>4, <1>5 DEF Later

\* The Tick of memory.
LEMMA MemTickEffect ==
  ASSUME NEW s, Typed(s), NEW victim, Evicts(victim)
  PROVE  MemTicked(s, MemTick(s, victim))
<1>1. "Mem" \in Levels /\ "L2" \in Levels
  BY DEF Levels, Caches
<1>2. PICK q : q = s.queue["Mem"]
  OBVIOUS
<1>3. q \in Seq(PacketSet("Mem")) /\ Len(q) \in Nat
  BY <1>1, <1>2 DEF Typed, QueuesTyped
<1>4. s.queue["L2"] \in Seq(PacketSet("L2"))
  BY <1>1 DEF Typed, QueuesTyped
<1>5. PICK n : n = Due(q)
  OBVIOUS
<1>6. n \in 0 .. Len(q)
  BY <1>1, <1>3, <1>5, DueEffect
<1>7. PICK seq : seq = SubSeq(q, 1, n)
  OBVIOUS
<1>8. Len(seq) = n /\ \A k \in 1 .. n : seq[k] = q[k] /\ k \in 1 .. Len(q)
  BY <1>3, <1>6, <1>7
<1>9. PICK ctx : ctx = [from |-> s]
  OBVIOUS
<1>10. ctx.from = s
  BY <1>9
<1>11. MemTicking(ctx, 0, s)
  <2>1. SubSeq(q, 0 + 1, Len(q)) = q
    BY <1>3
  <2>2. Extended("L2", s.queue["L2"], s.queue["L2"])
    BY <1>4 DEF Extended
  <2>3. Extended("Mem", q, q)
    BY <1>3 DEF Extended
  <2>4. Settles(s, s)
    BY SettlesSame
  <2>5. QED
    BY <1>2, <1>10, <2>1, <2>2, <2>3, <2>4 DEF MemTicking, May
<1>12. \A k \in 1 .. Len(seq) : \A x :
         MemTicking(ctx, k - 1, x) => MemTicking(ctx, k, ServeMem(x, seq[k], victim))
  <2> TAKE k \in 1 .. Len(seq)
  <2> TAKE x
  <2> HAVE MemTicking(ctx, k - 1, x)
  <2>1. k \in 1 .. Len(q) /\ seq[k] = q[k]
    BY <1>8
  <2>2. MemTicking(ctx, k, ServeMem(x, q[k], victim))
    BY <1>2, <1>10, <2>1, MemTickStep
  <2>3. QED
    BY <2>1, <2>2
<1>13. PICK r : r = MemFold!Fold(victim, 0, 0, s, seq)
  OBVIOUS
<1>14. r = AllServedMem(s, victim, seq)
  BY <1>13, Zenon DEF AllServedMem, MemFold!Fold, FoldLeft, MapThenFoldSet, Max,
                      MemFold!FoldLeft, MemFold!MapThenFoldSet, MemFold!Max
<1>15. MemTicking(ctx, Len(seq), r)
  <2>1. seq \in Seq(PacketSet("Mem"))
    BY <1>3, <1>6, <1>7
  <2>2. QED
    BY <1>11, <1>12, <1>13, <2>1, MemFold!FoldInvariant
<1>16. MemTick(s, victim) = r
  <2>1. MemTick(s, victim) =
          AllServedMem(s, victim, SubSeq(s.queue["Mem"], 1, Due(s.queue["Mem"])))
    BY Zenon DEF MemTick, AllServedMem
  <2>2. QED
    BY <1>2, <1>5, <1>7, <1>14, <2>1, Zenon
<1>17. /\ Settles(s, r) /\ Typed(r) /\ May(s, r, Failures)
       /\ \A d \in {"L1I", "L1D"} : r.queue[d] = s.queue[d]
       /\ Extended("L2", s.queue["L2"], r.queue["L2"])
       /\ Extended("Mem", SubSeq(q, n + 1, Len(q)), r.queue["Mem"])
  BY <1>2, <1>8, <1>10, <1>15 DEF MemTicking
<1>18. ASSUME Sorted(q)
       PROVE  Sorted(r.queue["Mem"]) /\ Later(r.queue["Mem"])
  <2>1. Sorted(SubSeq(q, n + 1, Len(q))) /\ Later(SubSeq(q, n + 1, Len(q)))
    BY <1>1, <1>3, <1>5, <1>18, AfterDue
  <2>2. /\ r.queue["Mem"] \in Seq(PacketSet("Mem"))
        /\ SubSeq(q, n + 1, Len(q)) \in Seq(PacketSet("Mem"))
    BY <1>1, <1>3, <1>6, <1>17 DEF Typed, QueuesTyped
  <2>3. QED
    BY <1>1, <1>17, <2>1, <2>2, ExtendedOrder
<1>19. QED
  BY <1>2, <1>16, <1>17, <1>18 DEF MemTicked
===============================================================================
