----------------------------- MODULE MemInclusion ------------------------------
(***************************************************************************)
(* Until two misses of a cache's overlap, an L2 that evicts nothing has    *)
(* every line that a level 1 cache has or writes back.  So no write-back   *)
(* ever waits in it, and none is refused.                                  *)
(***************************************************************************)
EXTENDS MemCoherence

-------------------------------------------------------------------------------
(* What is included, and the order of the L2's packets.                      *)

\* The L2 has the lines of the level 1 caches, and those that the L1D has sent back.
L1Held(s) ==
  \A c \in {"L1I", "L1D"}, a \in Lines :
    Holding(s, c, a) # {} => Holding(s, "L2", a) # {}
BacksHeld(s) ==
  \A i \in 1 .. Len(s.queue["L2"]) :
    s.queue["L2"][i].type = "writeback" => Holding(s, "L2", s.queue["L2"][i].addr) # {}

\* So only reads wait in its entry.
ReadsWait(s) ==
  \A i \in 1 .. Len(s.mshr["L2"][1].sub) : ~IsWrite(s.mshr["L2"][1].sub[i])

Included(s) == L1Held(s) /\ BacksHeld(s) /\ ReadsWait(s)

\* A queue of which k packets are done with has no packet of a kind left.
Without(q, k, kind) == \A i \in LivePlaces(q, k) : q[i].type # kind

\* The L1D sends a write-back back only once the one before has arrived, and asks
\* for a line after it: so at most one is left, ahead of the L1D's load.
InTurn(q, k) ==
  \A i, j \in LivePlaces(q, k) :
    q[i].type = "writeback" /\ q[j].type \in {"writeback", "load"} => i <= j
Turns(s, k) ==
  /\ InTurn(s.queue["L2"], k)
  /\ \/ Without(s.queue["L2"], k, "writeback")
     \/ Without(s.mshr["L2"][1].sub, 0, "load")

\* So it is until the program aborts, and not because of a write-back.
Safe(s, k) ==
  /\ s.abort \notin {"writeanswer", "refused"}
  /\ s.abort = "none" => Included(s) /\ Turns(s, k)

\* While the L1D waits for a line, the L2 has room for the one it may evict.
Room(s) ==
  Len(s.queue["L2"]) + OneIf(s.mshr["L1D"][1].sub # <<>>) <= QueueCap["L2"]
SafeRoom(s, k) == Safe(s, k) /\ (s.abort = "none" => Room(s))

-------------------------------------------------------------------------------
(* The order of the packets, when a queue changes.                           *)

\* One place more, the last.
OnePlaceMore(q, k, p, r, n) ==
  /\ n \in Nat /\ n = Len(q) + 1 /\ Len(r) = n /\ r[n] = p
  /\ LivePlaces(r, k) = LivePlaces(q, k) \cup {n}
  /\ \A i \in LivePlaces(q, k) : r[i] = q[i] /\ i \in Nat /\ i < n

\* A packet is put last.
LEMMA PlacesLast ==
  ASSUME NEW S, NEW q \in Seq(S), NEW p \in S, NEW k \in Nat, k = 0 \/ k <= Len(q),
         k = 0 \/ ~Ready(p), NEW r, r = Append(q, p)
  PROVE  OnePlaceMore(q, k, p, r, Len(q) + 1)
<1>1. /\ Len(q) \in Nat /\ Len(r) = Len(q) + 1 /\ r[Len(q) + 1] = p
      /\ \A i \in 1 .. Len(q) : r[i] = q[i]
  OBVIOUS
<1>2. \A i \in 1 .. Len(r) : i \in 1 .. Len(q) \/ i = Len(q) + 1
  BY <1>1
<1>3. 1 .. Len(q) \subseteq 1 .. Len(r) /\ Len(q) + 1 \in 1 .. Len(r)
  BY <1>1
<1>4. Len(q) + 1 > k \/ ~Ready(r[Len(q) + 1])
  BY <1>1
<1>5. LivePlaces(r, k) = LivePlaces(q, k) \cup {Len(q) + 1}
  BY <1>1, <1>2, <1>3, <1>4 DEF LivePlaces
<1>6. \A i \in LivePlaces(q, k) : i \in 1 .. Len(q)
  BY DEF LivePlaces
<1>7. \A i \in LivePlaces(q, k) : r[i] = q[i] /\ i \in Nat /\ i < Len(q) + 1
  BY <1>1, <1>6
<1>8. PICK n : n = Len(q) + 1
  OBVIOUS
<1>9. n \in Nat /\ Len(r) = n /\ r[n] = p
  BY <1>1, <1>8
<1>10. LivePlaces(r, k) = LivePlaces(q, k) \cup {n}
  BY <1>5, <1>8, Zenon
<1>11. \A i \in LivePlaces(q, k) : r[i] = q[i] /\ i \in Nat /\ i < n
  BY <1>7, <1>8, Zenon
<1>12. OnePlaceMore(q, k, p, r, n)
  BY <1>8, <1>9, <1>10, <1>11, Zenon DEF OnePlaceMore
<1>13. QED
  BY <1>8, <1>12, Zenon

\* A write-back, once none is left nor a load.
LEMMA BackInTurn ==
  ASSUME NEW S, NEW q \in Seq(S), NEW p \in S, NEW k \in Nat, k = 0 \/ k <= Len(q),
         k = 0 \/ ~Ready(p), NEW r, r = Append(q, p),
         Without(q, k, "writeback"), Without(r, k, "load")
  PROVE  InTurn(r, k)
<1>1. PICK n : n = Len(q) + 1
  OBVIOUS
<1>2. OnePlaceMore(q, k, p, r, n)
  BY <1>1, PlacesLast
<1>3. \A i \in LivePlaces(r, k) : r[i].type = "writeback" => i = n /\ n \in Nat
  BY <1>2 DEF Without, OnePlaceMore
<1>4. ASSUME NEW i \in LivePlaces(r, k), NEW j \in LivePlaces(r, k),
             r[i].type = "writeback", r[j].type \in {"writeback", "load"}
      PROVE  i <= j
  <2>1. r[j].type = "writeback"
    BY <1>4 DEF Without
  <2>2. i = n /\ j = n /\ n \in Nat
    BY <1>3, <1>4, <2>1
  <2>3. QED
    BY <2>2
<1>5. QED
  BY <1>4 DEF InTurn

\* A read.
LEMMA ReadInTurn ==
  ASSUME NEW S, NEW q \in Seq(S), NEW p \in S, NEW r, r = Append(q, p),
         p.type # "writeback", InTurn(q, 0)
  PROVE  /\ InTurn(r, 0)
         /\ Without(q, 0, "writeback") => Without(r, 0, "writeback")
<1>1. PICK n : n = Len(q) + 1
  OBVIOUS
<1>2. OnePlaceMore(q, 0, p, r, n)
  BY <1>1, PlacesLast
<1>3. ASSUME NEW i \in LivePlaces(r, 0), NEW j \in LivePlaces(r, 0),
             r[i].type = "writeback", r[j].type \in {"writeback", "load"}
      PROVE  i <= j
  <2>1. i \in LivePlaces(q, 0) /\ q[i].type = "writeback" /\ i \in Nat /\ i < n /\ n \in Nat
    BY <1>2, <1>3 DEF OnePlaceMore
  <2>2. CASE j = n
    BY <2>1, <2>2
  <2>3. CASE j # n
    <3>1. j \in LivePlaces(q, 0) /\ q[j].type \in {"writeback", "load"}
      BY <1>2, <1>3, <2>3 DEF OnePlaceMore
    <3>2. QED
      BY <2>1, <3>1 DEF InTurn
  <2>4. QED
    BY <2>2, <2>3
<1>4. QED
  BY <1>2, <1>3 DEF InTurn, Without, OnePlaceMore

\* The k-th packet is done with, or is put off.
LEMMA InTurnPassed ==
  ASSUME NEW S, NEW q \in Seq(S), NEW k \in 1 .. Len(q)
  PROVE  /\ LivePlaces(q, k) \subseteq LivePlaces(q, k - 1)
         /\ InTurn(q, k - 1) => InTurn(q, k)
         /\ \A kind : Without(q, k - 1, kind) => Without(q, k, kind)
<1>1. LivePlaces(q, k) \subseteq LivePlaces(q, k - 1)
  BY DEF LivePlaces
<1>2. QED
  BY <1>1 DEF InTurn, Without

\* The places that are left are the same, and the packets in them.
SamePlaces(q, j, r, k) ==
  /\ LivePlaces(r, k) = LivePlaces(q, j)
  /\ \A i \in LivePlaces(q, j) : r[i].type = q[i].type

\* So is their order.
LEMMA InTurnSame ==
  ASSUME NEW q, NEW j, NEW r, NEW k, SamePlaces(q, j, r, k)
  PROVE  /\ InTurn(q, j) => InTurn(r, k)
         /\ \A kind : Without(q, j, kind) => Without(r, k, kind)
  BY DEF SamePlaces, InTurn, Without

\* A pass over a queue keeps it.
LEMMA InTurnRearranged ==
  ASSUME NEW q, NEW j, NEW r, Rearranges(q, j, r), LivePlaces(q, j) \subseteq Nat
  PROVE  /\ InTurn(q, j) => InTurn(r, 0)
         /\ \A kind : Without(q, j, kind) => Without(r, 0, kind)
<1>1. PICK f : /\ Embeds(q, j, r, 0, f)
               /\ \A i, l \in LivePlaces(r, 0) : f[i] = f[l] => i = l
  BY DEF Rearranges
<1>2. /\ \A i \in LivePlaces(r, 0) : f[i] \in LivePlaces(q, j) /\ r[i].type = q[f[i]].type
      /\ \A i, l \in LivePlaces(r, 0) : f[i] < f[l] => i < l
  BY <1>1 DEF Embeds, SamePacket
<1>3. ASSUME InTurn(q, j), NEW i \in LivePlaces(r, 0), NEW l \in LivePlaces(r, 0),
             r[i].type = "writeback", r[l].type \in {"writeback", "load"}
      PROVE  i <= l
  <2>1. f[i] <= f[l] /\ f[i] \in Nat /\ f[l] \in Nat
    BY <1>2, <1>3 DEF InTurn
  <2>2. f[i] < f[l] \/ f[i] = f[l]
    BY <2>1
  <2>3. i < l \/ i = l
    BY <1>1, <1>2, <2>2
  <2>4. i \in Nat /\ l \in Nat
    BY DEF LivePlaces
  <2>5. QED
    BY <2>3, <2>4
<1>4. QED
  BY <1>2, <1>3 DEF InTurn, Without

-------------------------------------------------------------------------------
(* What is in the L2.                                                        *)

\* The L2's packets.
LEMMA PacketsBelow ==
  ASSUME NEW s, Typed(s)
  PROVE  /\ s.queue["L2"] \in Seq(PacketSet("L2"))
         /\ s.mshr["L2"][1].sub \in Seq(PacketSet("L2"))
         /\ \A p \in PacketSet("L2") : /\ p.addr \in Lines
                                       /\ p.type \in {"fetch", "load", "writeback"}
                                       /\ IsWrite(p) <=> p.type = "writeback"
<1>1. "L2" \in Levels /\ "L2" \in Caches
  BY DEF Levels, Caches
<1>2. 1 \in 1 .. MshrEntries["L2"]
  BY <1>1, Geometry
<1>3. s.queue["L2"] \in Seq(PacketSet("L2"))
  BY <1>1 DEF Typed, QueuesTyped
<1>4. s.mshr["L2"][1].sub \in Seq(PacketSet("L2"))
  BY <1>1, <1>2, SubTyped
<1>5. ASSUME NEW p \in PacketSet("L2")
      PROVE  /\ p.addr \in Lines /\ p.type \in {"fetch", "load", "writeback"}
             /\ IsWrite(p) <=> p.type = "writeback"
  <2>1. p.addr \in Addresses /\ BlockAddress(p.addr) = p.addr
    BY <1>1, PacketFacts
  <2>2. p.addr \in Lines
    BY <2>1, LineOf
  <2>3. p.type \in {"fetch", "load", "writeback"}
    BY DEF PacketSet, Reads, WriteBacksOf
  <2>4. QED
    BY <2>2, <2>3 DEF IsWrite
<1>6. QED
  BY <1>3, <1>4, <1>5

\* A level 1 cache that waits for nothing has no read there.
LEMMA NoReads ==
  ASSUME NEW s, Typed(s), NEW k, HalfExact(s, k), NEW c \in {"L1I", "L1D"},
         s.mshr[c][1].sub = <<>>
  PROVE  /\ Without(s.queue["L2"], k, KindOf(c))
         /\ Without(s.mshr["L2"][1].sub, 0, KindOf(c))
<1>1. PICK q \in Seq(PacketSet("L2")) : q = s.queue["L2"]
  BY PacketsBelow
<1>2. PICK sub \in Seq(PacketSet("L2")) : sub = s.mshr["L2"][1].sub
  BY PacketsBelow
<1>3. \A a \in Lines : ~Awaits(s, c, a)
  BY DEF Awaits
<1>4. \A a \in Lines : LiveAt(q, k, KindOf(c), a) = {} /\ LiveAt(sub, 0, KindOf(c), a) = {}
  BY <1>1, <1>2, <1>3, ReadAwaited
<1>5. ASSUME NEW i \in LivePlaces(q, k), q[i].type = KindOf(c)
      PROVE  FALSE
  <2>1. i \in 1 .. Len(q) /\ q[i].addr \in Lines
    BY PacketsBelow DEF LivePlaces
  <2>2. i \in LiveAt(q, k, KindOf(c), q[i].addr)
    BY <1>5 DEF LivePlaces, LiveAt, Is
  <2>3. QED
    BY <1>4, <2>1, <2>2
<1>6. ASSUME NEW i \in LivePlaces(sub, 0), sub[i].type = KindOf(c)
      PROVE  FALSE
  <2>1. i \in 1 .. Len(sub) /\ sub[i].addr \in Lines
    BY PacketsBelow DEF LivePlaces
  <2>2. i \in LiveAt(sub, 0, KindOf(c), sub[i].addr)
    BY <1>6 DEF LivePlaces, LiveAt, Is
  <2>3. QED
    BY <1>4, <2>1, <2>2
<1>7. QED
  BY <1>1, <1>2, <1>5, <1>6 DEF Without

\* It has one there at most.
LEMMA OneRead ==
  ASSUME NEW s, Typed(s), NEW k, HalfExact(s, k), NEW c \in {"L1I", "L1D"},
         NEW q, q = s.queue["L2"],
         NEW i \in LivePlaces(q, k), NEW j \in LivePlaces(q, k),
         q[i].type = KindOf(c), q[j].type = KindOf(c)
  PROVE  i = j
<1>1. q \in Seq(PacketSet("L2")) /\ i \in 1 .. Len(q) /\ j \in 1 .. Len(q)
  BY PacketsBelow DEF LivePlaces
<1>2. q[i].addr \in Lines /\ q[j].addr \in Lines
  BY <1>1, PacketsBelow
<1>3. i \in LiveAt(q, k, KindOf(c), q[i].addr) /\ j \in LiveAt(q, k, KindOf(c), q[j].addr)
  BY DEF LivePlaces, LiveAt, Is
<1>4. Awaits(s, c, q[i].addr) /\ Awaits(s, c, q[j].addr)
  <2>1. LiveAt(q, k, KindOf(c), q[i].addr) # {} /\ LiveAt(q, k, KindOf(c), q[j].addr) # {}
    BY <1>3
  <2>2. QED
    BY <1>2, <2>1, ReadAwaited
<1>5. PICK a \in Lines : a = q[i].addr
  BY <1>2
<1>6. a = q[j].addr
  BY <1>4, <1>5 DEF Awaits
<1>7. PICK T : T = LiveAt(q, k, KindOf(c), a)
  OBVIOUS
<1>8. IsFiniteSet(T) /\ Cardinality(T) \in Nat
  BY <1>1, <1>7, LiveType DEF Live
<1>9. Cardinality(T) <= 1
  <2>1. a \in Addresses
    BY LineFacts
  <2>2. InL2(s, k, c, a) = OneIf(Awaits(s, c, a))
    BY <2>1 DEF HalfExact, Exact1
  <2>3. WaitNum(s, "L2", KindOf(c), a) \in Nat
    BY InL2Type
  <2>4. InL2(s, k, c, a) = Cardinality(T) + WaitNum(s, "L2", KindOf(c), a)
    BY <1>7 DEF InL2, Live
  <2>5. OneIf(Awaits(s, c, a)) \in {0, 1}
    BY DEF OneIf
  <2>6. QED
    BY <1>8, <2>2, <2>3, <2>4, <2>5
<1>10. ASSUME i # j
       PROVE  FALSE
  <2>1. {i, j} \subseteq T
    BY <1>3, <1>5, <1>6, <1>7
  <2>2. Cardinality({i}) = 1 /\ IsFiniteSet({i})
    BY FS_Singleton
  <2>3. {i, j} = {i} \cup {j} /\ j \notin {i}
    BY <1>10
  <2>4. Cardinality({i, j}) = 2
    BY <2>2, <2>3, FS_AddElement, SMTT(60)
  <2>5. Cardinality({i, j}) <= Cardinality(T)
    BY <1>8, <2>1, FS_Subset
  <2>6. QED
    BY <1>8, <1>9, <2>4, <2>5
<1>11. QED
  BY <1>10

\* Between two Ticks the L2's queue has a fetch, a load and a write-back at most.
LEMMA RoomAtRest ==
  ASSUME NEW s, Typed(s), HalfExact(s, 0), Turns(s, 0), QueueCap["L2"] >= 4
  PROVE  Room(s)
<1>1. PICK q \in Seq(PacketSet("L2")) : q = s.queue["L2"]
  BY PacketsBelow
<1>2. LivePlaces(q, 0) = 1 .. Len(q) /\ Len(q) \in Nat
  BY DEF LivePlaces
<1>3. \A i \in 1 .. Len(q) : q[i].type \in {"fetch", "load", "writeback"}
  BY PacketsBelow
<1>4. ASSUME NEW i \in 1 .. Len(q), NEW j \in 1 .. Len(q), q[i].type = q[j].type
      PROVE  i = j
  <2>1. CASE q[i].type = "fetch"
    <3>1. "fetch" = KindOf("L1I")
      BY DEF KindOf
    <3>2. i \in LivePlaces(q, 0) /\ j \in LivePlaces(q, 0)
      BY <1>2, <1>4
    <3>3. q[i].type = KindOf("L1I") /\ q[j].type = KindOf("L1I") /\ "L1I" \in {"L1I", "L1D"}
      BY <1>4, <2>1, <3>1
    <3>4. QED
      BY <1>1, <3>2, <3>3, OneRead
  <2>2. CASE q[i].type = "load"
    <3>1. "load" = KindOf("L1D")
      BY DEF KindOf
    <3>2. i \in LivePlaces(q, 0) /\ j \in LivePlaces(q, 0)
      BY <1>2, <1>4
    <3>3. q[i].type = KindOf("L1D") /\ q[j].type = KindOf("L1D") /\ "L1D" \in {"L1I", "L1D"}
      BY <1>4, <2>2, <3>1
    <3>4. QED
      BY <1>1, <3>2, <3>3, OneRead
  <2>3. CASE q[i].type = "writeback"
    <3>1. i <= j /\ j <= i
      BY <1>1, <1>2, <1>4, <2>3 DEF Turns, InTurn
    <3>2. QED
      BY <3>1
  <2>4. QED
    BY <1>3, <2>1, <2>2, <2>3
<1>5. ASSUME Len(q) >= 4
      PROVE  FALSE
  <2>1. 1 \in 1 .. Len(q) /\ 2 \in 1 .. Len(q) /\ 3 \in 1 .. Len(q) /\ 4 \in 1 .. Len(q)
    BY <1>2, <1>5
  <2>2. /\ q[1].type # q[2].type /\ q[1].type # q[3].type /\ q[1].type # q[4].type
        /\ q[2].type # q[3].type /\ q[2].type # q[4].type /\ q[3].type # q[4].type
    BY <1>4, <2>1
  <2>3. QED
    BY <1>3, <2>1, <2>2
<1>6. OneIf(s.mshr["L1D"][1].sub # <<>>) \in {0, 1}
  BY DEF OneIf
<1>7. QueueCap["L2"] \in Nat
  BY Geometry DEF Levels, Caches
<1>8. QED
  BY <1>1, <1>2, <1>5, <1>6, <1>7 DEF Room

-------------------------------------------------------------------------------
(* A line comes into the L2.                                                 *)

\* The block in a way of a set.
BlockIn(s, set, w) == s.blocks["L2"][set][w].tag * NumSets["L2"] + set

\* The line that a valid way of the L2 has.
LEMMA LineIn ==
  ASSUME NEW s, Typed(s), NEW set \in Sets("L2"), NEW w \in Ways("L2"),
         s.blocks["L2"][set][w].valid, NEW b, b = BlockIn(s, set, w)
  PROVE  /\ b \in Blocks /\ SetIndex["L2"][b] = set
         /\ b * BlkSize \in Lines /\ w \in Holding(s, "L2", b * BlkSize)
<1>1. "L2" \in Caches
  BY DEF Caches
<1>2. PICK t : t = s.blocks["L2"][set][w].tag
  OBVIOUS
<1>3. t \in Nat /\ b \in Blocks /\ b = t * NumSets["L2"] + set
  BY <1>1, <1>2, HeldAddress DEF Held, BlockIn
<1>4. PICK v : v = b * BlkSize
  OBVIOUS
<1>5. v \in Lines /\ getLocation("L2", v).set = set /\ getLocation("L2", v).tag = t
  BY <1>1, <1>3, <1>4, LineAt
<1>6. BlockOf(v) = b
  BY <1>3, <1>4, BlockAddresses
<1>7. SetIndex["L2"][b] = set
  BY <1>5, <1>6 DEF getLocation
<1>8. w \in Holding(s, "L2", v)
  BY <1>2, <1>5 DEF Holding
<1>9. QED
  BY <1>3, <1>4, <1>5, <1>7, <1>8

\* The set of a line that it does not have has a way left for it.
LEMMA FreeWay ==
  ASSUME L2HoldsAll, NEW s, Typed(s), Unique(s), NEW line \in Lines,
         Holding(s, "L2", line) = {}
  PROVE  \E w \in Ways("L2") : ~s.blocks["L2"][getLocation("L2", line).set][w].valid
<1>1. "L2" \in Caches
  BY DEF Caches
<1>2. PICK set \in Sets("L2") : set = getLocation("L2", line).set
  BY <1>1, LineFacts, Location
<1>3. PICK mapped : mapped = {b \in Blocks : SetIndex["L2"][b] = set}
  OBVIOUS
<1>4. IsFiniteSet(mapped) /\ Cardinality(mapped) <= NumWays["L2"]
  BY <1>2, <1>3 DEF L2HoldsAll, Sets
<1>5. BlockOf(line) \in mapped
  <2>1. BlockOf(line) \in Blocks
    BY LineFacts
  <2>2. SetIndex["L2"][BlockOf(line)] = set
    BY <1>2 DEF getLocation
  <2>3. QED
    BY <1>3, <2>1, <2>2
<1>6. PICK others : others = mapped \ {BlockOf(line)}
  OBVIOUS
<1>7. NumWays["L2"] \in Nat \ {0}
  BY <1>1, Geometry
<1>8. IsFiniteSet(others) /\ Cardinality(others) < NumWays["L2"]
  <2>1. IsFiniteSet(others) /\ Cardinality(others) = Cardinality(mapped) - 1
    BY <1>4, <1>5, <1>6, FS_RemoveElement
  <2>2. Cardinality(mapped) \in Nat
    BY <1>4, FS_CardinalityType
  <2>3. QED
    BY <1>4, <1>7, <2>1, <2>2
<1>9. IsFiniteSet(Ways("L2")) /\ Cardinality(Ways("L2")) = NumWays["L2"]
  <2>1. PICK n \in Nat \ {0} : n = NumWays["L2"]
    BY <1>7
  <2>2. IsFiniteSet(0 .. (n - 1)) /\ Cardinality(0 .. (n - 1)) = n
    BY FS_Interval
  <2>3. QED
    BY <2>1, <2>2 DEF Ways
<1>10. ASSUME \A w \in Ways("L2") : s.blocks["L2"][set][w].valid
       PROVE  FALSE
  <2>1. \A w \in Ways("L2") : /\ BlockIn(s, set, w) \in Blocks
                              /\ SetIndex["L2"][BlockIn(s, set, w)] = set
                              /\ BlockIn(s, set, w) * BlkSize \in Lines
                              /\ w \in Holding(s, "L2", BlockIn(s, set, w) * BlkSize)
    BY <1>10, LineIn
  <2>2. PICK f : f = [w \in Ways("L2") |-> BlockIn(s, set, w)]
    OBVIOUS
  <2>3. \A w \in Ways("L2") : BlockIn(s, set, w) # BlockOf(line)
    <3>1. BlockOf(line) * BlkSize = line
      BY LineFacts DEF BlockAddress
    <3>2. QED
      BY <2>1, <3>1
  <2>4. f \in [Ways("L2") -> others]
    BY <1>3, <1>6, <2>1, <2>2, <2>3
  <2>5. PICK w \in Ways("L2"), x \in Ways("L2") : w # x /\ f[w] = f[x]
    BY <1>8, <1>9, <2>4, FS_PigeonHole
  <2>6. BlockIn(s, set, w) = BlockIn(s, set, x)
    BY <2>2, <2>5
  <2>7. PICK v \in Lines : v = BlockIn(s, set, w) * BlkSize
    BY <2>1
  <2>8. w \in Holding(s, "L2", v) /\ x \in Holding(s, "L2", v)
    BY <2>1, <2>6, <2>7
  <2>9. QED
    BY <1>1, <2>5, <2>8 DEF Unique
<1>11. QED
  BY <1>2, <1>10

\* A line comes into the L2 and none leaves it.
ComesIn(s, r) ==
  /\ Typed(r) /\ r.abort = s.abort /\ r.queue = s.queue /\ r.mshr = s.mshr
  /\ \A d \in {"L1I", "L1D"} : r.blocks[d] = s.blocks[d]
  /\ \A a \in Lines : Holding(s, "L2", a) # {} => Holding(r, "L2", a) # {}

\* Placed, in a way that is free.
LEMMA FreePlaced ==
  ASSUME L2HoldsAll, NEW s, Typed(s), Unique(s), NEW line \in Lines,
         Holding(s, "L2", line) = {}, NEW data \in [Offsets -> Values], NEW victim,
         Evicts(victim), NEW r, r = Placed(s, "L2", line, data, victim)
  PROVE  ComesIn(s, r) /\ Holding(r, "L2", line) # {}
<1>1. "L2" \in Caches /\ line \in Addresses /\ BlockOf(line) \in Blocks
  BY LineFacts DEF Caches
<1>2. PICK loc : loc = getLocation("L2", line)
  OBVIOUS
<1>3. /\ loc.set \in Sets("L2") /\ loc.tag \in Nat
      /\ loc.tag * NumSets["L2"] + loc.set = BlockOf(line)
  BY <1>1, <1>2, Location
<1>4. PICK way : way = WayFor(s, "L2", line, victim)
  OBVIOUS
<1>5. way \in Ways("L2") /\ ~s.blocks["L2"][loc.set][way].valid
  <2>1. PICK free : free = {w \in Ways("L2") : ~s.blocks["L2"][loc.set][w].valid}
    OBVIOUS
  <2>2. free # {}
    BY <1>2, <2>1, FreeWay
  <2>3. free \in SUBSET Ways("L2")
    BY <2>1
  <2>4. Lowest(free) \in free
    BY <1>1, <2>2, <2>3, LowestWay
  <2>5. way = Lowest(free)
    BY <1>2, <1>4, <2>1, <2>2 DEF WayFor
  <2>6. QED
    BY <2>1, <2>4, <2>5
<1>6. PICK b : b = [valid |-> TRUE, dirty |-> FALSE, tag |-> loc.tag, data |-> data]
  OBVIOUS
<1>7. b \in BlockSet("L2", loc.set) /\ b.valid /\ b.tag = loc.tag
  BY <1>1, <1>3, <1>6 DEF BlockSet, Held
<1>8. writeBack(s, "L2", loc.set, way) = s
  BY <1>5 DEF writeBack
<1>9. r = WithBlock(s, "L2", loc.set, way, b)
  BY <1>2, <1>4, <1>6, <1>8 DEF Placed, WithBlock
<1>10. /\ Typed(r) /\ r.queue = s.queue /\ r.mshr = s.mshr /\ r.abort = s.abort
       /\ \A d \in Caches \ {"L2"} : r.blocks[d] = s.blocks[d]
       /\ \A e \in Sets("L2") \ {loc.set} : r.blocks["L2"][e] = s.blocks["L2"][e]
       /\ \A x \in Ways("L2") \ {way} : r.blocks["L2"][loc.set][x] = s.blocks["L2"][loc.set][x]
       /\ r.blocks["L2"][loc.set][way] = b
  BY <1>1, <1>3, <1>5, <1>7, <1>9, BlockChange
<1>11. Swapped(s, "L2", loc.set, way, b, r)
  BY <1>10 DEF Swapped
<1>12. SwappedIn(s, "L2", loc.set, way, b, line, r)
  BY <1>1, <1>2, <1>3, <1>5, <1>7, <1>11, SwapIn
<1>13. \A a \in Lines : getLocation("L2", a).set = loc.set => way \notin Holding(s, "L2", a)
  BY <1>5 DEF Holding
<1>14. \A a \in Lines : Holding(s, "L2", a) # {} => Holding(r, "L2", a) # {}
  BY <1>12, <1>13 DEF SwappedIn
<1>15. Holding(r, "L2", line) # {}
  BY <1>12 DEF SwappedIn
<1>16. \A d \in {"L1I", "L1D"} : r.blocks[d] = s.blocks[d]
  BY <1>10 DEF Caches
<1>17. QED
  BY <1>10, <1>14, <1>15, <1>16 DEF ComesIn

-------------------------------------------------------------------------------
(* An answer to a level 1 cache.                                             *)

\* The L1D may write a block back while the L2 has room, and the L1I has none to
\* write back: no assertion of writeBack fails.
LEMMA PlacedRoom ==
  ASSUME NEW s, Typed(s), s.abort = "none", NEW c \in {"L1I", "L1D"},
         c = "L1D" => HasRoom(s, "L2"), NEW addr \in Addresses, NEW data, NEW victim,
         victim[c][BlockOf(addr)] \in Ways(c), NEW r, r = Placed(s, c, addr, data, victim)
  PROVE  r.abort = "none"
<1>1. c \in Caches /\ Next1(c) = "L2"
  BY DEF Caches, Next1
<1>2. PICK set \in Sets(c) : set = getLocation(c, addr).set
  BY <1>1, Location
<1>3. PICK way \in Ways(c) : way = WayFor(s, c, addr, victim)
  BY <1>1, WayForTyped
<1>4. PICK b \in BlockSet(c, set) : b = s.blocks[c][set][way]
  BY <1>1 DEF Typed, BlocksTyped
<1>5. b.dirty => c = "L1D"
  BY <1>4 DEF BlockSet
<1>6. \A a : c = "L1D" => ~Refused(s, "L2", a)
  BY DEF Refused
<1>7. \A p : recvReq(s, "L2", p).abort = s.abort
  BY DEF recvReq, Typed
<1>8. PICK w : w = writeBack(s, c, set, way)
  OBVIOUS
<1>9. w.abort = s.abort
  BY <1>1, <1>4, <1>5, <1>6, <1>7, <1>8 DEF writeBack
<1>10. Typed(w)
  BY <1>1, <1>8, WriteBackEffect
<1>11. PICK e : e = [valid |-> TRUE, dirty |-> FALSE, tag |-> getLocation(c, addr).tag, data |-> data]
  OBVIOUS
<1>12. [w EXCEPT !.blocks[c][set][way] = e].abort = w.abort
  BY <1>10 DEF Typed
<1>13. CASE Holding(s, c, addr) # {}
  <2>1. r = [s EXCEPT !.blocks[c][getLocation(c, addr).set][Way(s, c, addr)].data = data]
    BY <1>13 DEF Placed
  <2>2. QED
    BY <2>1 DEF Typed
<1>14. CASE Holding(s, c, addr) = {}
  <2>1. r = [w EXCEPT !.blocks[c][set][way] = e]
    BY <1>2, <1>3, <1>8, <1>11, <1>14, Zenon DEF Placed
  <2>2. QED
    BY <1>9, <1>12, <2>1
<1>15. QED
  BY <1>13, <1>14

\* A line has come into a level 1 cache.  It may have lost another, which the L1D may
\* have sent back.
MadeRoom(s, c, line, r) ==
  /\ \A a \in Lines \ {line} : Holding(r, c, a) # {} => Holding(s, c, a) # {}
  /\ \/ r.queue["L2"] = s.queue["L2"]
     \/ /\ c = "L1D"
        /\ \E p \in PacketSet("L2") :
             /\ p.type = "writeback" /\ ~Ready(p) /\ Holding(s, c, p.addr) # {}
             /\ r.queue["L2"] = Append(s.queue["L2"], p)

\* The cache has been answered with it, and its entry is free; the first packet that
\* waits in the L2 may have left.
Refilled(s, c, line, r) ==
  /\ Typed(r) /\ r.abort = "none" /\ r.blocks["L2"] = s.blocks["L2"]
  /\ \/ r.mshr["L2"][1].sub = s.mshr["L2"][1].sub
     \/ /\ s.mshr["L2"][1].sub # <<>>
        /\ r.mshr["L2"][1].sub = Tail(s.mshr["L2"][1].sub)
  /\ \A d \in {"L1I", "L1D"} \ {c} : r.blocks[d] = s.blocks[d] /\ r.mshr[d] = s.mshr[d]
  /\ r.mshr[c][1].sub = <<>>
  /\ MadeRoom(s, c, line, r)

\* What a line that comes into a level 1 cache sends away.
LEMMA ReplacedSends ==
  ASSUME NEW s, Typed(s), NEW c \in {"L1I", "L1D"}, NEW line \in Lines, NEW data,
         NEW x, Replaced(s, c, line, data, x)
  PROVE  MadeRoom(s, c, line, x)
<1>1. c \in Caches /\ Next1(c) = "L2" /\ Typed(x)
  BY DEF Caches, Next1, Replaced
<1>2. \A a \in Lines : /\ Copies(s, c, a) # {} <=> Holding(s, c, a) # {}
                       /\ Copies(x, c, a) # {} <=> Holding(x, c, a) # {}
  BY <1>1, CopyTyped
<1>3. CASE /\ x.queue = s.queue
           /\ \A a \in Lines \ {line} : Copies(x, c, a) = Copies(s, c, a)
  BY <1>2, <1>3 DEF MadeRoom
<1>4. ASSUME NEW v \in Lines \ {line}, NEW old,
             Copies(s, c, v) = {old}, Copies(x, c, v) = {}, Sent(s, c, old, v, x),
             old.dirty => c # "L1I",
             \A a \in Lines \ {line, v} : Copies(x, c, a) = Copies(s, c, a)
      PROVE  MadeRoom(s, c, line, x)
  <2>1. \A a \in Lines \ {line} : Holding(x, c, a) # {} => Holding(s, c, a) # {}
    BY <1>2, <1>4
  <2>2. CASE ~old.dirty
    BY <1>4, <2>1, <2>2 DEF Sent, MadeRoom
  <2>3. CASE old.dirty
    <3>1. PICK p \in PacketSet("L2") :
            /\ Is(p, "writeback", v) /\ ~Ready(p)
            /\ x.queue["L2"] = Append(s.queue["L2"], p)
      BY <1>1, <1>4, <2>3 DEF Sent
    <3>2. p.type = "writeback" /\ Holding(s, c, p.addr) # {}
      BY <1>2, <1>4, <3>1 DEF Is
    <3>3. c = "L1D"
      BY <1>4, <2>3
    <3>4. QED
      BY <2>1, <3>1, <3>2, <3>3 DEF MadeRoom
  <2>4. QED
    BY <2>2, <2>3
<1>5. QED
  BY <1>3, <1>4 DEF Replaced

\* recvResp of a level 1 cache, for a line that it waits for and does not have.
LEMMA FillL1Refills ==
  ASSUME NEW s, Typed(s), Unique(s), s.abort = "none", NEW c \in {"L1I", "L1D"},
         c = "L1D" => HasRoom(s, "L2"), NEW line \in Lines, BlockOf(line) \in Held(c),
         Holding(s, c, line) = {}, s.mshr[c][1].sub # <<>>,
         NEW data \in [Offsets -> Values], NEW victim, Evicts(victim),
         NEW r, r = FillL1(s, c, line, data, victim)
  PROVE  Refilled(s, c, line, r) /\ r.mshr["L2"] = s.mshr["L2"]
<1>1. /\ c \in Caches /\ line \in Addresses /\ BlockOf(line) \in Blocks
      /\ BlockAddress(line) = line
  BY LineFacts DEF Caches
<1>2. PICK x : x = Placed(s, c, line, data, victim)
  OBVIOUS
<1>3. victim[c][BlockOf(line)] \in Ways(c)
  BY <1>1 DEF Evicts
<1>4. x.abort = "none"
  BY <1>1, <1>2, <1>3, PlacedRoom
<1>5. Replaced(s, c, line, data, x)
  BY <1>1, <1>2, <1>3, <1>4, PlacedView
<1>6. Typed(x) /\ x.mshr = s.mshr /\ Holding(x, c, line) # {}
  BY <1>1, <1>2, <1>3, PlacedEffect
<1>7. PICK subs : subs = s.mshr[c][1].sub
  OBVIOUS
<1>8. PICK y : y = AllServedL1(x, c, line, subs)
  OBVIOUS
<1>9. ServedAll(x, c, y)
  BY <1>1, <1>6, <1>7, <1>8, ServedL1Effect
<1>10. r = IF subs = <<>> THEN Fails(x, "noentry")
           ELSE [y EXCEPT !.mshr[c][1].address = 0]
  BY <1>2, <1>7, <1>8, Zenon DEF FillL1, AllServedL1
<1>11. r = [y EXCEPT !.mshr[c][1].address = 0]
  BY <1>7, <1>10
<1>12. r.abort = y.abort /\ r.queue = y.queue /\ r.blocks = y.blocks
  BY <1>9, <1>11 DEF ServedAll, Typed
<1>13. L1Filled(s, c, r)
  BY <1>1, FillL1Effect
<1>14. /\ Typed(r) /\ r.mshr[c][1].sub = <<>>
       /\ \A d \in Caches \ {c} : r.blocks[d] = s.blocks[d] /\ r.mshr[d] = s.mshr[d]
  BY <1>13 DEF L1Filled
<1>15. r.abort = "none" /\ r.queue = x.queue
  BY <1>4, <1>9, <1>12 DEF ServedAll
<1>16. \A a \in Lines : Holding(r, c, a) = Holding(x, c, a)
  <2>1. \A a \in Addresses : Holding(y, c, a) = Holding(x, c, a)
    BY <1>9 DEF ServedAll, SameHeld
  <2>2. \A a : Holding(r, c, a) = Holding(y, c, a)
    BY <1>12 DEF Holding
  <2>3. QED
    BY <2>1, <2>2, LineFacts
<1>17. MadeRoom(s, c, line, x)
  BY <1>5, ReplacedSends
<1>18. MadeRoom(s, c, line, r)
  BY <1>15, <1>16, <1>17 DEF MadeRoom
<1>19. "L2" \in Caches \ {c} /\ \A d \in {"L1I", "L1D"} \ {c} : d \in Caches \ {c}
  BY DEF Caches
<1>20. QED
  BY <1>14, <1>15, <1>18, <1>19 DEF Refilled

\* The L2 still has the lines of the level 1 caches.
LEMMA RefillIncluded ==
  ASSUME NEW s, Typed(s), Included(s), NEW c \in {"L1I", "L1D"}, NEW line \in Lines,
         Holding(s, "L2", line) # {}, NEW r, Refilled(s, c, line, r)
  PROVE  Included(r)
<1>1. \A a \in Lines : Holding(r, "L2", a) = Holding(s, "L2", a)
  BY DEF Refilled, Holding
<1>2. L1Held(r)
  <2>1. ASSUME NEW d \in {"L1I", "L1D"}, NEW a \in Lines, Holding(r, d, a) # {}
        PROVE  Holding(s, "L2", a) # {}
    <3>1. CASE d # c
      <4>1. r.blocks[d] = s.blocks[d]
        BY <3>1 DEF Refilled
      <4>2. Holding(s, d, a) # {}
        BY <2>1, <4>1 DEF Holding
      <4>3. QED
        BY <4>2 DEF Included, L1Held
    <3>2. CASE d = c /\ a # line
      <4>1. Holding(s, c, a) # {}
        BY <2>1, <3>2 DEF Refilled, MadeRoom
      <4>2. QED
        BY <4>1 DEF Included, L1Held
    <3>3. QED
      BY <3>1, <3>2
  <2>2. QED
    BY <1>1, <2>1 DEF L1Held
<1>3. PICK q \in Seq(PacketSet("L2")) : q = s.queue["L2"]
  BY PacketsBelow
<1>4. \A i \in 1 .. Len(q) : q[i].type = "writeback" => Holding(r, "L2", q[i].addr) # {}
  <2>1. \A i \in 1 .. Len(q) : q[i].addr \in Lines
    BY PacketsBelow
  <2>2. QED
    BY <1>1, <1>3, <2>1 DEF Included, BacksHeld
<1>5. BacksHeld(r)
  <2>1. CASE r.queue["L2"] = q
    BY <1>4, <2>1 DEF BacksHeld
  <2>2. CASE \E p \in PacketSet("L2") : /\ Holding(s, c, p.addr) # {}
                                        /\ r.queue["L2"] = Append(q, p)
    <3>1. PICK p \in PacketSet("L2") : Holding(s, c, p.addr) # {} /\ r.queue["L2"] = Append(q, p)
      BY <2>2
    <3>2. p.addr \in Lines
      BY PacketsBelow
    <3>3. Holding(r, "L2", p.addr) # {}
      BY <1>1, <3>1, <3>2 DEF Included, L1Held
    <3>4. PICK t \in Seq(PacketSet("L2")) : t = Append(q, p)
      BY <3>1, SMTT(60)
    <3>5. \A i \in 1 .. Len(t) : t[i] = p \/ (i \in 1 .. Len(q) /\ t[i] = q[i])
      BY <3>4
    <3>6. QED
      BY <1>4, <3>1, <3>3, <3>4, <3>5 DEF BacksHeld
  <2>3. QED
    BY <1>3, <2>1, <2>2 DEF Refilled, MadeRoom
<1>6. ReadsWait(r)
  <2>1. PICK sub \in Seq(PacketSet("L2")) : sub = s.mshr["L2"][1].sub
    BY PacketsBelow
  <2>2. \A i \in 1 .. Len(sub) : ~IsWrite(sub[i])
    BY <2>1 DEF Included, ReadsWait
  <2>3. CASE r.mshr["L2"][1].sub = sub
    BY <2>2, <2>3 DEF ReadsWait
  <2>4. CASE r.mshr["L2"][1].sub = Tail(sub) /\ sub # <<>>
    <3>1. \A i \in 1 .. Len(Tail(sub)) : i + 1 \in 1 .. Len(sub) /\ Tail(sub)[i] = sub[i + 1]
      BY <2>4
    <3>2. QED
      BY <2>2, <2>4, <3>1 DEF ReadsWait
  <2>5. QED
    BY <2>1, <2>3, <2>4 DEF Refilled
<1>7. QED
  BY <1>2, <1>5, <1>6 DEF Included

\* The packets of the L2 are in their order.
LEMMA RefillTurns ==
  ASSUME NEW s, Typed(s), NEW k \in Nat, k <= Len(s.queue["L2"]), Turns(s, k),
         NEW c \in {"L1I", "L1D"}, c = "L1D" => Without(s.queue["L2"], k, "writeback"),
         NEW line, NEW r, Refilled(s, c, line, r), HalfExact(r, k)
  PROVE  Turns(r, k)
<1>1. PICK q \in Seq(PacketSet("L2")) : q = s.queue["L2"]
  BY PacketsBelow
<1>2. PICK sub \in Seq(PacketSet("L2")) : sub = s.mshr["L2"][1].sub
  BY PacketsBelow
<1>3. InTurn(q, k) /\ (Without(q, k, "writeback") \/ Without(sub, 0, "load"))
  BY <1>1, <1>2 DEF Turns
<1>4. c = "L1D" => /\ Without(r.queue["L2"], k, "load")
                   /\ Without(r.mshr["L2"][1].sub, 0, "load")
  <2>1. ASSUME c = "L1D"
        PROVE  /\ Without(r.queue["L2"], k, "load")
               /\ Without(r.mshr["L2"][1].sub, 0, "load")
    <3>1. Typed(r) /\ r.mshr["L1D"][1].sub = <<>> /\ "L1D" \in {"L1I", "L1D"}
      BY <2>1 DEF Refilled
    <3>2. KindOf("L1D") = "load"
      BY DEF KindOf
    <3>3. QED
      BY <3>1, <3>2, NoReads
  <2>2. QED
    BY <2>1
<1>5. Without(sub, 0, "load") => Without(r.mshr["L2"][1].sub, 0, "load")
  <2>1. CASE r.mshr["L2"][1].sub = sub
    BY <2>1
  <2>2. CASE r.mshr["L2"][1].sub = Tail(sub) /\ sub # <<>>
    <3>1. \A i \in 1 .. Len(Tail(sub)) : i + 1 \in 1 .. Len(sub) /\ Tail(sub)[i] = sub[i + 1]
      BY <2>2
    <3>2. \A i \in LivePlaces(Tail(sub), 0) : i + 1 \in LivePlaces(sub, 0) /\ i \in 1 .. Len(Tail(sub))
      BY <3>1 DEF LivePlaces
    <3>3. QED
      BY <2>2, <3>1, <3>2 DEF Without
  <2>3. QED
    BY <1>2, <2>1, <2>2 DEF Refilled
<1>6. CASE r.queue["L2"] = q
  BY <1>3, <1>5, <1>6 DEF Turns
<1>7. CASE c = "L1D" /\ \E p \in PacketSet("L2") : ~Ready(p) /\ r.queue["L2"] = Append(q, p)
  <2>1. PICK p \in PacketSet("L2") : ~Ready(p) /\ r.queue["L2"] = Append(q, p)
    BY <1>7
  <2>2. PICK t : t = Append(q, p)
    OBVIOUS
  <2>3. Without(q, k, "writeback") /\ Without(t, k, "load")
    BY <1>1, <1>4, <1>7, <2>1, <2>2
  <2>4. InTurn(t, k)
    BY <1>1, <2>1, <2>2, <2>3, BackInTurn
  <2>5. QED
    BY <1>4, <1>7, <2>1, <2>2, <2>4 DEF Turns
<1>8. QED
  BY <1>1, <1>6, <1>7 DEF Refilled, MadeRoom

\* The length of the L2's queue and the room it has are numbers.
LEMMA L2Lengths ==
  ASSUME NEW q \in Seq(PacketSet("L2"))
  PROVE  QueueCap["L2"] \in Nat /\ Len(q) \in Nat
<1>1. "L2" \in Levels
  BY DEF Levels, Caches
<1>2. QueueCap["L2"] \in Nat
  BY <1>1, Geometry
<1>3. Len(q) \in Nat
  OBVIOUS
<1>4. QED
  BY <1>2, <1>3

\* It has room, and the L1D waits for nothing more.
LEMMA RefillRoom ==
  ASSUME NEW s, Typed(s), Room(s), NEW c \in {"L1I", "L1D"}, s.mshr[c][1].sub # <<>>,
         NEW line, NEW r, Refilled(s, c, line, r)
  PROVE  Room(r)
<1>1. PICK q \in Seq(PacketSet("L2")) : q = s.queue["L2"]
  BY PacketsBelow
<1>2. QueueCap["L2"] \in Nat /\ Len(q) \in Nat
  BY L2Lengths
<1>3. CASE c = "L1I"
  <2>1. r.mshr["L1D"] = s.mshr["L1D"] /\ r.queue["L2"] = q
    BY <1>1, <1>3 DEF Refilled, MadeRoom
  <2>2. QED
    BY <1>1, <2>1 DEF Room
<1>4. CASE c = "L1D"
  <2>1. Len(q) + 1 <= QueueCap["L2"]
    BY <1>1, <1>4 DEF Room, OneIf
  <2>2. r.mshr["L1D"][1].sub = <<>>
    BY <1>4 DEF Refilled
  <2>3. r.queue["L2"] = q \/ \E p \in PacketSet("L2") : r.queue["L2"] = Append(q, p)
    BY <1>1 DEF Refilled, MadeRoom
  <2>4. Len(r.queue["L2"]) \in Nat /\ Len(r.queue["L2"]) <= Len(q) + 1
    BY <1>2, <2>3
  <2>5. Len(r.queue["L2"]) + 0 <= QueueCap["L2"]
    BY <1>2, <2>1, <2>4
  <2>6. OneIf(r.mshr["L1D"][1].sub # <<>>) = 0
    BY <2>2 DEF OneIf
  <2>7. QED
    BY <2>5, <2>6 DEF Room
<1>5. QED
  BY <1>3, <1>4

\* So it stays safe.
LEMMA RefillSafe ==
  ASSUME NEW s, Typed(s), s.abort = "none", NEW k \in Nat, k <= Len(s.queue["L2"]),
         SafeRoom(s, k), NEW c \in {"L1I", "L1D"}, s.mshr[c][1].sub # <<>>,
         c = "L1D" => Without(s.queue["L2"], k, "writeback"),
         NEW line \in Lines, Holding(s, "L2", line) # {},
         NEW r, Refilled(s, c, line, r), HalfExact(r, k)
  PROVE  SafeRoom(r, k)
<1>1. Included(s) /\ Turns(s, k) /\ Room(s)
  BY DEF SafeRoom, Safe
<1>2. Included(r) /\ Room(r)
  BY <1>1, RefillIncluded, RefillRoom
<1>3. Turns(r, k)
  BY <1>1, RefillTurns
<1>4. r.abort = "none"
  BY DEF Refilled
<1>5. QED
  BY <1>2, <1>3, <1>4 DEF SafeRoom, Safe

-------------------------------------------------------------------------------
(* An answer to the L2.                                                      *)

\* What that depends on.
SameL2(s, r) ==
  /\ r.abort = s.abort /\ r.queue["L2"] = s.queue["L2"]
  /\ r.mshr["L2"][1].sub = s.mshr["L2"][1].sub
  /\ \A d \in {"L1I", "L1D", "L2"}, a \in Lines : Holding(r, d, a) = Holding(s, d, a)
Alike(s, r) ==
  /\ SameL2(s, r)
  /\ \A d \in {"L1I", "L1D"} : r.mshr[d][1].sub = s.mshr[d][1].sub

LEMMA SameSafe ==
  ASSUME NEW s, Typed(s), NEW r, SameL2(s, r), NEW k, Safe(s, k)
  PROVE  Safe(r, k)
<1>1. PICK q \in Seq(PacketSet("L2")) : q = s.queue["L2"]
  BY PacketsBelow
<1>2. \A i \in 1 .. Len(q) : q[i].addr \in Lines
  BY PacketsBelow
<1>3. \A d \in {"L1I", "L1D", "L2"}, a \in Lines : Holding(r, d, a) = Holding(s, d, a)
  BY DEF SameL2
<1>4. L1Held(s) => L1Held(r)
  BY <1>3 DEF L1Held
<1>5. BacksHeld(s) => BacksHeld(r)
  BY <1>1, <1>2, <1>3 DEF BacksHeld, SameL2
<1>6. (ReadsWait(s) => ReadsWait(r)) /\ (Turns(s, k) => Turns(r, k))
  BY DEF ReadsWait, Turns, SameL2
<1>7. r.abort = s.abort
  BY DEF SameL2
<1>8. QED
  BY <1>4, <1>5, <1>6, <1>7 DEF Safe, Included

LEMMA AlikeSafe ==
  ASSUME NEW s, Typed(s), NEW r, Alike(s, r), NEW k
  PROVE  (Safe(s, k) => Safe(r, k)) /\ (SafeRoom(s, k) => SafeRoom(r, k))
<1>1. (Room(s) => Room(r)) /\ r.abort = s.abort
  BY DEF Room, Alike, SameL2
<1>2. QED
  BY <1>1, SameSafe DEF SafeRoom, Alike

\* A read of a level 1 cache is in the L2.
AskedFor(s, k, c, line) ==
  \/ LiveAt(s.queue["L2"], k, KindOf(c), line) # {}
  \/ LiveAt(s.mshr["L2"][1].sub, 0, KindOf(c), line) # {}

\* What its answer does.
AnsweredWith(s, c, line, r) ==
  Refilled(s, c, line, r) /\ r.mshr["L2"] = s.mshr["L2"] /\ s.mshr[c][1].sub # <<>>

\* It is answered with a block.
LEMMA AnswerRefills ==
  ASSUME NEW s, Typed(s), Unique(s), s.abort = "none", Room(s), NEW k, HalfExact(s, k),
         NEW p \in PacketSet("L2"), ~IsWrite(p), NEW c \in {"L1I", "L1D"}, c = PrevOf(p),
         NEW line \in Lines, line = p.addr,
         AskedFor(s, k, c, line), NEW data \in [Offsets -> Values], NEW victim, Evicts(victim),
         NEW r, r = FillL1(s, c, line, data, victim)
  PROVE  AnsweredWith(s, c, line, r)
<1>1. Awaits(s, c, line) /\ Holding(s, c, line) = {}
  BY ReadAwaited DEF AskedFor
<1>2. s.mshr[c][1].sub # <<>>
  BY <1>1 DEF Awaits
<1>3. BlockOf(line) \in Held(c)
  BY PacketFacts DEF Levels, Caches
<1>4. c = "L1D" => HasRoom(s, "L2")
  <2>1. PICK q \in Seq(PacketSet("L2")) : q = s.queue["L2"]
    BY PacketsBelow
  <2>2. QueueCap["L2"] \in Nat /\ Len(q) \in Nat
    BY L2Lengths
  <2>3. c = "L1D" => Len(q) + 1 <= QueueCap["L2"]
    BY <1>2, <2>1 DEF Room, OneIf
  <2>4. c = "L1D" => Len(q) < QueueCap["L2"]
    BY <2>2, <2>3
  <2>5. QED
    BY <2>1, <2>4 DEF HasRoom
<1>5. QED
  BY <1>1, <1>2, <1>3, <1>4, FillL1Refills DEF AnsweredWith

\* The packet it was for leaves the L2's entry.
LEMMA LeaveRefilled ==
  ASSUME NEW s, NEW c \in {"L1I", "L1D"}, NEW line, NEW y, Refilled(s, c, line, y),
         y.mshr["L2"] = s.mshr["L2"], s.mshr["L2"][1].sub # <<>>, NEW r, r = Leave(y, "L2")
  PROVE  Refilled(s, c, line, r)
<1>1. "L2" \in Caches /\ \A d \in {"L1I", "L1D"} : d \in Caches \ {"L2"}
  BY DEF Caches
<1>2. Typed(y) /\ y.mshr["L2"][1].sub # <<>>
  BY DEF Refilled
<1>3. /\ Typed(r) /\ r.queue = y.queue /\ r.blocks = y.blocks /\ r.abort = y.abort
      /\ Leaves(y, "L2", r)
  BY <1>1, <1>2, LeaveEffect
<1>4. /\ \A d \in {"L1I", "L1D"} : r.mshr[d] = y.mshr[d]
      /\ r.mshr["L2"][1].sub = Tail(s.mshr["L2"][1].sub)
  BY <1>1, <1>3 DEF Leaves
<1>5. MadeRoom(s, c, line, r)
  <2>1. MadeRoom(s, c, line, y)
    BY DEF Refilled
  <2>2. \A a : Holding(r, c, a) = Holding(y, c, a)
    BY <1>3 DEF Holding
  <2>3. r.queue["L2"] = y.queue["L2"]
    BY <1>3
  <2>4. QED
    BY <2>1, <2>2, <2>3 DEF MadeRoom
<1>6. /\ r.blocks["L2"] = s.blocks["L2"] /\ r.abort = "none"
      /\ \A d \in {"L1I", "L1D"} \ {c} : r.blocks[d] = s.blocks[d] /\ r.mshr[d] = s.mshr[d]
      /\ r.mshr[c][1].sub = <<>>
  BY <1>3, <1>4 DEF Refilled
<1>7. QED
  BY <1>3, <1>4, <1>5, <1>6 DEF Refilled

\* A load waits in the L2 only when no write-back is left in its queue.
LEMMA LoadWaits ==
  ASSUME NEW s, Typed(s), NEW k, Turns(s, k), s.mshr["L2"][1].sub # <<>>,
         Head(s.mshr["L2"][1].sub).type = "load"
  PROVE  Without(s.queue["L2"], k, "writeback")
<1>1. PICK sub \in Seq(PacketSet("L2")) : sub = s.mshr["L2"][1].sub
  BY PacketsBelow
<1>2. 1 \in LivePlaces(sub, 0) /\ sub[1].type = "load"
  BY <1>1 DEF LivePlaces
<1>3. QED
  BY <1>1, <1>2 DEF Turns, Without

\* recvResp serves a packet that waits in the L2.
LEMMA ServeL2Safe ==
  ASSUME NEW s, Typed(s), HalfSound(s), s.mshr["L2"][1].sub # <<>>,
         NEW p \in PacketSet("L2"), p = Head(s.mshr["L2"][1].sub),
         NEW addr \in Addresses, Holding(s, "L2", addr) # {},
         s.mshr["L2"][1].address = BlockAddress(addr),
         NEW victim, Evicts(victim),
         NEW m, NEW req, Right(s, 0, m, req), SafeRoom(s, 0),
         NEW r, r = ServeL2(s, addr, p, victim)
  PROVE  SafeRoom(r, 0)
<1>1. "L2" \in Caches /\ "L2" \in Levels /\ 1 \in 1 .. MshrEntries["L2"]
  BY Geometry DEF Caches, Levels
<1>2. L2Served(s, p, r)
  BY ServeL2Effect
<1>3. CASE s.abort # "none"
  <2>1. r.abort = s.abort
    BY <1>2, <1>3 DEF L2Served, May
  <2>2. QED
    BY <1>3, <2>1 DEF SafeRoom, Safe
<1>4. CASE s.abort = "none"
  <2>1. PICK sub \in Seq(PacketSet("L2")) : sub = s.mshr["L2"][1].sub
    BY PacketsBelow
  <2>2. 1 \in 1 .. Len(sub) /\ sub[1] = p /\ Len(sub) \in Nat
    BY <2>1
  <2>3. ~IsWrite(p)
    BY <1>4, <2>1, <2>2 DEF SafeRoom, Safe, Included, ReadsWait
  <2>4. PICK c \in {"L1I", "L1D"} : c = PrevOf(p)
    BY <2>3, ReadFrom
  <2>5. PICK line \in Lines : line = p.addr
    BY PacketsBelow
  <2>6. BlockAddress(addr) = line
    <3>1. Matched(s)
      BY <1>4 DEF Right, Coherent, Shaped
    <3>2. BlockAddress(p.addr) = s.mshr["L2"][1].address
      BY <1>1, <2>1, <2>2, <3>1 DEF Matched
    <3>3. QED
      BY <2>5, <3>2, LineFacts
  <2>7. PICK x : x = Apply(s, "L2", addr, p)
    OBVIOUS
  <2>8. Unique(s)
    BY <1>4 DEF Right, Coherent, Shaped
  <2>9. AsBefore(s, "L2", addr, x)
    BY <1>1, <2>3, <2>7, <2>8, ReadApplied
  <2>10. Right(x, 0, m, req)
    BY <2>9, AsBeforeRight
  <2>11. /\ Typed(x) /\ x.queue = s.queue /\ x.mshr = s.mshr /\ x.abort = s.abort
         /\ x.blocks["L1I"] = s.blocks["L1I"] /\ x.blocks["L1D"] = s.blocks["L1D"]
         /\ BlockAt(x, "L2", addr) \in Copies(x, "L2", line)
    BY <1>1, <2>6, <2>9 DEF AsBefore, Caches
  <2>12. Alike(s, x)
    <3>1. \A d \in {"L1I", "L1D", "L2"}, a \in Lines : Holding(x, d, a) = Holding(s, d, a)
      BY <2>9, LineFacts DEF AsBefore, Caches
    <3>2. QED
      BY <2>11, <3>1 DEF Alike, SameL2
  <2>13. SafeRoom(x, 0)
    BY <2>12, AlikeSafe
  <2>14. Turns(x, 0) /\ Room(x) /\ x.abort = "none"
    BY <1>4, <2>11, <2>13 DEF SafeRoom, Safe
  <2>15. HalfExact(x, 0)
    <3>1. SameWaiting(s, x, "L2")
      BY <2>11 DEF SameWaiting
    <3>2. HalfExact(s, 0)
      BY <1>4 DEF HalfSound
    <3>3. QED
      BY <2>11, <3>1, <3>2, HalfSame
  <2>16. Is(p, KindOf(c), line)
    <3>1. \A d \in {"L1I", "L1D"} : \A a :
            Is(p, KindOf(d), a) <=> d = PrevOf(p) /\ a = p.addr
      BY <2>3, ReadFrom
    <3>2. QED
      BY <2>4, <2>5, <3>1
  <2>17. AskedFor(x, 0, c, line)
    <3>1. 1 \in LiveAt(x.mshr["L2"][1].sub, 0, KindOf(c), line)
      BY <2>1, <2>2, <2>11, <2>16 DEF LiveAt
    <3>2. QED
      BY <3>1 DEF AskedFor
  <2>18. PICK data : data = BlockAt(x, "L2", addr).data
    OBVIOUS
  <2>19. data \in [Offsets -> Values] /\ Unique(x) /\ Holding(x, "L2", line) # {}
    <3>1. data \in [Offsets -> Values] /\ Copies(x, "L2", line) # {}
      BY <1>1, <2>11, <2>18, CopyTyped
    <3>2. Holding(x, "L2", line) # {}
      BY <1>1, <2>11, <3>1, CopyTyped
    <3>3. Unique(x)
      BY <2>10, <2>14 DEF Right, Coherent, Shaped
    <3>4. QED
      BY <3>1, <3>2, <3>3
  <2>20. PICK y : y = FillL1(x, c, line, data, victim)
    OBVIOUS
  <2>21. Refilled(x, c, line, y) /\ y.mshr["L2"] = x.mshr["L2"] /\ x.mshr[c][1].sub # <<>>
    <3>1. Typed(x) /\ Unique(x) /\ x.abort = "none" /\ Room(x) /\ HalfExact(x, 0)
      BY <2>11, <2>14, <2>15, <2>19
    <3>2. data \in [Offsets -> Values] /\ Evicts(victim) /\ p \in PacketSet("L2") /\ ~IsWrite(p)
      BY <2>3, <2>19
    <3>3. AnsweredWith(x, c, line, y)
      BY <2>4, <2>5, <2>17, <2>20, <3>1, <3>2, AnswerRefills, Zenon
    <3>4. QED
      BY <3>3 DEF AnsweredWith
  <2>22. r = Leave(y, "L2")
    BY <2>3, <2>4, <2>5, <2>7, <2>18, <2>20 DEF ServeL2
  <2>23. Refilled(x, c, line, r)
    BY <2>1, <2>11, <2>21, <2>22, LeaveRefilled
  <2>24. HalfExact(r, 0)
    <3>1. HalfSound(r)
      BY <1>2, ServedHalf
    <3>2. r.abort = "none"
      BY <2>23 DEF Refilled
    <3>3. QED
      BY <3>1, <3>2 DEF HalfSound
  <2>25. c = "L1D" => Without(x.queue["L2"], 0, "writeback")
    <3>1. c = "L1D" => p.type = "load"
      BY <2>16 DEF Is, KindOf
    <3>2. x.mshr["L2"][1].sub # <<>> /\ p = Head(x.mshr["L2"][1].sub)
      BY <2>11
    <3>3. QED
      BY <2>11, <2>14, <3>1, <3>2, LoadWaits
  <2>26. 0 <= Len(x.queue["L2"])
    <3>1. x.queue["L2"] \in Seq(PacketSet("L2"))
      BY <2>11, PacketsBelow
    <3>2. QED
      BY <3>1
  <2>27. QED
    BY <2>11, <2>13, <2>14, <2>19, <2>21, <2>23, <2>24, <2>25, <2>26, RefillSafe
<1>5. QED
  BY <1>3, <1>4

\* While they are served.
SafeL2(ctx, k, x) == RightL2(ctx, k, x) /\ SafeRoom(x, 0)

\* The loop over the packets that wait in the L2.
SafeL2Fold == INSTANCE FoldInduction WITH
                op <- LAMBDA addr, victim, unused, x, p : ServeL2(x, addr, p, victim),
                J <- SafeL2

\* One packet more is served.
LEMMA SafeL2Step ==
  ASSUME NEW ctx, NEW subs, subs = ctx.from.mshr["L2"][1].sub,
         subs \in Seq(PacketSet("L2")), NEW k \in 1 .. Len(subs),
         ctx.addr \in Addresses, Typed(ctx.from), ctx.m \in [Addresses -> Values],
         NEW victim, Evicts(victim), NEW x, SafeL2(ctx, k - 1, x)
  PROVE  SafeL2(ctx, k, ServeL2(x, ctx.addr, subs[k], victim))
<1>1. PICK addr \in Addresses : addr = ctx.addr
  OBVIOUS
<1>2. PICK p \in PacketSet("L2") : p = subs[k]
  OBVIOUS
<1>3. (k - 1) + 1 = k
  OBVIOUS
<1>4. RightL2(ctx, k - 1, x) /\ SafeRoom(x, 0)
  BY DEF SafeL2
<1>5. /\ ServingExact(ctx, k - 1, x) /\ ServingL2(ctx, k - 1, x) /\ HalfSound(x)
      /\ Right(x, 0, ctx.m, ctx.req) /\ x.mshr["L2"][1].address = BlockAddress(addr)
  BY <1>1, <1>4 DEF RightL2, ServingExact
<1>6. /\ Typed(x) /\ Holding(x, "L2", addr) # {}
      /\ x.mshr["L2"][1].sub = SubSeq(subs, k, Len(subs))
  BY <1>1, <1>3, <1>5 DEF ServingL2
<1>7. x.mshr["L2"][1].sub # <<>> /\ Head(x.mshr["L2"][1].sub) = p
  BY <1>2, <1>6, RestOfSequence, ZenonT(60)
<1>8. PICK r : r = ServeL2(x, addr, p, victim)
  OBVIOUS
<1>9. SafeRoom(r, 0)
  BY <1>4, <1>5, <1>6, <1>7, <1>8, ServeL2Safe
<1>10. RightL2(ctx, k, ServeL2(x, ctx.addr, subs[k], victim))
  BY <1>4, RightL2Step
<1>11. QED
  BY <1>1, <1>2, <1>8, <1>9, <1>10 DEF SafeL2

\* All that wait in the L2 are served.
LEMMA ServedL2Safe ==
  ASSUME NEW s, Typed(s), HalfSound(s), NEW addr \in Addresses,
         Holding(s, "L2", addr) # {}, s.mshr["L2"][1].address = BlockAddress(addr),
         NEW victim, Evicts(victim), NEW subs, subs = s.mshr["L2"][1].sub,
         NEW m \in [Addresses -> Values], NEW req, Right(s, 0, m, req), SafeRoom(s, 0)
  PROVE  SafeRoom(AllServedL2(s, addr, victim, subs), 0)
<1>1. PICK ctx : ctx = [addr |-> addr, from |-> s, m |-> m, req |-> req]
  OBVIOUS
<1>2. ctx.addr = addr /\ ctx.from = s /\ ctx.m = m /\ ctx.req = req
  BY <1>1
<1>3. "L2" \in Caches /\ "L2" \in Levels /\ 1 \in 1 .. MshrEntries["L2"]
  BY Geometry DEF Caches, Levels
<1>4. subs \in Seq(PacketSet("L2")) /\ Len(subs) \in Nat
  BY <1>3, SubTyped
<1>5. SafeL2(ctx, 0, s)
  <2>1. SubSeq(subs, 1, Len(subs)) = subs
    BY <1>4
  <2>2. Grown("L2", s.queue["L2"], s.queue["L2"])
    BY <1>3, NothingGrown
  <2>3. Settles(s, s)
    BY SettlesSame
  <2>4. ServingExact(ctx, 0, s)
    BY <1>2, <2>1, <2>2, <2>3 DEF ServingExact, ServingL2, May
  <2>5. QED
    BY <1>2, <2>4 DEF RightL2, SafeL2
<1>6. \A k \in 1 .. Len(subs) : \A x :
        SafeL2(ctx, k - 1, x) => SafeL2(ctx, k, ServeL2(x, addr, subs[k], victim))
  <2> TAKE k \in 1 .. Len(subs)
  <2> TAKE x
  <2> HAVE SafeL2(ctx, k - 1, x)
  <2>1. QED
    BY <1>2, <1>4, SafeL2Step
<1>7. PICK r : r = SafeL2Fold!Fold(addr, victim, 0, s, subs)
  OBVIOUS
<1>8. r = AllServedL2(s, addr, victim, subs)
  BY <1>7, Zenon DEF AllServedL2, SafeL2Fold!Fold, FoldLeft, MapThenFoldSet, Max,
                     SafeL2Fold!FoldLeft, SafeL2Fold!MapThenFoldSet, SafeL2Fold!Max
<1>9. SafeL2(ctx, Len(subs), r)
  BY <1>4, <1>5, <1>6, <1>7, SafeL2Fold!FoldInvariant
<1>10. QED
  BY <1>8, <1>9 DEF SafeL2

-------------------------------------------------------------------------------
(* An answer of memory's.                                                    *)

\* The L2 has a line more.
LEMMA MoreSafe ==
  ASSUME NEW s, Typed(s), NEW r, ComesIn(s, r), SafeRoom(s, 0)
  PROVE  SafeRoom(r, 0)
<1>1. PICK q \in Seq(PacketSet("L2")) : q = s.queue["L2"]
  BY PacketsBelow
<1>2. \A i \in 1 .. Len(q) : q[i].addr \in Lines
  BY PacketsBelow
<1>3. /\ r.abort = s.abort /\ r.queue = s.queue /\ r.mshr = s.mshr
      /\ \A a \in Lines : Holding(s, "L2", a) # {} => Holding(r, "L2", a) # {}
  BY DEF ComesIn
<1>4. \A d \in {"L1I", "L1D"}, a \in Lines : Holding(r, d, a) = Holding(s, d, a)
  BY DEF ComesIn, Holding
<1>5. L1Held(s) => L1Held(r)
  BY <1>3, <1>4 DEF L1Held
<1>6. BacksHeld(s) => BacksHeld(r)
  BY <1>1, <1>2, <1>3 DEF BacksHeld
<1>7. (ReadsWait(s) => ReadsWait(r)) /\ (Turns(s, 0) => Turns(r, 0)) /\ (Room(s) => Room(r))
  BY <1>3 DEF ReadsWait, Turns, Room
<1>8. QED
  BY <1>3, <1>5, <1>6, <1>7 DEF Safe, SafeRoom, Included

\* recvResp of the L2, which evicts nothing.
LEMMA FillL2Safe ==
  ASSUME L2HoldsAll, NEW s, Typed(s), s.abort = "none", HalfExact(s, 0),
         NEW line \in Lines, Fillable2(s, line),
         NEW data \in [Offsets -> Values], data = Image(s.store, line),
         NEW victim, Evicts(victim),
         NEW m \in [Addresses -> Values], NEW req, Right(s, 0, m, req), SafeRoom(s, 0),
         NEW r, r = FillL2(s, line, data, victim)
  PROVE  SafeRoom(r, 0)
<1>0. line \in Addresses /\ BlockAddress(line) = line
  BY LineFacts
<1>1. /\ "L2" \in Caches /\ BlockOf(line) \in Held("L2") /\ BlockOf(line) \in Blocks
  BY <1>0, AddressParts DEF Caches, Held
<1>2. PICK x : x = Placed(s, "L2", line, data, victim)
  OBVIOUS
<1>3. victim["L2"][BlockOf(line)] \in Ways("L2")
  BY <1>1 DEF Evicts
<1>4. Unique(s) /\ Holding(s, "L2", line) = {}
  BY DEF Right, Coherent, Shaped, Fillable2
<1>5. ComesIn(s, x) /\ Holding(x, "L2", line) # {}
  BY <1>2, <1>4, FreePlaced
<1>6. Typed(x) /\ x.mshr = s.mshr /\ x.queue = s.queue /\ x.abort = "none"
  BY <1>5 DEF ComesIn
<1>7. HalfSound(x)
  <2>1. SameWaiting(s, x, "L2")
    BY <1>6 DEF SameWaiting
  <2>2. \A d \in {"L1I", "L1D"} : x.blocks[d] = s.blocks[d]
    BY <1>5 DEF ComesIn
  <2>3. HalfExact(x, 0)
    BY <1>6, <2>1, <2>2, HalfSame
  <2>4. QED
    BY <1>6, <2>3 DEF HalfSound
<1>8. Right(x, 0, m, req)
  <2>1. \A v : Unread(s, 0, "L2", v) <=>
                 \A kind \in {"fetch", "load"} : LiveAt(s.queue["Mem"], 0, kind, v) = {}
    BY DEF Unread
  <2>2. Fits(s, 0, "L2", line, data, After(m, s.out, req))
    BY <2>1 DEF Fits, Fillable2
  <2>3. QED
    BY <1>0, <1>1, <1>2, <1>3, <1>4, <2>2, PlacedRight
<1>9. PICK subs : subs = s.mshr["L2"][1].sub
  OBVIOUS
<1>10. PICK y : y = AllServedL2(x, line, victim, subs)
  OBVIOUS
<1>11. /\ subs = x.mshr["L2"][1].sub /\ subs # <<>>
       /\ x.mshr["L2"][1].address = BlockAddress(line)
  BY <1>0, <1>6, <1>9 DEF Fillable2
<1>12. SafeRoom(x, 0)
  BY <1>5, MoreSafe
<1>13. SafeRoom(y, 0)
  BY <1>0, <1>5, <1>6, <1>7, <1>8, <1>10, <1>11, <1>12, ServedL2Safe
<1>14. Typed(y)
  <2>1. ServingExact([addr |-> line, from |-> x], Len(subs), y)
    BY <1>0, <1>5, <1>6, <1>7, <1>10, <1>11, ServedExact
  <2>2. QED
    BY <2>1 DEF ServingExact, ServingL2
<1>15. r = Released(y, "L2")
  <2>1. r = IF subs = <<>> THEN Fails(x, "noentry")
            ELSE [y EXCEPT !.mshr["L2"][1].address = 0]
    BY <1>2, <1>9, <1>10, Zenon DEF FillL2, AllServedL2
  <2>2. QED
    BY <1>11, <2>1 DEF Released
<1>16. Alike(y, r)
  <2>1. /\ r.abort = y.abort /\ r.queue = y.queue /\ r.blocks = y.blocks
        /\ \A d \in {"L1I", "L1D", "L2"} : r.mshr[d][1].sub = y.mshr[d][1].sub
    <3>1. \A d \in Caches : 1 \in 1 .. MshrEntries[d] /\ y.mshr[d][1] \in EntrySet(d)
      BY <1>14, Geometry DEF Typed, MshrTyped
    <3>2. {"L1I", "L1D", "L2"} = Caches
      BY DEF Caches
    <3>3. QED
      BY <1>14, <1>15, <3>1, <3>2 DEF Released, Typed, MshrTyped, EntrySet
  <2>2. QED
    BY <2>1 DEF Alike, SameL2, Holding
<1>17. QED
  BY <1>13, <1>14, <1>16, AlikeSafe

\* Memory writes a block, or answers the L2 with one.
LEMMA ServeMemSafe ==
  ASSUME L2HoldsAll, NEW s, Typed(s), Sound(s, 0), s.queue["Mem"] # <<>>,
         NEW p, p = Head(s.queue["Mem"]), NEW victim, Evicts(victim),
         NEW m \in [Addresses -> Values], NEW req, Right(s, 0, m, req), SafeRoom(s, 0),
         NEW r, r = ServeMem(s, p, victim)
  PROVE  SafeRoom(r, 0)
<1>1. "Mem" \in Levels /\ "L2" \in Levels \ {"Mem"} /\ {"L1I", "L1D"} \subseteq Levels
  BY DEF Levels, Caches
<1>2. PICK q \in Seq(PacketSet("Mem")) : q = s.queue["Mem"]
  <2>1. s.queue["Mem"] \in Seq(PacketSet("Mem"))
    BY <1>1 DEF Typed, QueuesTyped
  <2>2. QED
    BY <2>1
<1>3. PICK t \in Seq(PacketSet("Mem")) : t = Tail(q)
  <2>1. Tail(q) \in Seq(PacketSet("Mem"))
    BY <1>2
  <2>2. QED
    BY <2>1
<1>4. p \in PacketSet("Mem")
  BY <1>2
<1>5. PICK line \in Lines : line = p.addr
  <2>1. p.addr \in Addresses /\ BlockAddress(p.addr) = p.addr
    BY <1>1, <1>4, PacketFacts
  <2>2. QED
    BY <2>1, LineOf
<1>6. line \in Addresses /\ BlockAddress(line) = line
  BY LineFacts
<1>7. PICK x : x = [s EXCEPT !.queue["Mem"] = Tail(@)]
  OBVIOUS
<1>8. x = WithQueue(s, "Mem", t)
  BY <1>2, <1>3, <1>7 DEF WithQueue
<1>9. /\ Typed(x) /\ x.blocks = s.blocks /\ x.mshr = s.mshr /\ x.store = s.store
      /\ x.abort = s.abort /\ x.out = s.out
      /\ \A d \in Levels \ {"Mem"} : x.queue[d] = s.queue[d]
      /\ x.queue["Mem"] = t
  <2>1. "Mem" \in Levels
    BY <1>1
  <2>2. QED
    BY <1>8, <2>1, QueueChange
<1>10. CASE s.abort # "none"
  <2>1. MemServed(s, r)
    BY ServeMemEffect
  <2>2. r.abort = s.abort
    BY <1>10, <2>1 DEF MemServed, May
  <2>3. QED
    BY <1>10, <2>2 DEF SafeRoom, Safe
<1>11. CASE s.abort = "none" /\ IsWrite(p)
  <2>1. PICK new : new = Written(s.store, p.addr, p.data)
    OBVIOUS
  <2>2. r = [x EXCEPT !.store = new]
    <3>1. r = [x EXCEPT !.store = [a \in Addresses |->
                 IF a \in {p.addr + o : o \in Offsets} THEN p.data[a - p.addr] ELSE @[a]]]
      BY <1>7, <1>11 DEF ServeMem
    <3>2. QED
      BY <1>9, <2>1, <3>1 DEF Written
  <2>3. r.queue = x.queue /\ r.blocks = x.blocks /\ r.mshr = x.mshr /\ r.abort = x.abort
    BY <1>9, <2>2 DEF Typed
  <2>4. Alike(s, r)
    <3>1. r.queue["L2"] = s.queue["L2"] /\ r.abort = s.abort
      BY <1>1, <1>9, <2>3
    <3>2. r.mshr = s.mshr /\ r.blocks = s.blocks
      BY <1>9, <2>3
    <3>3. QED
      BY <3>1, <3>2 DEF Alike, SameL2, Holding
  <2>5. QED
    BY <2>4, AlikeSafe
<1>12. CASE s.abort = "none" /\ ~IsWrite(p)
  <2>1. PICK data : data = [o \in Offsets |-> s.store[p.addr + o]]
    OBVIOUS
  <2>2. data \in [Offsets -> Values] /\ data = Image(x.store, line)
    <3>1. \A o \in Offsets : line + o \in Addresses
      BY LineFacts
    <3>2. \A o \in Offsets : s.store[line + o] \in Values
      BY <3>1 DEF Typed
    <3>3. QED
      BY <1>5, <1>9, <2>1, <3>2 DEF Image
  <2>3. r = FillL2(x, line, data, victim)
    BY <1>5, <1>7, <1>12, <2>1 DEF ServeMem
  <2>4. WholeExact(s, 0)
    BY <1>12 DEF Sound
  <2>5. HalfExact(x, 0)
    <3>1. SameWaiting(s, x, "L2")
      BY <1>9 DEF SameWaiting
    <3>2. x.queue["L2"] = s.queue["L2"]
      BY <1>1, <1>9
    <3>3. QED
      BY <1>9, <2>4, <3>1, <3>2, HalfSame DEF WholeExact
  <2>6. Right(x, 0, m, req)
    BY <1>2, <1>3, <1>8, <1>12, TakenRight
  <2>7. Fillable2(x, line)
    BY <1>2, <1>3, <1>5, <1>9, <1>12, <2>4, ReadFillable2
  <2>8. SafeRoom(x, 0)
    <3>1. Alike(s, x)
      BY <1>1, <1>9 DEF Alike, SameL2, Holding
    <3>2. QED
      BY <3>1, AlikeSafe
  <2>9. QED
    BY <1>9, <1>12, <2>2, <2>3, <2>5, <2>6, <2>7, <2>8, FillL2Safe
<1>13. QED
  BY <1>10, <1>11, <1>12

\* Memory's Tick, served up to its k-th packet.
SafeMem(ctx, k, x) == RightMem(ctx, k, x) /\ SafeRoom(x, 0)

\* The packets of memory's queue keep it, by induction.
SafeMemFold == INSTANCE FoldInduction WITH
                 op <- LAMBDA victim, unused1, unused2, x, p : ServeMem(x, p, victim),
                 J <- SafeMem

\* One packet of memory's queue.
LEMMA SafeMemStep ==
  ASSUME L2HoldsAll, NEW from, Typed(from), NEW ctx, ctx.from = from,
         ctx.m \in [Addresses -> Values], NEW victim, Evicts(victim),
         NEW q, q = from.queue["Mem"], NEW k \in 1 .. Len(q), NEW x, SafeMem(ctx, k - 1, x)
  PROVE  SafeMem(ctx, k, ServeMem(x, q[k], victim))
<1>1. "Mem" \in Levels
  BY DEF Levels
<1>2. q \in Seq(PacketSet("Mem")) /\ Len(q) \in Nat
  BY <1>1 DEF Typed, QueuesTyped
<1>3. (k - 1) + 1 = k
  BY <1>2
<1>4. RightMem(ctx, k - 1, x) /\ SafeRoom(x, 0)
  BY DEF SafeMem
<1>5. MemTicking(ctx, k - 1, x) /\ Sound(x, 0) /\ Right(x, 0, ctx.m, ctx.req)
  BY <1>4 DEF RightMem, MemExact
<1>6. Typed(x) /\ Extended("Mem", SubSeq(q, k, Len(q)), x.queue["Mem"])
  BY <1>3, <1>5 DEF MemTicking
<1>7. x.queue["Mem"] \in Seq(PacketSet("Mem"))
  BY <1>1, <1>6 DEF Typed, QueuesTyped
<1>8. x.queue["Mem"] # <<>> /\ Head(x.queue["Mem"]) = q[k]
  BY <1>1, <1>2, <1>6, <1>7, TailExtended
<1>9. RightMem(ctx, k, ServeMem(x, q[k], victim))
  BY <1>4, RightMemStep
<1>10. SafeRoom(ServeMem(x, q[k], victim), 0)
  BY <1>4, <1>5, <1>6, <1>8, ServeMemSafe
<1>11. QED
  BY <1>9, <1>10 DEF SafeMem

\* Memory's Tick.
LEMMA MemTickSafe ==
  ASSUME L2HoldsAll, NEW s, Typed(s), Sound(s, 0), NEW victim, Evicts(victim),
         NEW m \in [Addresses -> Values], NEW req, Right(s, 0, m, req), SafeRoom(s, 0)
  PROVE  SafeRoom(MemTick(s, victim), 0)
<1>1. "Mem" \in Levels /\ "L2" \in Levels
  BY DEF Levels, Caches
<1>2. PICK q : q = s.queue["Mem"]
  OBVIOUS
<1>3. q \in Seq(PacketSet("Mem")) /\ Len(q) \in Nat
  BY <1>1, <1>2 DEF Typed, QueuesTyped
<1>4. s.queue["L2"] \in Seq(PacketSet("L2"))
  BY <1>1 DEF Typed, QueuesTyped
<1>5. PICK n : n = Due(q)
  OBVIOUS
<1>6. n \in 0 .. Len(q)
  BY <1>1, <1>3, <1>5, DueEffect
<1>7. PICK seq : seq = SubSeq(q, 1, n)
  OBVIOUS
<1>8. Len(seq) = n /\ \A k \in 1 .. n : seq[k] = q[k] /\ k \in 1 .. Len(q)
  BY <1>3, <1>6, <1>7
<1>9. PICK ctx : ctx = [from |-> s, m |-> m, req |-> req]
  OBVIOUS
<1>10. ctx.from = s /\ ctx.m = m /\ ctx.req = req
  BY <1>9
<1>11. SafeMem(ctx, 0, s)
  <2>1. SubSeq(q, 0 + 1, Len(q)) = q
    BY <1>3
  <2>2. Extended("L2", s.queue["L2"], s.queue["L2"])
    BY <1>4 DEF Extended
  <2>3. Extended("Mem", q, q)
    BY <1>3 DEF Extended
  <2>4. Settles(s, s)
    BY SettlesSame
  <2>5. MemExact(ctx, 0, s)
    BY <1>2, <1>10, <2>1, <2>2, <2>3, <2>4 DEF MemExact, MemTicking, May
  <2>6. QED
    BY <1>10, <2>5 DEF RightMem, SafeMem
<1>12. \A k \in 1 .. Len(seq) : \A x :
         SafeMem(ctx, k - 1, x) => SafeMem(ctx, k, ServeMem(x, seq[k], victim))
  <2> TAKE k \in 1 .. Len(seq)
  <2> TAKE x
  <2> HAVE SafeMem(ctx, k - 1, x)
  <2>1. k \in 1 .. Len(q) /\ seq[k] = q[k]
    BY <1>8
  <2>2. SafeMem(ctx, k, ServeMem(x, q[k], victim))
    BY <1>2, <1>10, <2>1, SafeMemStep
  <2>3. QED
    BY <2>1, <2>2
<1>13. PICK r : r = SafeMemFold!Fold(victim, 0, 0, s, seq)
  OBVIOUS
<1>14. r = AllServedMem(s, victim, seq)
  BY <1>13, Zenon DEF AllServedMem, SafeMemFold!Fold, FoldLeft, MapThenFoldSet, Max,
                      SafeMemFold!FoldLeft, SafeMemFold!MapThenFoldSet, SafeMemFold!Max
<1>15. SafeMem(ctx, Len(seq), r)
  <2>1. seq \in Seq(PacketSet("Mem"))
    BY <1>3, <1>6, <1>7
  <2>2. QED
    BY <1>11, <1>12, <1>13, <2>1, SafeMemFold!FoldInvariant
<1>16. MemTick(s, victim) = r
  <2>1. MemTick(s, victim) =
          AllServedMem(s, victim, SubSeq(s.queue["Mem"], 1, Due(s.queue["Mem"])))
    BY Zenon DEF MemTick, AllServedMem
  <2>2. QED
    BY <1>2, <1>5, <1>7, <1>14, <2>1, Zenon
<1>17. QED
  BY <1>15, <1>16, Zenon DEF SafeMem

-------------------------------------------------------------------------------
(* A packet of a cache's queue.                                              *)

\* While a cache's Tick is at its k-th packet.  Only the L2's answers packets, and so
\* needs room.
TickSafe(c, k, s) ==
  /\ Safe(s, Passes(c, k))
  /\ c = "L2" /\ s.abort = "none" => Room(s)

\* A miss refuses nothing; what it asks for may be out of memory's regions.
LEMMA MissAborts ==
  ASSUME NEW s, Typed(s), NEW c, NEW i
  PROVE  Miss(s, c, i).abort \in {s.abort, "unallocated"}
<1>1. PICK p : p = s.queue[c][i]
  OBVIOUS
<1>2. ASSUME NEW x, Typed(x), NEW d, NEW q
      PROVE  recvReq(x, d, q).abort \in {x.abort, "unallocated"}
  BY <1>2 DEF recvReq, Fails, Typed
<1>3. processCacheMiss(s, c, p).abort \in {s.abort, "unallocated"}
  BY DEF processCacheMiss, recvReq, Fails, Typed
<1>4. QED
  BY <1>1, <1>3 DEF Miss, Typed

\* A level 1 cache answers the core, or waits, or asks the L2.
LEMMA ProcessL1Safe ==
  ASSUME NEW s, Typed(s), NEW c \in {"L1I", "L1D"}, NEW i \in 1 .. Len(s.queue[c]),
         Safe(s, 0), NEW victim, Evicts(victim), NEW p, p = s.queue[c][i],
         NEW r, r = IF Holding(s, c, p.addr) # {} THEN Hit(s, c, p, victim)
                    ELSE Miss(s, c, i)
  PROVE  Safe(r, 0)
<1>1. /\ c \in Caches /\ "L2" \in Caches \ {c} /\ "L2" \in Levels \ {c} /\ Next1(c) = "L2"
      /\ \A d \in {"L1I", "L1D", "L2"} : d = c \/ d \in Caches \ {c}
  BY DEF Caches, Levels, Next1
<1>2. p \in PacketSet(c)
  BY <1>1, QueuedPacket
<1>3. CASE Holding(s, c, p.addr) # {}
  <2>1. HitDone(s, c, p, r)
    BY <1>1, <1>2, <1>3, HitEffect
  <2>2. /\ r.queue = s.queue /\ r.mshr = s.mshr /\ r.abort = s.abort
        /\ \A d \in Caches \ {c} : r.blocks[d] = s.blocks[d]
        /\ \A a \in Addresses : Holding(r, c, a) = Holding(s, c, a)
    BY <1>1, <2>1 DEF HitDone
  <2>3. ASSUME NEW d \in {"L1I", "L1D", "L2"}, NEW a \in Lines
        PROVE  Holding(r, d, a) = Holding(s, d, a)
    <3>1. CASE d = c
      BY <2>2, <3>1, LineFacts
    <3>2. CASE d # c
      <4>1. r.blocks[d] = s.blocks[d]
        BY <1>1, <2>2, <3>2
      <4>2. QED
        BY <4>1 DEF Holding
    <3>3. QED
      BY <3>1, <3>2
  <2>4. SameL2(s, r)
    BY <2>2, <2>3 DEF SameL2
  <2>5. QED
    BY <2>4, SameSafe
<1>4. CASE Holding(s, c, p.addr) = {}
  <2>1. r = Miss(s, c, i)
    BY <1>4
  <2>2. Missed(s, c, i, r)
    BY <1>1, <2>1, MissEffect
  <2>3. r.abort \in {s.abort, "unallocated"}
    BY <2>1, MissAborts
  <2>4. r.blocks = s.blocks /\ \A d, a : Holding(r, d, a) = Holding(s, d, a)
    BY <2>2 DEF Missed, Holding
  <2>5. r.mshr["L2"] = s.mshr["L2"]
    BY <1>1, <2>2 DEF Missed, PutOff, Joined, Issued, EntryTaken
  <2>6. \/ r.queue["L2"] = s.queue["L2"] /\ (r.abort = s.abort \/ r.abort # "none")
        \/ /\ r.abort = s.abort
           /\ \E q \in PacketSet("L2") : ~IsWrite(q) /\ r.queue["L2"] = Append(s.queue["L2"], q)
    <3>1. CASE PutOff(s, c, i, r)
      BY <1>1, <3>1 DEF PutOff
    <3>2. CASE Joined(s, c, p, r)
      BY <3>2 DEF Joined
    <3>3. CASE Issued(s, c, p, r)
      BY <1>1, <3>3 DEF Issued
    <3>4. QED
      BY <2>2, <3>1, <3>2, <3>3 DEF Missed
  <2>7. CASE r.abort # s.abort
    <3>1. r.abort = "unallocated"
      BY <2>3, <2>7
    <3>2. QED
      BY <3>1 DEF Safe
  <2>8. CASE r.abort = s.abort /\ r.queue["L2"] = s.queue["L2"]
    <3>1. SameL2(s, r)
      BY <2>4, <2>5, <2>8 DEF SameL2
    <3>2. QED
      BY <3>1, SameSafe
  <2>9. CASE /\ r.abort = s.abort /\ s.abort = "none"
             /\ \E q \in PacketSet("L2") : ~IsWrite(q) /\ r.queue["L2"] = Append(s.queue["L2"], q)
    <3>1. PICK q \in PacketSet("L2") : ~IsWrite(q) /\ r.queue["L2"] = Append(s.queue["L2"], q)
      BY <2>9
    <3>2. PICK t \in Seq(PacketSet("L2")) : t = s.queue["L2"]
      BY PacketsBelow
    <3>3. PICK new : new = Append(t, q)
      OBVIOUS
    <3>4. q.type # "writeback"
      BY <3>1 DEF IsWrite
    <3>5. Included(s) /\ Turns(s, 0)
      BY <2>9 DEF Safe
    <3>6. /\ InTurn(new, 0)
          /\ Without(t, 0, "writeback") => Without(new, 0, "writeback")
      <4>1. InTurn(t, 0)
        BY <3>2, <3>5 DEF Turns
      <4>2. QED
        BY <3>3, <3>4, <4>1, ReadInTurn
    <3>7. Turns(r, 0)
      BY <2>5, <3>1, <3>2, <3>3, <3>5, <3>6 DEF Turns
    <3>8. L1Held(r) /\ ReadsWait(r)
      BY <2>4, <2>5, <3>5 DEF Included, L1Held, ReadsWait
    <3>9. BacksHeld(r)
      <4>1. \A j \in 1 .. Len(new) : new[j] = q \/ (j \in 1 .. Len(t) /\ new[j] = t[j])
        BY <3>2, <3>3
      <4>2. \A j \in 1 .. Len(t) : t[j].type = "writeback" => Holding(r, "L2", t[j].addr) # {}
        BY <2>4, <3>2, <3>5 DEF Included, BacksHeld
      <4>3. \A j \in 1 .. Len(new) : new[j].type = "writeback" => Holding(r, "L2", new[j].addr) # {}
        BY <3>4, <4>1, <4>2
      <4>4. r.queue["L2"] = new
        BY <3>1, <3>2, <3>3
      <4>5. QED
        BY <4>3, <4>4 DEF BacksHeld
    <3>10. QED
      BY <2>9, <3>7, <3>8, <3>9 DEF Safe, Included
  <2>10. CASE s.abort # "none"
    BY <2>3, <2>10 DEF Safe
  <2>11. QED
    BY <2>6, <2>7, <2>8, <2>9, <2>10
<1>5. QED
  BY <1>3, <1>4

\* The i-th packet of the L2's queue is done with.
LEMMA PassedSafe ==
  ASSUME NEW s, Typed(s), NEW i \in 1 .. Len(s.queue["L2"]), SafeRoom(s, i - 1)
  PROVE  SafeRoom(s, i)
<1>1. PICK q \in Seq(PacketSet("L2")) : q = s.queue["L2"]
  BY PacketsBelow
<1>2. i \in 1 .. Len(q)
  BY <1>1
<1>3. /\ InTurn(q, i - 1) => InTurn(q, i)
      /\ Without(q, i - 1, "writeback") => Without(q, i, "writeback")
  BY <1>2, InTurnPassed
<1>4. Turns(s, i - 1) => Turns(s, i)
  BY <1>1, <1>3 DEF Turns
<1>5. QED
  BY <1>4 DEF SafeRoom, Safe

\* When the L2 comes to the L1D's load, no write-back is left.
LEMMA LoadAlone ==
  ASSUME NEW s, Typed(s), NEW i \in 1 .. Len(s.queue["L2"]), PutOffs(s, i - 1),
         BacksHeld(s), InTurn(s.queue["L2"], i - 1), Ready(s.queue["L2"][i]),
         s.queue["L2"][i].type = "load"
  PROVE  Without(s.queue["L2"], i, "writeback")
<1>1. PICK q \in Seq(PacketSet("L2")) : q = s.queue["L2"]
  BY PacketsBelow
<1>2. i \in LivePlaces(q, i - 1) /\ i \in Nat
  BY <1>1 DEF LivePlaces
<1>3. ASSUME NEW j \in LivePlaces(q, i), q[j].type = "writeback"
      PROVE  FALSE
  <2>1. j \in 1 .. Len(q) /\ (j > i \/ ~Ready(q[j])) /\ j \in Nat
    BY DEF LivePlaces
  <2>2. CASE j > i
    <3>1. j \in LivePlaces(q, i - 1)
      BY <1>2, <2>1, <2>2 DEF LivePlaces
    <3>2. j <= i
      BY <1>1, <1>2, <1>3, <3>1 DEF InTurn
    <3>3. QED
      BY <1>2, <2>1, <2>2, <3>2
  <2>3. CASE j <= i
    <3>1. ~Ready(q[j]) /\ j # i
      BY <1>1, <1>2, <2>1, <2>3
    <3>2. j <= i - 1
      BY <1>2, <2>1, <2>3, <3>1
    <3>3. Holding(s, "L2", q[j].addr) = {}
      BY <1>1, <2>1, <3>1, <3>2 DEF PutOffs
    <3>4. QED
      BY <1>1, <1>3, <2>1, <3>3 DEF BacksHeld
  <2>4. QED
    BY <1>2, <2>1, <2>2, <2>3
<1>4. QED
  BY <1>1, <1>3 DEF Without

\* The L2 answers a read.
LEMMA HitReadSafe ==
  ASSUME NEW s, Typed(s), s.abort = "none", NEW i \in 1 .. Len(s.queue["L2"]),
         Ready(s.queue["L2"][i]), NEW p, p = s.queue["L2"][i], ~IsWrite(p),
         WholeExact(s, i - 1), PutOffs(s, i - 1), Holding(s, "L2", p.addr) # {},
         NEW victim, Evicts(victim), NEW m, NEW req, Right(s, i - 1, m, req),
         SafeRoom(s, i - 1), NEW r, r = Hit(s, "L2", p, victim)
  PROVE  SafeRoom(r, i)
<1>1. "L2" \in Caches /\ "L2" \in Levels
  BY DEF Caches, Levels
<1>2. p \in PacketSet("L2") /\ p.addr \in Addresses
  BY <1>1, QueuedPacket
<1>3. PICK line \in Lines : line = p.addr /\ BlockAddress(line) = line
  BY <1>1, <1>2, PacketFacts, LineOf
<1>4. PICK c \in {"L1I", "L1D"} : c = PrevOf(p)
  BY <1>2, ReadFrom
<1>5. PICK x : x = Apply(s, "L2", p.addr, p)
  OBVIOUS
<1>6. PICK data : data = BlockAt(x, "L2", p.addr).data
  OBVIOUS
<1>7. PICK y : y = FillL1(x, c, line, data, victim)
  OBVIOUS
<1>8. r = [y EXCEPT !.freed = TRUE]
  BY <1>2, <1>3, <1>4, <1>5, <1>6, <1>7 DEF Hit, IsWrite
<1>9. /\ Typed(x) /\ x.queue = s.queue /\ x.mshr = s.mshr
      /\ x.abort = s.abort /\ Holding(x, "L2", p.addr) # {}
  BY <1>1, <1>2, <1>5, ApplyEffect
<1>10. Unique(s)
  BY DEF Right, Coherent, Shaped
<1>11. AsBefore(s, "L2", p.addr, x)
  BY <1>1, <1>2, <1>5, <1>10, ReadApplied
<1>12. Alike(s, x)
  <2>1. \A d \in {"L1I", "L1D", "L2"}, a \in Lines : Holding(x, d, a) = Holding(s, d, a)
    BY <1>11, LineFacts DEF AsBefore, Caches
  <2>2. QED
    BY <1>9, <2>1 DEF Alike, SameL2
<1>13. SafeRoom(x, i - 1)
  BY <1>12, AlikeSafe
<1>14. i \in 1 .. Len(x.queue["L2"])
  BY <1>9
<1>15. SafeRoom(x, i)
  BY <1>9, <1>13, <1>14, PassedSafe
<1>16. x.abort = "none" /\ Room(x) /\ Unique(x)
  <2>1. Right(x, i - 1, m, req)
    BY <1>11, AsBeforeRight
  <2>2. QED
    BY <1>9, <1>15, <2>1 DEF SafeRoom, Right, Coherent, Shaped
<1>17. HalfExact(x, i - 1)
  <2>1. SameWaiting(s, x, "L2")
    BY <1>9 DEF SameWaiting
  <2>2. HalfExact(s, i - 1)
    BY DEF WholeExact
  <2>3. x.blocks["L1I"] = s.blocks["L1I"] /\ x.blocks["L1D"] = s.blocks["L1D"]
    BY <1>11 DEF AsBefore, Caches
  <2>4. QED
    BY <1>9, <2>1, <2>2, <2>3, HalfSame
<1>18. Is(p, KindOf(c), line)
  <2>1. \A d \in {"L1I", "L1D"} : \A a :
          Is(p, KindOf(d), a) <=> d = PrevOf(p) /\ a = p.addr
    BY <1>2, ReadFrom
  <2>2. QED
    BY <1>3, <1>4, <2>1
<1>19. AskedFor(x, i - 1, c, line)
  <2>1. i > i - 1 /\ x.queue["L2"][i] = p /\ i \in 1 .. Len(x.queue["L2"])
    BY <1>9
  <2>2. i \in LiveAt(x.queue["L2"], i - 1, KindOf(c), line)
    BY <1>18, <2>1 DEF LiveAt
  <2>3. QED
    BY <2>2 DEF AskedFor
<1>20. data \in [Offsets -> Values]
  BY <1>1, <1>2, <1>6, <1>9, WayHolds
<1>21. AnsweredWith(x, c, line, y)
  <2>1. PICK k : k = i - 1
    OBVIOUS
  <2>2. HalfExact(x, k) /\ AskedFor(x, k, c, line)
    BY <1>17, <1>19, <2>1
  <2>3. QED
    BY <1>2, <1>3, <1>4, <1>7, <1>9, <1>16, <1>20, <2>2, AnswerRefills, Zenon
<1>22. Refilled(x, c, line, y) /\ x.mshr[c][1].sub # <<>> /\ Typed(y) /\ y.abort = "none"
  BY <1>21 DEF AnsweredWith, Refilled
<1>23. Alike(y, r)
  <2>1. r.queue = y.queue /\ r.blocks = y.blocks /\ r.mshr = y.mshr /\ r.abort = y.abort
    BY <1>8, <1>22 DEF Typed
  <2>2. QED
    BY <2>1 DEF Alike, SameL2, Holding
<1>24. HalfExact(y, i)
  <2>1. HitDone(s, "L2", p, r)
    BY <1>1, <1>2, HitEffect
  <2>2. WholeExact(s, Passes("L2", i - 1)) /\ Passes("L2", i) = i
    BY DEF Passes
  <2>3. Sound(r, i)
    BY <1>1, <2>1, <2>2, HitExact
  <2>4. /\ r.queue = y.queue /\ r.blocks = y.blocks /\ r.mshr = y.mshr /\ r.abort = "none"
    BY <1>8, <1>22 DEF Typed
  <2>5. HalfExact(r, i)
    BY <2>3, <2>4 DEF Sound, WholeExact
  <2>6. SameWaiting(r, y, "L2")
    BY <2>4 DEF SameWaiting
  <2>7. QED
    BY <2>4, <2>5, <2>6, HalfSame
<1>25. c = "L1D" => Without(x.queue["L2"], i, "writeback")
  <2>1. c = "L1D" => p.type = "load"
    BY <1>18 DEF Is, KindOf
  <2>2. BacksHeld(s) /\ InTurn(s.queue["L2"], i - 1)
    BY DEF SafeRoom, Safe, Included, Turns
  <2>3. QED
    BY <1>9, <2>1, <2>2, LoadAlone
<1>26. i \in Nat /\ i <= Len(x.queue["L2"]) /\ Holding(x, "L2", line) # {}
  <2>1. s.queue["L2"] \in Seq(PacketSet("L2"))
    BY PacketsBelow
  <2>2. Len(s.queue["L2"]) \in Nat
    BY <2>1
  <2>3. QED
    BY <1>3, <1>9, <2>2
<1>27. SafeRoom(y, i)
  BY <1>9, <1>15, <1>16, <1>22, <1>24, <1>25, <1>26, RefillSafe
<1>28. QED
  BY <1>22, <1>23, <1>27, AlikeSafe

\* The L2 takes a write-back.
LEMMA HitBackSafe ==
  ASSUME NEW s, Typed(s), NEW i \in 1 .. Len(s.queue["L2"]),
         NEW p, p = s.queue["L2"][i], IsWrite(p), Holding(s, "L2", p.addr) # {},
         NEW victim, Evicts(victim), SafeRoom(s, i - 1), NEW r, r = Hit(s, "L2", p, victim)
  PROVE  SafeRoom(r, i)
<1>1. /\ "L2" \in Caches /\ \A d \in {"L1I", "L1D"} : d \in Caches \ {"L2"}
  BY DEF Caches
<1>2. p \in PacketSet("L2")
  BY <1>1, QueuedPacket
<1>3. HitDone(s, "L2", p, r)
  BY <1>1, <1>2, HitEffect
<1>4. /\ r.queue = s.queue /\ r.mshr = s.mshr /\ r.abort = s.abort
      /\ \A d \in Caches \ {"L2"} : r.blocks[d] = s.blocks[d]
      /\ \A a \in Addresses : Holding(r, "L2", a) = Holding(s, "L2", a)
  BY <1>3 DEF HitDone
<1>5. ASSUME NEW d \in {"L1I", "L1D", "L2"}, NEW a \in Lines
      PROVE  Holding(r, d, a) = Holding(s, d, a)
  <2>1. CASE d = "L2"
    BY <1>4, <2>1, LineFacts
  <2>2. CASE d # "L2"
    <3>1. r.blocks[d] = s.blocks[d]
      BY <1>1, <1>4, <2>2
    <3>2. QED
      BY <3>1 DEF Holding
  <2>3. QED
    BY <2>1, <2>2
<1>6. Alike(s, r)
  BY <1>4, <1>5 DEF Alike, SameL2
<1>7. SafeRoom(s, i)
  BY PassedSafe
<1>8. QED
  BY <1>6, <1>7, AlikeSafe

\* The L2 puts a read off.
LEMMA PutOffSafe ==
  ASSUME NEW s, Typed(s), s.abort = "none", NEW i \in 1 .. Len(s.queue["L2"]),
         SafeRoom(s, i - 1), NEW r, r.blocks = s.blocks, PutOff(s, "L2", i, r)
  PROVE  SafeRoom(r, i)
<1>1. PICK q \in Seq(PacketSet("L2")) : q = s.queue["L2"]
  BY PacketsBelow
<1>2. PICK t : t = r.queue["L2"]
  OBVIOUS
<1>3. "L2" \in Levels /\ i \in 1 .. Len(q)
  BY <1>1 DEF Levels, Caches
<1>4. /\ Len(t) = Len(q) /\ t[i] = [q[i] EXCEPT !.ready = 1]
      /\ \A j \in (1 .. Len(q)) \ {i} : t[j] = q[j]
  BY <1>1, <1>2 DEF PutOff
<1>5. /\ \A kind, a : LiveAt(t, i, kind, a) = LiveAt(q, i - 1, kind, a)
      /\ \A j \in 1 .. Len(q) : SamePacket(t[j], q[j])
  BY <1>3, <1>4, PutOffKeeps, SMTT(60)
<1>6. \A j \in 1 .. Len(q) : t[j].type = q[j].type /\ t[j].addr = q[j].addr
  BY <1>5 DEF SamePacket
<1>7. LivePlaces(t, i) = LivePlaces(q, i - 1)
  <2>1. \A j : j \in LivePlaces(t, i) <=> j \in LiveAt(t, i, t[j].type, t[j].addr)
    BY DEF LivePlaces, LiveAt, Is
  <2>2. \A j : j \in LivePlaces(q, i - 1) <=> j \in LiveAt(q, i - 1, q[j].type, q[j].addr)
    BY DEF LivePlaces, LiveAt, Is
  <2>3. \A j : j \in LivePlaces(t, i) => j \in 1 .. Len(q)
    BY <1>4 DEF LivePlaces
  <2>4. \A j : j \in LivePlaces(q, i - 1) => j \in 1 .. Len(q)
    BY DEF LivePlaces
  <2>5. QED
    BY <1>5, <1>6, <2>1, <2>2, <2>3, <2>4, ZenonT(60)
<1>8. SamePlaces(q, i - 1, t, i)
  <2>1. \A j \in LivePlaces(q, i - 1) : j \in 1 .. Len(q)
    BY DEF LivePlaces
  <2>2. QED
    BY <1>6, <1>7, <2>1 DEF SamePlaces
<1>9. /\ InTurn(q, i - 1) => InTurn(t, i)
      /\ Without(q, i - 1, "writeback") => Without(t, i, "writeback")
  BY <1>8, InTurnSame
<1>10. r.mshr = s.mshr /\ r.abort = "none" /\ \A d, a : Holding(r, d, a) = Holding(s, d, a)
  BY DEF PutOff, Holding
<1>11. Included(s) /\ Turns(s, i - 1) /\ Room(s)
  BY DEF SafeRoom, Safe
<1>12. Turns(r, i)
  BY <1>1, <1>2, <1>9, <1>10, <1>11 DEF Turns
<1>13. L1Held(r) /\ ReadsWait(r)
  BY <1>10, <1>11 DEF Included, L1Held, ReadsWait
<1>14. BacksHeld(r)
  <2>1. \A j \in 1 .. Len(q) : q[j].type = "writeback" => Holding(s, "L2", q[j].addr) # {}
    BY <1>1, <1>11 DEF Included, BacksHeld
  <2>2. \A j \in 1 .. Len(t) : t[j].type = "writeback" => Holding(r, "L2", t[j].addr) # {}
    BY <1>4, <1>6, <1>10, <2>1
  <2>3. QED
    BY <1>2, <2>2 DEF BacksHeld
<1>15. Room(r)
  BY <1>1, <1>2, <1>4, <1>10, <1>11 DEF Room
<1>16. QED
  BY <1>10, <1>12, <1>13, <1>14, <1>15 DEF SafeRoom, Safe, Included

\* An entry of the L2's takes it.
LEMMA TakenSafe ==
  ASSUME NEW s, Typed(s), s.abort = "none", NEW i \in 1 .. Len(s.queue["L2"]),
         Ready(s.queue["L2"][i]), NEW p, p = s.queue["L2"][i], ~IsWrite(p),
         PutOffs(s, i - 1), SafeRoom(s, i - 1), NEW r, r.blocks = s.blocks, r.abort = "none",
         r.queue["L2"] = s.queue["L2"], EntryTaken(s, "L2", 1, p, r)
  PROVE  SafeRoom(r, i)
<1>1. PICK q \in Seq(PacketSet("L2")) : q = s.queue["L2"]
  BY PacketsBelow
<1>2. PICK sub \in Seq(PacketSet("L2")) : sub = s.mshr["L2"][1].sub
  BY PacketsBelow
<1>3. p \in PacketSet("L2")
  BY <1>1
<1>4. PICK new : new = Append(sub, p)
  OBVIOUS
<1>5. r.mshr["L2"][1].sub = new /\ r.mshr["L1D"] = s.mshr["L1D"]
  BY <1>2, <1>4 DEF EntryTaken, Caches
<1>6. \A j \in 1 .. Len(new) : new[j] = p \/ (j \in 1 .. Len(sub) /\ new[j] = sub[j])
  BY <1>3, <1>4
<1>7. SafeRoom(s, i)
  BY PassedSafe
<1>8. Included(s) /\ Turns(s, i - 1) /\ Turns(s, i) /\ Room(s)
  BY <1>7 DEF SafeRoom, Safe
<1>9. \A d, a : Holding(r, d, a) = Holding(s, d, a)
  BY DEF Holding
<1>10. L1Held(r) /\ BacksHeld(r)
  BY <1>8, <1>9 DEF Included, L1Held, BacksHeld
<1>11. ReadsWait(r)
  <2>1. \A j \in 1 .. Len(sub) : ~IsWrite(sub[j])
    BY <1>2, <1>8 DEF Included, ReadsWait
  <2>2. \A j \in 1 .. Len(new) : ~IsWrite(new[j])
    BY <1>6, <2>1
  <2>3. QED
    BY <1>5, <2>2 DEF ReadsWait
<1>12. Turns(r, i)
  <2>1. InTurn(q, i) /\ (Without(q, i, "writeback") \/ Without(sub, 0, "load"))
    BY <1>1, <1>2, <1>8 DEF Turns
  <2>2. p.type = "load" => Without(q, i, "writeback")
    <3>1. BacksHeld(s) /\ InTurn(s.queue["L2"], i - 1)
      BY <1>8 DEF Included, Turns
    <3>2. QED
      BY <1>1, <3>1, LoadAlone
  <2>3. p.type # "load" /\ Without(sub, 0, "load") => Without(new, 0, "load")
    <3>1. \A j \in LivePlaces(new, 0) : j \in 1 .. Len(new) /\ j > 0
      BY DEF LivePlaces
    <3>2. \A j \in 1 .. Len(sub) : j \in LivePlaces(sub, 0)
      BY DEF LivePlaces
    <3>3. QED
      BY <1>6, <3>1, <3>2 DEF Without
  <2>4. QED
    BY <1>1, <1>5, <2>1, <2>2, <2>3 DEF Turns
<1>13. Room(r)
  BY <1>5, <1>8 DEF Room
<1>14. QED
  BY <1>10, <1>11, <1>12, <1>13 DEF SafeRoom, Safe, Included

\* The L2 does not have the line: it is a read's.
LEMMA MissL2Safe ==
  ASSUME NEW s, Typed(s), s.abort = "none", NEW i \in 1 .. Len(s.queue["L2"]),
         Ready(s.queue["L2"][i]), NEW p, p = s.queue["L2"][i],
         PutOffs(s, i - 1), Holding(s, "L2", p.addr) = {}, SafeRoom(s, i - 1),
         NEW r, r = Miss(s, "L2", i), Alone(r)
  PROVE  SafeRoom(r, i)
<1>1. "L2" \in Caches /\ "L2" \in Levels \ {"Mem"} /\ Next1("L2") = "Mem"
  BY DEF Caches, Levels, Next1
<1>2. PICK q \in Seq(PacketSet("L2")) : q = s.queue["L2"]
  BY PacketsBelow
<1>3. p \in PacketSet("L2")
  BY <1>2
<1>4. ~IsWrite(p)
  <2>1. p.type # "writeback"
    BY DEF SafeRoom, Safe, Included, BacksHeld
  <2>2. QED
    BY <1>3, <2>1, PacketsBelow
<1>5. Missed(s, "L2", i, r)
  BY <1>1, MissEffect
<1>6. r.abort \in {"none", "unallocated"} /\ r.blocks = s.blocks
  BY <1>5, MissAborts DEF Missed
<1>7. CASE PutOff(s, "L2", i, r)
  BY <1>6, <1>7, PutOffSafe
<1>8. CASE Joined(s, "L2", p, r) \/ Issued(s, "L2", p, r)
  <2>1. EntryTaken(s, "L2", 1, p, r)
    BY <1>1, <1>3, <1>8, FirstTakes
  <2>2. r.queue["L2"] = s.queue["L2"]
    BY <1>1, <1>8 DEF Joined, Issued
  <2>3. CASE r.abort = "none"
    BY <1>4, <1>6, <2>1, <2>2, <2>3, TakenSafe
  <2>4. CASE r.abort # "none"
    BY <1>6, <2>4 DEF SafeRoom, Safe
  <2>5. QED
    BY <2>3, <2>4
<1>9. QED
  BY <1>5, <1>7, <1>8 DEF Missed

\* A packet is processed.
LEMMA ProcessSafe ==
  ASSUME NEW s, Typed(s), NEW c \in Caches, NEW i \in 1 .. Len(s.queue[c]),
         Ready(s.queue[c][i]), Sound(s, Passes(c, i - 1)),
         c = "L2" /\ s.abort = "none" => PutOffs(s, i - 1),
         NEW victim, Evicts(victim), NEW m \in [Addresses -> Values], NEW req,
         Right(s, Passes(c, i - 1), m, req), TickSafe(c, i - 1, s),
         NEW n, NEW r, r = Process(s, c, n, victim, i), Alone(r)
  PROVE  TickSafe(c, i, r)
<1>1. PICK p \in PacketSet(c) : p = s.queue[c][i]
  BY QueuedPacket
<1>2. PICK done : done = IF Holding(s, c, p.addr) # {} THEN Hit(s, c, p, victim)
                         ELSE Miss(s, c, i)
  OBVIOUS
<1>3. Typed(done) /\ (s.abort # "none" => done.abort = s.abort)
  <2>1. CASE Holding(s, c, p.addr) # {}
    <3>1. HitDone(s, c, p, done)
      BY <1>1, <1>2, <2>1, HitEffect
    <3>2. QED
      BY <3>1 DEF HitDone, May
  <2>2. CASE Holding(s, c, p.addr) = {}
    BY <1>1, <1>2, <2>2, MissEffect DEF Missed, PutOff, Joined, Issued, May
  <2>3. QED
    BY <2>1, <2>2
<1>4. PICK v : r = [done EXCEPT !.reused = v]
  BY <1>1, <1>2, <1>3 DEF Process, Typed
<1>5. r.queue = done.queue /\ r.blocks = done.blocks /\ r.mshr = done.mshr /\ r.abort = done.abort
  BY <1>3, <1>4 DEF Typed
<1>a. Alone(done)
  BY <1>5 DEF Alone
<1>6. Alike(done, r)
  BY <1>5 DEF Alike, SameL2, Holding
<1>7. CASE s.abort # "none"
  <2>1. r.abort = s.abort
    BY <1>3, <1>5, <1>7
  <2>2. QED
    BY <1>7, <2>1 DEF TickSafe, Safe
<1>8. CASE s.abort = "none" /\ c # "L2"
  <2>1. c \in {"L1I", "L1D"} /\ Safe(s, 0)
    BY <1>8 DEF Caches, TickSafe, Passes
  <2>2. Safe(done, 0)
    BY <1>1, <1>2, <2>1, ProcessL1Safe
  <2>3. Safe(r, 0)
    BY <1>3, <1>6, <2>2, AlikeSafe
  <2>4. QED
    BY <1>8, <2>3 DEF TickSafe, Passes
<1>9. CASE s.abort = "none" /\ c = "L2"
  <2>1. SafeRoom(s, i - 1) /\ WholeExact(s, i - 1) /\ PutOffs(s, i - 1) /\ Right(s, i - 1, m, req)
    BY <1>9 DEF TickSafe, SafeRoom, Passes, Sound
  <2>2. /\ i \in 1 .. Len(s.queue["L2"]) /\ Ready(s.queue["L2"][i]) /\ p = s.queue["L2"][i]
    BY <1>1, <1>9
  <2>3. SafeRoom(done, i)
    <3>1. CASE Holding(s, "L2", p.addr) = {}
      <4>1. done = Miss(s, "L2", i)
        BY <1>2, <1>9, <3>1
      <4>2. QED
        BY <1>9, <1>a, <2>1, <2>2, <3>1, <4>1, MissL2Safe
    <3>2. CASE Holding(s, "L2", p.addr) # {}
      <4>1. done = Hit(s, "L2", p, victim)
        BY <1>2, <1>9, <3>2
      <4>2. CASE IsWrite(p)
        BY <2>1, <2>2, <3>2, <4>1, <4>2, HitBackSafe
      <4>3. CASE ~IsWrite(p)
        BY <1>9, <2>1, <2>2, <3>2, <4>1, <4>3, HitReadSafe
      <4>4. QED
        BY <4>2, <4>3
    <3>3. QED
      BY <3>1, <3>2
  <2>4. SafeRoom(r, i)
    BY <1>3, <1>6, <2>3, AlikeSafe
  <2>5. QED
    BY <1>9, <2>4 DEF TickSafe, SafeRoom, Passes
<1>10. QED
  BY <1>7, <1>8, <1>9

-------------------------------------------------------------------------------
(* A cache's Tick.                                                           *)

\* The loop, once it has processed k packets of the queue.
SafeTick(ctx, k, x) ==
  RightTick(ctx, k, x) /\ (Alone(x) => TickSafe(ctx.tick.c, k, x))

\* It is a fold.
SafeTickFold == INSTANCE FoldInduction WITH
                  op <- LAMBDA c, n, victim, x, i : Process(x, c, n, victim, i),
                  J <- SafeTick

\* One packet more is processed.
LEMMA SafeTickStep ==
  ASSUME NEW c \in Caches, NEW from, Typed(from), NEW ctx,
         ctx.tick = [c |-> c, from |-> from], ctx.m \in [Addresses -> Values],
         NEW n, NEW victim, Evicts(victim),
         NEW k \in 1 .. Len(from.queue[c]), from.queue[c][k].ready = 0,
         NEW x, SafeTick(ctx, k - 1, x)
  PROVE  SafeTick(ctx, k, Process(x, c, n, victim, k))
<1>1. PICK tick : tick = ctx.tick
  OBVIOUS
<1>2. tick = [c |-> c, from |-> from] /\ tick.c = c /\ tick.from = from /\ c \in Levels
  BY <1>1 DEF Levels
<1>3. RightTick(ctx, k - 1, x) /\ (Alone(x) => TickSafe(c, k - 1, x))
  BY <1>1, <1>2 DEF SafeTick
<1>4. /\ TickingExact(tick, k - 1, x)
      /\ Alone(x) => /\ Right(x, Passes(c, k - 1), ctx.m, ctx.req)
                     /\ c = "L2" /\ x.abort = "none" => PutOffs(x, k - 1)
  BY <1>1, <1>2, <1>3 DEF RightTick
<1>5. Ticking(tick, k - 1, x) /\ (Alone(x) => Sound(x, Passes(c, k - 1)))
  BY <1>2, <1>4 DEF TickingExact
<1>6. Typed(x) /\ TickedQueue(c, k - 1, from.queue[c], x.queue[c])
  BY <1>2, <1>5 DEF Ticking
<1>7. from.queue[c] \in Seq(PacketSet(c)) /\ x.queue[c] \in Seq(PacketSet(c))
  BY <1>2, <1>6 DEF Typed, QueuesTyped
<1>8. k \in 1 .. Len(x.queue[c])
  BY <1>6, <1>7 DEF TickedQueue
<1>9. Ready(x.queue[c][k])
  <2>1. k \in Nat /\ ~(k <= k - 1)
    OBVIOUS
  <2>2. x.queue[c][k] = from.queue[c][k]
    BY <1>6, <2>1 DEF TickedQueue
  <2>3. QED
    BY <2>2 DEF Ready
<1>10. PICK r : r = Process(x, c, n, victim, k)
  OBVIOUS
<1>11. ASSUME Alone(r) PROVE TickSafe(c, k, r)
  <2>1. Processed(x, c, k, r)
    BY <1>6, <1>8, <1>10, ProcessEffect
  <2>2. Alone(x)
    BY <1>6, <1>8, <1>11, <2>1, ProcessedAlone
  <2>3. QED
    BY <1>3, <1>4, <1>5, <1>6, <1>8, <1>9, <1>10, <1>11, <2>2, ProcessSafe
<1>12. RightTick(ctx, k, r)
  BY <1>3, <1>10, RightTickStep
<1>13. QED
  BY <1>1, <1>2, <1>10, <1>11, <1>12 DEF SafeTick

\* All the ready packets are processed.
LEMMA AllProcessedSafe ==
  ASSUME NEW s, Typed(s), NEW c \in Caches, NEW q, NEW n, NEW victim,
         Evicts(victim), DueFirst(c, q, n, s.queue[c]), Sound(s, 0),
         NEW m \in [Addresses -> Values], NEW req, Right(s, 0, m, req), TickSafe(c, 0, s),
         NEW seq, seq = [i \in 1 .. n |-> i]
  PROVE  LET r == AllProcessed(s, c, n, victim, seq) IN Alone(r) => TickSafe(c, n, r)
<1>1. PICK tick : tick = [c |-> c, from |-> s]
  OBVIOUS
<1>2. PICK ctx : ctx = [tick |-> tick, m |-> m, req |-> req]
  OBVIOUS
<1>3. /\ ctx.tick = [c |-> c, from |-> s] /\ ctx.tick.c = c /\ ctx.tick.from = s
      /\ ctx.m = m /\ ctx.req = req /\ c \in Levels
  BY <1>1, <1>2 DEF Levels
<1>4. \A d \in Levels : s.queue[d] \in Seq(PacketSet(d)) /\ Len(s.queue[d]) \in Nat
  BY DEF Typed, QueuesTyped
<1>5. n \in Nat /\ n <= Len(s.queue[c]) /\ \A i \in 1 .. n : s.queue[c][i].ready = 0
  BY DEF DueFirst
<1>6. seq \in Seq(Nat) /\ Len(seq) = n /\ \A k \in 1 .. n : seq[k] = k
  BY <1>5
<1>7. SafeTick(ctx, 0, s)
  <2>1. \A d \in Levels : Extended(d, s.queue[d], s.queue[d])
    BY <1>4 DEF Extended
  <2>2. TickedQueue(c, 0, s.queue[c], s.queue[c])
    BY <1>3, <1>4 DEF TickedQueue
  <2>3. Counting(s, c, 0, s)
    BY DEF Counting
  <2>4. Ticking(ctx.tick, 0, s)
    BY <1>3, <2>1, <2>2, <2>3 DEF Ticking, May
  <2>5. Passes(c, 0) = 0
    BY DEF Passes
  <2>6. TickingExact(ctx.tick, 0, s)
    BY <1>3, <2>4, <2>5 DEF TickingExact
  <2>7. PutOffs(s, 0)
    BY DEF PutOffs
  <2>8. QED
    BY <1>3, <2>5, <2>6, <2>7 DEF RightTick, SafeTick
<1>8. \A k \in 1 .. Len(seq) : \A x :
        SafeTick(ctx, k - 1, x) => SafeTick(ctx, k, Process(x, c, n, victim, seq[k]))
  <2> TAKE k \in 1 .. Len(seq)
  <2> TAKE x
  <2> HAVE SafeTick(ctx, k - 1, x)
  <2>1. k \in 1 .. Len(s.queue[c]) /\ s.queue[c][k].ready = 0 /\ seq[k] = k
    BY <1>3, <1>4, <1>5, <1>6
  <2>2. SafeTick(ctx, k, Process(x, c, n, victim, k))
    BY <1>3, <2>1, SafeTickStep
  <2>3. QED
    BY <2>1, <2>2
<1>9. PICK r : r = SafeTickFold!Fold(c, n, victim, s, seq)
  OBVIOUS
<1>10. r = AllProcessed(s, c, n, victim, seq)
  BY <1>9, Zenon DEF AllProcessed, SafeTickFold!Fold, FoldLeft, MapThenFoldSet, Max,
                     SafeTickFold!FoldLeft, SafeTickFold!MapThenFoldSet, SafeTickFold!Max
<1>11. SafeTick(ctx, Len(seq), r)
  BY <1>6, <1>7, <1>8, <1>9, SafeTickFold!FoldInvariant
<1>12. QED
  BY <1>3, <1>6, <1>10, <1>11 DEF SafeTick

\* The L2's queue is rearranged.
LEMMA RearrangedL2 ==
  ASSUME NEW s, NEW j \in Nat, Safe(s, j), NEW r, Rearranges(s.queue["L2"], j, r.queue["L2"]),
         r.mshr = s.mshr, r.blocks = s.blocks, r.abort = s.abort
  PROVE  Safe(r, 0)
<1>1. PICK q : q = s.queue["L2"]
  OBVIOUS
<1>2. PICK t : t = r.queue["L2"]
  OBVIOUS
<1>3. Rearranges(q, j, t) /\ LivePlaces(q, j) \subseteq Nat
  BY <1>1, <1>2 DEF LivePlaces
<1>4. /\ InTurn(q, j) => InTurn(t, 0)
      /\ \A kind : Without(q, j, kind) => Without(t, 0, kind)
  BY <1>3, InTurnRearranged
<1>5. \A d, a : Holding(r, d, a) = Holding(s, d, a)
  BY DEF Holding
<1>6. ASSUME s.abort = "none"
      PROVE  Included(r) /\ Turns(r, 0)
  <2>1. Included(s) /\ Turns(s, j)
    BY <1>6 DEF Safe
  <2>2. Turns(r, 0)
    BY <1>1, <1>2, <1>4, <2>1 DEF Turns
  <2>3. L1Held(r) /\ ReadsWait(r)
    BY <1>5, <2>1 DEF Included, L1Held, ReadsWait
  <2>4. PICK f : Embeds(q, j, t, 0, f)
    BY <1>3 DEF Rearranges
  <2>5. ASSUME NEW i \in 1 .. Len(t), t[i].type = "writeback"
        PROVE  Holding(r, "L2", t[i].addr) # {}
    <3>1. i \in LivePlaces(t, 0)
      BY DEF LivePlaces
    <3>2. f[i] \in 1 .. Len(q) /\ q[f[i]].type = "writeback" /\ q[f[i]].addr = t[i].addr
      BY <2>4, <2>5, <3>1 DEF Embeds, LivePlaces, SamePacket
    <3>3. Holding(s, "L2", t[i].addr) # {}
      BY <1>1, <2>1, <3>2 DEF Included, BacksHeld
    <3>4. QED
      BY <1>5, <3>3
  <2>6. BacksHeld(r)
    BY <1>2, <2>5 DEF BacksHeld
  <2>7. QED
    BY <2>2, <2>3, <2>6 DEF Included
<1>7. QED
  BY <1>6 DEF Safe

\* A cache's queue is.
LEMMA RearrangedSafe ==
  ASSUME NEW s, Typed(s), NEW c \in Caches, NEW j \in Nat, Safe(s, Passes(c, j)),
         NEW r, Rearranged(s, c, j, r)
  PROVE  Safe(r, 0)
<1>1. r.mshr = s.mshr /\ r.blocks = s.blocks /\ r.abort = s.abort
  BY DEF Rearranged
<1>2. CASE c = "L2"
  <2>1. Rearranges(s.queue["L2"], j, r.queue["L2"]) /\ Safe(s, j)
    BY <1>2 DEF Rearranged, Passes
  <2>2. QED
    BY <1>1, <2>1, RearrangedL2
<1>3. CASE c # "L2"
  <2>1. r.queue["L2"] = s.queue["L2"] /\ Safe(s, 0)
    BY <1>3 DEF Rearranged, Passes, Levels, Caches
  <2>2. SameL2(s, r)
    BY <1>1, <2>1 DEF SameL2, Holding
  <2>3. QED
    BY <2>1, <2>2, SameSafe
<1>4. QED
  BY <1>2, <1>3

\* A Tick of a cache's.
LEMMA CacheTickSafe ==
  ASSUME QueueCap["L2"] >= 4, NEW s, Typed(s), NEW c \in Caches,
         Sorted(s.queue[c]), NEW victim, Evicts(victim), Sound(s, 0),
         NEW m \in [Addresses -> Values], NEW req, Right(s, 0, m, req), Safe(s, 0)
  PROVE  LET r == CacheTick(s, c, victim) IN Alone(r) => Safe(r, 0)
<1> DEFINE r == CacheTick(s, c, victim)
<1> SUFFICES ASSUME Alone(r) PROVE Safe(r, 0)
  OBVIOUS
<1> HIDE DEF r
<1>1. PICK n, start, x : TwoPasses(s, c, victim, n, start, x)
  BY CacheTickPasses
<1>2. PICK seq : seq = [i \in 1 .. n |-> i]
  OBVIOUS
<1>3. /\ n \in Nat /\ Typed(start) /\ Typed(x) /\ Sound(start, 0)
      /\ Rearranged(s, c, 0, start) /\ DueFirst(c, s.queue[c], n, start.queue[c])
      /\ x = AllProcessed(start, c, n, victim, seq)
      /\ Rearranged(x, c, n, r)
  BY <1>1, <1>2 DEF TwoPasses, r
<1>4. Passes(c, 0) = 0 /\ 0 \in Nat
  BY DEF Passes
<1>5. Right(start, 0, m, req) /\ Safe(start, 0)
  BY <1>3, <1>4, RearrangedRight, RearrangedSafe
<1>6. TickSafe(c, 0, start)
  <2>1. ASSUME start.abort = "none"
        PROVE  Room(start)
    <3>1. HalfExact(start, 0) /\ Turns(start, 0)
      BY <1>3, <1>5, <2>1 DEF Sound, WholeExact, Safe
    <3>2. QED
      BY <1>3, <3>1, RoomAtRest
  <2>2. QED
    BY <1>4, <1>5, <2>1 DEF TickSafe
<1>a. Alone(x)
  BY <1>3 DEF Rearranged, Alone
<1>7. TickSafe(c, n, x)
  BY <1>2, <1>3, <1>5, <1>6, <1>a, AllProcessedSafe
<1>8. Safe(x, Passes(c, n))
  BY <1>7 DEF TickSafe
<1>9. QED
  BY <1>3, <1>8, RearrangedSafe

-------------------------------------------------------------------------------
(* The steps.                                                                *)

\* The inductive invariant.
InclusionInv == Alone(State) => Safe(State, 0)

\* A Tick gives the next state what it made.
LEMMA BecomesSafe ==
  ASSUME NEW r, Becomes(r), Alone(r) => Safe(r, 0)
  PROVE  InclusionInv'
<1>1. /\ queue' = r.queue /\ blocks' = r.blocks /\ mshr' = r.mshr
      /\ abort' = r.abort \/ abort' = "useafterfree"
  BY DEF Becomes
<1>2. PICK s : s = State'
  OBVIOUS
<1>3. /\ s.queue = r.queue /\ s.blocks = r.blocks /\ s.mshr = r.mshr
      /\ s.abort = r.abort \/ s.abort = "useafterfree"
  BY <1>1, <1>2 DEF State
<1>4. \A d, a : Holding(s, d, a) = Holding(r, d, a)
  BY <1>3 DEF Holding
<1>5. /\ L1Held(r) => L1Held(s)
      /\ BacksHeld(r) => BacksHeld(s)
      /\ ReadsWait(r) => ReadsWait(s)
      /\ Turns(r, 0) => Turns(s, 0)
  BY <1>3, <1>4 DEF L1Held, BacksHeld, ReadsWait, Turns
<1>6. ASSUME Alone(s) PROVE Safe(s, 0)
  <2>1. Safe(r, 0)
    BY <1>3, <1>6 DEF Alone
  <2>2. QED
    BY <1>3, <1>5, <2>1 DEF Safe, Included
<1>7. QED
  BY <1>2, <1>6 DEF InclusionInv

\* A Tick.
LEMMA InclusionTick ==
  ASSUME Ample, Alone(State), TimingInv, ExactInv, CoherentInv, InclusionInv, Tick
  PROVE  InclusionInv'
<1>1. PICK s : s = State
  OBVIOUS
<1>2. PICK req : req = dataReq
  OBVIOUS
<1>3. PICK m \in [Addresses -> Values] : Right(s, 0, m, req)
  BY <1>1, <1>2 DEF CoherentInv
<1>4. /\ Typed(s) /\ Sound(s, 0) /\ Safe(s, 0)
      /\ \A c \in Caches : Sorted(s.queue[c])
  <2>1. Typed(State) /\ Sound(State, 0) /\ Safe(State, 0)
    BY DEF TimingInv, ExactInv, InclusionInv
  <2>2. s.queue = queue /\ \A c \in Caches : c \in Levels
    BY <1>1 DEF State, Levels
  <2>3. QED
    BY <1>1, <2>1, <2>2 DEF TimingInv, Timely
<1>5. L2HoldsAll /\ QueueCap["L2"] >= 4
  BY DEF Ample
<1>6. CASE TickMem
  <2>1. PICK b \in BOOLEAN : b = (\E i \in DOMAIN queue["Mem"] : Ready(queue["Mem"][i]))
    OBVIOUS
  <2>2. PICK v \in Victims(b) : Becomes(MemTick(State, v))
    BY <1>6, <2>1 DEF TickMem
  <2>3. Evicts(v)
    BY VictimsEvict
  <2>4. SafeRoom(s, 0)
    <3>1. ASSUME s.abort = "none"
          PROVE  Room(s)
      <4>1. HalfExact(s, 0) /\ Turns(s, 0)
        BY <1>4, <3>1 DEF Sound, WholeExact, Safe
      <4>2. QED
        BY <1>4, <1>5, <4>1, RoomAtRest
    <3>2. QED
      BY <1>4, <3>1 DEF SafeRoom
  <2>5. SafeRoom(MemTick(s, v), 0)
    BY <1>3, <1>4, <1>5, <2>3, <2>4, MemTickSafe
  <2>6. Safe(MemTick(s, v), 0)
    BY <2>5 DEF SafeRoom
  <2>7. QED
    BY <1>1, <2>2, <2>6, BecomesSafe
<1>7. ASSUME NEW c \in Caches, \E v \in Victims(FALSE) : Becomes(CacheTick(State, c, v))
      PROVE  InclusionInv'
  <2>1. PICK v \in Victims(FALSE) : Becomes(CacheTick(State, c, v))
    BY <1>7
  <2>2. Evicts(v)
    <3>1. FALSE \in BOOLEAN
      OBVIOUS
    <3>2. QED
      BY <3>1, VictimsEvict
  <2>3. Sorted(s.queue[c])
    BY <1>4
  <2>4. Alone(CacheTick(s, c, v)) => Safe(CacheTick(s, c, v), 0)
    BY <1>3, <1>4, <1>5, <2>2, <2>3, CacheTickSafe
  <2>5. QED
    BY <1>1, <2>1, <2>4, BecomesSafe
<1>8. "L2" \in Caches /\ "L1I" \in Caches /\ "L1D" \in Caches
  BY DEF Caches
<1>9. QED
  BY <1>6, <1>7, <1>8 DEF Tick, TickL2, TickL1I, TickL1D

\* The core's requests go to the level 1 caches.
LEMMA InclusionCore ==
  ASSUME Alone(State), TimingInv, InclusionInv, CoreCycle
  PROVE  InclusionInv'
<1>1. PICK data \in DataRequests \cup {NULL}, fetch \in TextWords \cup {NULL} :
        Core(data, fetch)
  BY DEF CoreCycle
<1>2. blocks' = blocks /\ mshr' = mshr /\ abort' = abort
  BY <1>1 DEF Core
<1>3. PICK s1, s2 : Requested(data, fetch, s1, s2) /\ queue' = Elapsed(s2.queue)
  BY <1>1, CoreRequests
<1>4. PICK s : s = State
  OBVIOUS
<1>5. PICK r : r = State'
  OBVIOUS
<1>6. /\ s.queue = queue /\ s.mshr = mshr /\ s.blocks = blocks /\ s.abort = abort
      /\ r.queue = queue' /\ r.mshr = mshr /\ r.blocks = blocks /\ r.abort = abort
  BY <1>2, <1>4, <1>5 DEF State
<1>7. Typed(s2) /\ s2.queue["L2"] = queue["L2"]
  BY <1>3, RequestedTyped, RequestedBelow
<1>8. "L2" \in Levels /\ QueuesTyped(s2.queue)
  BY <1>7 DEF Levels, Caches, Typed
<1>9. Rearranges(s2.queue["L2"], 0, Elapsed(s2.queue)["L2"])
  BY <1>8, ElapsedRearranges
<1>10. Rearranges(s.queue["L2"], 0, r.queue["L2"]) /\ 0 \in Nat
  BY <1>3, <1>6, <1>7, <1>9
<1>11. Safe(s, 0)
  BY <1>4 DEF InclusionInv
<1>12. Safe(r, 0)
  BY <1>6, <1>10, <1>11, RearrangedL2
<1>13. QED
  BY <1>5, <1>12 DEF InclusionInv

\* Nothing is held and nothing is on its way.
LEMMA InclusionInit ==
  Init => InclusionInv
<1> SUFFICES ASSUME Init PROVE InclusionInv
  OBVIOUS
<1>1. PICK s : s = State
  OBVIOUS
<1>2. /\ \A c \in Levels : s.queue[c] = <<>>
      /\ s.mshr = [c \in Caches |-> [i \in 1 .. MshrEntries[c] |-> EmptyEntry]]
      /\ s.blocks = [c \in Caches |->
                       [set \in 0 .. (NumSets[c] - 1) |-> [w \in Ways(c) |-> EmptyBlock]]]
      /\ s.abort = "none"
  BY <1>1 DEF Init, Constructed, State
<1>3. "L2" \in Levels /\ "L2" \in Caches /\ {"L1I", "L1D"} \subseteq Caches
  BY DEF Levels, Caches
<1>4. s.queue["L2"] = <<>> /\ s.mshr["L2"][1].sub = <<>>
  <2>1. 1 \in 1 .. MshrEntries["L2"]
    BY <1>3, Geometry
  <2>2. QED
    BY <1>2, <1>3, <2>1 DEF EmptyEntry
<1>5. \A i : ~(i \in 1 .. Len(<<>>))
  <2>1. Len(<<>>) = 0
    OBVIOUS
  <2>2. 1 .. 0 = {}
    OBVIOUS
  <2>3. QED
    BY <2>1, <2>2
<1>6. ASSUME NEW c \in Caches, NEW a \in Lines
      PROVE  Holding(s, c, a) = {}
  <2>1. a \in Addresses
    BY LineFacts
  <2>2. getLocation(c, a).set \in 0 .. (NumSets[c] - 1)
    BY <2>1, Location DEF Sets
  <2>3. \A w \in Ways(c) : ~s.blocks[c][getLocation(c, a).set][w].valid
    BY <1>2, <2>2 DEF EmptyBlock
  <2>4. QED
    BY <2>3 DEF Holding
<1>7. Included(s)
  BY <1>3, <1>4, <1>5, <1>6 DEF Included, L1Held, BacksHeld, ReadsWait
<1>8. Turns(s, 0)
  BY <1>4, <1>5 DEF Turns, InTurn, Without, LivePlaces
<1>9. Safe(s, 0)
  BY <1>2, <1>7, <1>8 DEF Safe
<1>10. QED
  BY <1>1, <1>9 DEF InclusionInv

\* Every step keeps it.
LEMMA InclusionStep ==
  ASSUME Ample, TimingInv, ExactInv, CoherentInv, InclusionInv, [Next]_hvars
  PROVE  InclusionInv'
<1> SUFFICES ASSUME Alone(State') PROVE InclusionInv'
  BY DEF InclusionInv
<1>0. Alone(State)
  BY OverlappedStays
<1>1. CASE Tick
  BY <1>0, <1>1, InclusionTick
<1>2. CASE CoreCycle
  BY <1>0, <1>2, InclusionCore
<1>3. CASE Aborted \/ UNCHANGED hvars
  <2>1. UNCHANGED <<queue, blocks, mshr, store, abort>>
    BY <1>3 DEF Aborted, hvars, hierarchy
  <2>2. State' = State
    BY <2>1 DEF State
  <2>3. QED
    BY <2>2 DEF InclusionInv
<1>4. QED
  BY <1>1, <1>2, <1>3 DEF Next

\* So it always holds.
LEMMA InclusionAlways ==
  Ample => (Spec => []InclusionInv)
<1> SUFFICES ASSUME Ample PROVE Spec => []InclusionInv
  OBVIOUS
<1>1. TimingInv /\ ExactInv /\ CoherentInv /\ InclusionInv /\ [Next]_hvars => InclusionInv'
  BY InclusionStep
<1>2. QED
  BY <1>1, TimingAlways, ExactAlways, CoherentAlways, InclusionInit, PTL DEF Spec

-------------------------------------------------------------------------------
(* The theorem.                                                              *)

\* cache.cpp, writeBack's assertion "Next cache stage cannot accomodate req": until a
\* cache has two misses outstanding, an L2 with a way for every block and room for
\* four packets refuses none of the L1D's write-backs, whatever else its queue holds.
THEOREM WriteBacksAccepted ==
  Ample => (Spec => [](WriteBackAccepted \/ Overlapped))
<1> SUFFICES ASSUME Ample PROVE Spec => [](WriteBackAccepted \/ Overlapped)
  OBVIOUS
<1>1. InclusionInv => WriteBackAccepted \/ Overlapped
  BY DEF InclusionInv, Safe, State, WriteBackAccepted, Overlapped
<1>2. QED
  BY <1>1, InclusionAlways, PTL

===============================================================================
