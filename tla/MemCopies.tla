------------------------------- MODULE MemCopies -------------------------------
(***************************************************************************)
(* The copies of a block, wherever they are, and one image of memory that  *)
(* they agree with: what keeps that agreement when packets are answered,   *)
(* move or a block is put in a cache, while no two misses overlap.         *)
(***************************************************************************)
EXTENDS MemProofs

-------------------------------------------------------------------------------
(* The copies of a block: one line of memory, named by its first address.    *)

Lines == Starts(Blocks)

\* The words of a line, in an image of memory.
Image(m, a) == [o \in Offsets |-> m[a + o]]

\* What the ways that hold a line have.
Copies(s, c, a) ==
  {s.blocks[c][getLocation(c, a).set][w] : w \in Holding(s, c, a)}

\* What the write-backs of a line have: those in a queue of which k packets are
\* done with; those on their way to the L2, in its queue or waiting for a line;
\* and those on their way to memory.
Backs(q, k, a) == {q[i].data : i \in LiveAt(q, k, "writeback", a)}
ToL2(s, k, a) == Backs(s.queue["L2"], k, a) \cup Backs(s.mshr["L2"][1].sub, 0, a)
ToMem(s, a) == Backs(s.queue["Mem"], 0, a)

\* The levels below the L1D may be behind it: it has written its copy, or has
\* written the copy back and the L2 has not applied that.
Behind(dcopies, back) == back # {} \/ \E b \in dcopies : b.dirty

\* The copies of a line, in the L1I and the L1D, on their way to the L2, there, on
\* their way to memory and there, agree with its image.
Agree(icopies, dcopies, back, copies, down, stored, image) ==
  /\ \A b \in icopies : b.data = image
  /\ \A b \in dcopies : b.data = image /\ back = {}
  /\ \A data \in back : data = image
  /\ \A b \in copies : (Behind(dcopies, back) \/ b.data = image) /\ down = {}
  /\ \A data \in down : Behind(dcopies, back) \/ data = image
  /\ \/ Behind(dcopies, back) \/ down # {} \/ \E b \in copies : b.dirty
     \/ stored = image

AgreeAt(s, k, a, image) ==
  Agree(Copies(s, "L1I", a), Copies(s, "L1D", a), ToL2(s, k, a), Copies(s, "L2", a),
        ToMem(s, a), Image(s.store, a), image)

Covered(s, k, m) == \A a \in Lines : AgreeAt(s, k, a, Image(m, a))

-------------------------------------------------------------------------------
(* The shape of a state that keeps them so.                                  *)

\* At most one way holds a line.
Unique(s) ==
  \A c \in Caches, a \in Lines : \A v, w \in Holding(s, c, a) : v = w

\* The write-backs of a line are ahead of its reads.
Ahead(q, k, kind, a) ==
  \A i \in LiveAt(q, k, "writeback", a), j \in LiveAt(q, k, kind, a) : i < j

\* In the L2, in the entry and then in the queue; and in memory's queue.
InOrder2(s, k) ==
  \A a \in Lines :
    LET sub == s.mshr["L2"][1].sub
    IN /\ Ahead(s.queue["L2"], k, "load", a)
       /\ Ahead(sub, 0, "load", a)
       /\ LiveAt(sub, 0, "load", a) # {} => Backs(s.queue["L2"], k, a) = {}
InOrderMem(s) ==
  \A a \in Lines, kind \in {"fetch", "load"} : Ahead(s.queue["Mem"], 0, kind, a)

\* What waits in an entry waits for its line.
Matched(s) ==
  \A c \in Caches : \A i \in 1 .. Len(s.mshr[c][1].sub) :
    BlockAddress(s.mshr[c][1].sub[i].addr) = s.mshr[c][1].address

Shaped(s, k) == Unique(s) /\ InOrder2(s, k) /\ InOrderMem(s) /\ Matched(s)

Coherent(s, k, m) == Covered(s, k, m) /\ Shaped(s, k)

-------------------------------------------------------------------------------
(* The core's data request, and the answers it has been given.               *)

\* A packet of the L1D's is that request.
Mine(p, req) ==
  /\ req # NULL /\ p.type = req.type /\ p.addr = req.addr
  /\ p.type = "store" => p.data = [o \in {req.addr % BlkSize} |-> req.value]

Owned(s, req) ==
  /\ \A i \in 1 .. Len(s.queue["L1D"]) : Mine(s.queue["L1D"][i], req)
  /\ \A i \in 1 .. Len(s.mshr["L1D"][1].sub) : Mine(s.mshr["L1D"][1].sub[i], req)

\* An image once the answers have been given.
After(m, out, req) ==
  IF \E i \in 1 .. Len(out) : out[i].type = "store"
  THEN [m EXCEPT ![req.addr] = req.value] ELSE m

\* The answers are the image's.
Fair(x, m, req) ==
  IF x.type = "fetch" THEN x.value = m[x.addr]
  ELSE /\ req # NULL /\ x.type = req.type /\ x.addr = req.addr
       /\ x.type = "load" => x.value = m[x.addr]
Answered(m, out, req) == \A i \in 1 .. Len(out) : Fair(out[i], m, req)

\* So it is until the program aborts.
Right(s, k, m, req) ==
  s.abort = "none" =>
    /\ Coherent(s, k, After(m, s.out, req))
    /\ Answered(m, s.out, req) /\ Owned(s, req)

-------------------------------------------------------------------------------
(* Lines and their copies.                                                   *)

\* The words of a line.
LEMMA LineFacts ==
  ASSUME NEW a \in Lines
  PROVE  /\ a \in Addresses /\ a \in Nat /\ BlockAddress(a) = a
         /\ BlockOf(a) \in Blocks
         /\ \A o \in Offsets : /\ a + o \in Addresses /\ BlockAddress(a + o) = a
                               /\ (a + o) % BlkSize = o
<1>1. PICK b \in Blocks : a = b * BlkSize
  BY DEF Lines, Starts
<1>2. /\ b \in Nat /\ b * BlkSize \in Nat /\ b * BlkSize \in Addresses
      /\ BlockOf(b * BlkSize) = b /\ BlockAddress(b * BlkSize) = b * BlkSize
      /\ \A o \in Offsets : /\ b * BlkSize + o \in Addresses
                            /\ BlockOf(b * BlkSize + o) = b
                            /\ (b * BlkSize + o) % BlkSize = o
  BY BlockAddresses
<1>3. \A o \in Offsets : BlockAddress(b * BlkSize + o) = b * BlkSize
  BY <1>2 DEF BlockAddress
<1>4. QED
  BY <1>1, <1>2, <1>3

\* The line of a word.
LEMMA LineOf ==
  ASSUME NEW a \in Addresses
  PROVE  /\ BlockAddress(a) \in Lines /\ a % BlkSize \in Offsets
         /\ BlockAddress(a) + (a % BlkSize) = a
<1>1. /\ BlockOf(a) \in Blocks /\ a % BlkSize \in Offsets
      /\ BlockAddress(a) = BlockOf(a) * BlkSize
      /\ BlockAddress(a) + (a % BlkSize) = a
  BY AddressParts
<1>2. QED
  BY <1>1 DEF Lines, Starts

\* The words of two lines are different.
LEMMA LinesDiffer ==
  ASSUME NEW a \in Lines, NEW b \in Addresses, BlockAddress(b) # a
  PROVE  \A o \in Offsets : a + o # b
BY LineFacts

\* A word and its line have the same place.
LEMMA SamePlace ==
  ASSUME NEW c \in Caches, NEW addr \in Addresses
  PROVE  /\ BlockAddress(addr) \in Addresses
         /\ getLocation(c, BlockAddress(addr)).set = getLocation(c, addr).set
         /\ getLocation(c, BlockAddress(addr)).tag = getLocation(c, addr).tag
<1>1. /\ BlockAddress(addr) = BlockOf(addr) * BlkSize /\ BlockOf(addr) \in Blocks
  BY AddressParts
<1>2. BlockOf(BlockAddress(addr)) = BlockOf(addr) /\ BlockAddress(addr) \in Addresses
  BY <1>1, BlockAddresses
<1>3. QED
  BY <1>2 DEF getLocation

\* A way holds one line at most.
LEMMA OneLine ==
  ASSUME NEW s, Typed(s), NEW c \in Caches, NEW a \in Lines, NEW b \in Lines,
         getLocation(c, a).set = getLocation(c, b).set,
         NEW w, w \in Holding(s, c, a), w \in Holding(s, c, b)
  PROVE  a = b
<1>1. a \in Addresses /\ BlockAddress(a) = a /\ b \in Addresses /\ BlockAddress(b) = b
  BY LineFacts
<1>2. getLocation(c, a).tag = getLocation(c, b).tag
  BY DEF Holding
<1>3. BlockOf(a) = BlockOf(b)
  <2>1. getLocation(c, a).tag * NumSets[c] + getLocation(c, a).set = BlockOf(a)
    BY <1>1, Location
  <2>2. getLocation(c, b).tag * NumSets[c] + getLocation(c, b).set = BlockOf(b)
    BY <1>1, Location
  <2>3. QED
    BY <1>2, <2>1, <2>2
<1>4. QED
  BY <1>1, <1>3 DEF BlockAddress

\* What a cache has depends on its blocks only.
LEMMA CopiesSame ==
  ASSUME NEW s, NEW r, NEW c, r.blocks[c] = s.blocks[c]
  PROVE  \A a : Copies(r, c, a) = Copies(s, c, a) /\ Holding(r, c, a) = Holding(s, c, a)
BY DEF Copies, Holding

\* So where the blocks of one cache alone change, the others have what they had.
LEMMA OthersSame ==
  \A s, r, d : r.blocks[d] = s.blocks[d] =>
                \A a : Copies(r, d, a) = Copies(s, d, a) /\ Holding(r, d, a) = Holding(s, d, a)
BY CopiesSame

\* Nor has it a line twice, whose blocks are those of a hierarchy that does not.
LEMMA UniqueSame ==
  ASSUME NEW s, NEW r, r.blocks = s.blocks, Unique(s)
  PROVE  Unique(r)
<1>1. \A c, a : Holding(r, c, a) = Holding(s, c, a)
  BY DEF Holding
<1>2. QED
  BY <1>1 DEF Unique

\* A packet that is applied and answered fails no assertion.
LEMMA AnswerAborts ==
  ASSUME NEW s, NEW c, NEW addr, NEW p, NEW x, x = Apply(s, c, addr, p), NEW b,
         NEW r, r = ToCore(x, p, b)
  PROVE  r.abort = s.abort
<1>1. x.abort = s.abort
  BY DEF Apply
<1>2. r.abort = x.abort
  BY DEF ToCore
<1>3. QED
  BY <1>1, <1>2

\* The one copy of a line that a cache has.
LEMMA OneCopy ==
  ASSUME NEW s, Typed(s), Unique(s), NEW c \in Caches, NEW addr \in Addresses,
         Holding(s, c, addr) # {}
  PROVE  /\ Holding(s, c, BlockAddress(addr)) = {Way(s, c, addr)}
         /\ Copies(s, c, BlockAddress(addr)) = {BlockAt(s, c, addr)}
<1>1. PICK a \in Lines : a = BlockAddress(addr)
  BY LineOf
<1>2. PICK w : w = Way(s, c, addr)
  OBVIOUS
<1>3. Holding(s, c, a) = Holding(s, c, addr)
  BY <1>1, HoldingBlock
<1>4. w \in Holding(s, c, addr)
  <2>1. Holding(s, c, addr) \in SUBSET Ways(c)
    BY DEF Holding
  <2>2. QED
    BY <1>2, <2>1, LowestWay DEF Way
<1>5. \A v \in Holding(s, c, a) : v = w
  BY <1>3, <1>4 DEF Unique
<1>6. Holding(s, c, a) = {w}
  BY <1>3, <1>4, <1>5
<1>7. Copies(s, c, a) = {s.blocks[c][getLocation(c, a).set][w]}
  BY <1>6 DEF Copies
<1>8. getLocation(c, a).set = getLocation(c, addr).set
  BY <1>1, SamePlace
<1>9. BlockAt(s, c, addr) = s.blocks[c][getLocation(c, addr).set][w]
  BY <1>2 DEF BlockAt
<1>10. QED
  BY <1>1, <1>2, <1>6, <1>7, <1>8, <1>9

\* A cache has lines of its kind only.
LEMMA CopyTyped ==
  ASSUME NEW s, Typed(s), NEW c \in Caches, NEW a \in Lines
  PROVE  /\ Copies(s, c, a) # {} <=> Holding(s, c, a) # {}
         /\ Copies(s, c, a) # {} => BlockOf(a) \in Held(c)
         /\ \A b \in Copies(s, c, a) :
              b.data \in [Offsets -> Values] /\ b.dirty \in BOOLEAN
<1>1. Copies(s, c, a) # {} <=> Holding(s, c, a) # {}
  BY DEF Copies
<1>2. a \in Addresses
  BY LineFacts
<1>3. Holding(s, c, a) # {} => BlockOf(a) \in Held(c)
  BY <1>2, WayHolds
<1>4. ASSUME NEW w \in Holding(s, c, a)
      PROVE  LET b == s.blocks[c][getLocation(c, a).set][w]
             IN b.data \in [Offsets -> Values] /\ b.dirty \in BOOLEAN
  <2>1. getLocation(c, a).set \in Sets(c) /\ w \in Ways(c)
    BY <1>2, Location DEF Holding
  <2>2. s.blocks[c][getLocation(c, a).set][w] \in BlockSet(c, getLocation(c, a).set)
    BY <2>1 DEF Typed, BlocksTyped
  <2>3. QED
    BY <2>2 DEF BlockSet, Holding
<1>5. QED
  BY <1>1, <1>3, <1>4 DEF Copies

\* A packet leaves a block in its place.
LEMMA AppliedTyped ==
  ASSUME NEW c \in Caches, NEW set, NEW old \in BlockSet(c, set), old.valid,
         NEW d \in Levels, NEW p \in PacketSet(d), IsWrite(p) => c # "L1I"
  PROVE  LET b == Applied(p, old)
         IN /\ b \in BlockSet(c, set) /\ b.valid /\ b.tag = old.tag
            /\ IsWrite(p) => b.data = Overwritten(p.data, old.data) /\ b.dirty
            /\ ~IsWrite(p) => b = old
<1>1. old.data \in [Offsets -> Values]
  BY DEF BlockSet
<1>2. CASE IsWrite(p)
  <2>1. PICK data : data = Overwritten(p.data, old.data)
    OBVIOUS
  <2>2. \A o \in Offsets : o \in DOMAIN p.data => p.data[o] \in Values
    BY <1>2, PacketFacts
  <2>3. data \in [Offsets -> Values]
    BY <1>1, <2>1, <2>2 DEF Overwritten
  <2>4. Applied(p, old) = [old EXCEPT !.data = data, !.dirty = TRUE]
    BY <1>2, <2>1 DEF Applied
  <2>5. QED
    BY <1>2, <2>1, <2>3, <2>4 DEF BlockSet
<1>3. CASE ~IsWrite(p)
  BY <1>3 DEF Applied
<1>4. QED
  BY <1>2, <1>3

\* One copy of a cache's is changed, and stays in its way.
Rewritten(s, c, addr, b, r) ==
  /\ Copies(r, c, BlockAddress(addr)) = {b}
  /\ \A a \in Lines \ {BlockAddress(addr)} : Copies(r, c, a) = Copies(s, c, a)
  /\ \A a \in Addresses : Holding(r, c, a) = Holding(s, c, a)
  /\ BlockAt(r, c, addr) = b

\* So is the one that a packet is applied to.
LEMMA ApplyCopies ==
  ASSUME NEW s, Typed(s), Unique(s), NEW c \in Caches, NEW addr \in Addresses,
         Holding(s, c, addr) # {}, NEW d \in Levels, NEW p \in PacketSet(d),
         IsWrite(p) => c # "L1I"
  PROVE  Rewritten(s, c, addr, Applied(p, BlockAt(s, c, addr)), Apply(s, c, addr, p))
<1>1. PICK set : set = getLocation(c, addr).set
  OBVIOUS
<1>2. PICK way : way = Way(s, c, addr)
  OBVIOUS
<1>3. PICK old : old = BlockAt(s, c, addr)
  OBVIOUS
<1>4. /\ set \in Sets(c) /\ way \in Ways(c) /\ old \in BlockSet(c, set) /\ old.valid
      /\ old = s.blocks[c][set][way]
  BY <1>1, <1>2, <1>3, WayHolds
<1>5. PICK b : b = Applied(p, old)
  OBVIOUS
<1>6. b \in BlockSet(c, set)
  BY <1>4, <1>5, AppliedTyped
<1>7. PICK r : r = Apply(s, c, addr, p)
  OBVIOUS
<1>8. r = WithBlock(s, c, set, way, b)
  BY <1>1, <1>2, <1>4, <1>5, <1>7 DEF Apply, WithBlock
<1>9. /\ Typed(r)
      /\ \A e \in Sets(c) \ {set} : r.blocks[c][e] = s.blocks[c][e]
      /\ \A w \in Ways(c) \ {way} : r.blocks[c][set][w] = s.blocks[c][set][w]
      /\ r.blocks[c][set][way] = b
  BY <1>4, <1>6, <1>8, BlockChange
<1>10. \A a \in Addresses : Holding(r, c, a) = Holding(s, c, a)
  BY <1>7, ApplyEffect
<1>11. PICK line \in Lines : line = BlockAddress(addr)
  BY LineOf
<1>12. getLocation(c, line).set = set
  BY <1>1, <1>11, SamePlace
<1>13. Holding(s, c, line) = {way} /\ line \in Addresses
  BY <1>2, <1>11, OneCopy, LineFacts
<1>14. Copies(r, c, line) = {b}
  <2>1. Holding(r, c, line) = {way}
    BY <1>10, <1>13
  <2>2. Copies(r, c, line) = {r.blocks[c][getLocation(c, line).set][way]}
    BY <2>1 DEF Copies
  <2>3. QED
    BY <1>9, <1>12, <2>2
<1>15. ASSUME NEW a \in Lines, a # line
       PROVE  Copies(r, c, a) = Copies(s, c, a)
  <2>1. a \in Addresses /\ getLocation(c, a).set \in Sets(c)
    BY LineFacts, Location
  <2>2. Holding(r, c, a) = Holding(s, c, a)
    BY <1>10, <2>1
  <2>3. ASSUME NEW w \in Holding(s, c, a)
        PROVE  r.blocks[c][getLocation(c, a).set][w] = s.blocks[c][getLocation(c, a).set][w]
    <3>1. w \in Ways(c)
      BY DEF Holding
    <3>2. CASE getLocation(c, a).set = set
      <4>1. w # way
        BY <1>12, <1>13, <1>15, <3>2, OneLine
      <4>2. QED
        BY <1>9, <3>1, <3>2, <4>1
    <3>3. CASE getLocation(c, a).set # set
      BY <1>9, <2>1, <3>3
    <3>4. QED
      BY <3>2, <3>3
  <2>4. QED
    BY <2>2, <2>3 DEF Copies
<1>16. BlockAt(r, c, addr) = b
  <2>1. Way(r, c, addr) = way
    BY <1>2, <1>10 DEF Way
  <2>2. QED
    BY <1>1, <1>9, <2>1 DEF BlockAt
<1>17. QED
  BY <1>3, <1>5, <1>7, <1>10, <1>11, <1>14, <1>15, <1>16 DEF Rewritten

-------------------------------------------------------------------------------
(* Answers to the core.                                                      *)

\* One more answer.
LEMMA AnswerLast ==
  ASSUME NEW out \in Seq(Answers), NEW x \in Answers, NEW m, NEW req,
         Answered(m, out, req), Fair(x, m, req)
  PROVE  /\ Answered(m, Append(out, x), req)
         /\ After(m, Append(out, x), req) =
              IF x.type = "store" THEN [m EXCEPT ![req.addr] = req.value]
              ELSE After(m, out, req)
<1>1. PICK q \in Seq(Answers) : q = Append(out, x)
  <2>1. Append(out, x) \in Seq(Answers)
    OBVIOUS
  <2>2. QED
    BY <2>1
<1>2. /\ Len(q) = Len(out) + 1 /\ Len(out) \in Nat /\ q[Len(out) + 1] = x
      /\ \A i \in 1 .. Len(out) : q[i] = out[i]
  BY <1>1
<1>3. \A i \in 1 .. Len(q) : i \in 1 .. Len(out) \/ i = Len(out) + 1
  BY <1>2
<1>4. Answered(m, q, req)
  BY <1>2, <1>3 DEF Answered
<1>5. (\E i \in 1 .. Len(q) : q[i].type = "store")
        <=> (\E i \in 1 .. Len(out) : out[i].type = "store") \/ x.type = "store"
  <2>1. \A i \in 1 .. Len(out) : i \in 1 .. Len(q)
    BY <1>2
  <2>2. Len(out) + 1 \in 1 .. Len(q)
    BY <1>2
  <2>3. QED
    BY <1>2, <1>3, <2>1, <2>2
<1>6. QED
  BY <1>1, <1>4, <1>5 DEF After

\* What a store that has been answered changes.
LEMMA AfterIs ==
  ASSUME NEW out \in Seq(Answers), NEW m \in [Addresses -> Values], NEW req,
         Answered(m, out, req)
  PROVE  /\ \A a \in TextWords : After(m, out, req)[a] = m[a]
         /\ req.type = "load" => After(m, out, req) = m
         /\ DOMAIN After(m, out, req) = Addresses
         /\ \A a \in Addresses : a # req.addr => After(m, out, req)[a] = m[a]
<1>1. CASE \E i \in 1 .. Len(out) : out[i].type = "store"
  <2>1. PICK i \in 1 .. Len(out) : out[i].type = "store"
    BY <1>1
  <2>2. out[i] \in Answers
    OBVIOUS
  <2>3. out[i].addr \in DataWords
    BY <2>1, <2>2 DEF Answers
  <2>4. Fair(out[i], m, req)
    BY DEF Answered
  <2>5. req.type = "store" /\ req.addr \in DataWords
    BY <2>1, <2>3, <2>4 DEF Fair
  <2>6. \A a \in TextWords : a # req.addr /\ a \in Addresses
    BY <2>5, WordIsAddress, WordsAreAddresses
  <2>7. After(m, out, req) = [m EXCEPT ![req.addr] = req.value]
    BY <1>1 DEF After
  <2>8. QED
    BY <2>5, <2>6, <2>7
<1>2. CASE ~\E i \in 1 .. Len(out) : out[i].type = "store"
  BY <1>2 DEF After
<1>3. QED
  BY <1>1, <1>2

\* The L1D's copy is written: the levels below may be behind it.
LEMMA WrittenAgrees ==
  ASSUME NEW old, NEW b, NEW back, NEW copies, NEW down, NEW stored, NEW image, NEW new,
         Agree({}, {old}, back, copies, down, stored, image), b.data = new, b.dirty
  PROVE  Agree({}, {b}, back, copies, down, stored, new)
<1>1. back = {} /\ \A d \in copies : down = {}
  BY DEF Agree
<1>2. Behind({b}, back)
  BY DEF Behind
<1>3. QED
  BY <1>1, <1>2 DEF Agree

\* A level 1 cache answers a packet from its copy of a line.
AnswersFrom(s, c, addr, p, r) ==
  LET b == Applied(p, BlockAt(s, c, addr))
  IN /\ Typed(r)
     /\ r.queue = s.queue /\ r.mshr = s.mshr /\ r.store = s.store /\ r.abort = s.abort
     /\ \A d \in Caches \ {c} : r.blocks[d] = s.blocks[d]
     /\ Rewritten(s, c, addr, b, r)
     /\ r.out = Append(s.out, [type |-> p.type, addr |-> p.addr,
                               value |-> b.data[p.addr % BlkSize]])

\* The packet is applied to the block, and the core is handed the word.
LEMMA AnswerEffect ==
  ASSUME NEW s, Typed(s), Unique(s), NEW c \in {"L1I", "L1D"}, NEW addr \in Addresses,
         Holding(s, c, addr) # {}, NEW p \in PacketSet(c),
         NEW x, x = Apply(s, c, addr, p), NEW r, r = ToCore(x, p, BlockAt(x, c, addr))
  PROVE  AnswersFrom(s, c, addr, p, r)
<1>1. c \in Caches /\ c \in Levels
  BY DEF Caches, Levels
<1>2. IsWrite(p) => c # "L1I"
  BY <1>1, PacketFacts
<1>3. /\ Typed(x)
      /\ x.queue = s.queue /\ x.mshr = s.mshr /\ x.store = s.store
      /\ x.abort = s.abort /\ x.out = s.out
      /\ \A d \in Caches \ {c} : x.blocks[d] = s.blocks[d]
      /\ Holding(x, c, addr) # {}
  BY <1>1, <1>2, ApplyEffect
<1>4. PICK b : b = Applied(p, BlockAt(s, c, addr))
  OBVIOUS
<1>5. Rewritten(s, c, addr, b, x)
  BY <1>1, <1>2, <1>4, ApplyCopies
<1>6. BlockAt(x, c, addr) = b
  BY <1>5 DEF Rewritten
<1>7. b.data \in [Offsets -> Values]
  BY <1>1, <1>3, <1>6, WayHolds
<1>8. /\ Typed(r)
      /\ r.queue = x.queue /\ r.blocks = x.blocks /\ r.mshr = x.mshr
      /\ r.store = x.store /\ r.abort = x.abort
  BY <1>3, <1>6, <1>7, ToCoreEffect
<1>9. r.out = Append(s.out, [type |-> p.type, addr |-> p.addr,
                             value |-> b.data[p.addr % BlkSize]])
  <2>1. r = [x EXCEPT !.out = Append(@, [type |-> p.type, addr |-> p.addr,
                                         value |-> b.data[p.addr % BlkSize]])]
    BY <1>6, Zenon DEF ToCore
  <2>2. "out" \in DOMAIN x
    BY <1>3 DEF Typed
  <2>3. QED
    BY <1>3, <2>1, <2>2
<1>10. Rewritten(s, c, addr, b, r)
  <2>1. r.blocks[c] = x.blocks[c]
    BY <1>8
  <2>2. \A a : Copies(r, c, a) = Copies(x, c, a) /\ Holding(r, c, a) = Holding(x, c, a)
    BY <2>1 DEF Copies, Holding
  <2>3. BlockAt(r, c, addr) = BlockAt(x, c, addr)
    BY <2>1, <2>2 DEF BlockAt, Way
  <2>4. QED
    BY <1>5, <2>2, <2>3 DEF Rewritten
<1>11. QED
  BY <1>3, <1>4, <1>8, <1>9, <1>10 DEF AnswersFrom

\* What the shape of a state depends on.
LEMMA ShapedSame ==
  ASSUME NEW s, NEW r, NEW k, Shaped(s, k), r.queue = s.queue, r.mshr = s.mshr,
         \A d \in Caches : \A a \in Addresses : Holding(r, d, a) = Holding(s, d, a)
  PROVE  Shaped(r, k)
<1>1. Unique(r)
  BY LineFacts DEF Shaped, Unique
<1>2. InOrder2(r, k) /\ InOrderMem(r)
  BY DEF Shaped, InOrder2, InOrderMem
<1>3. Matched(r)
  BY DEF Shaped, Matched
<1>4. QED
  BY <1>1, <1>2, <1>3 DEF Shaped

\* What the copies of a line are, in a state and after a step.
SameAt(s, j, r, k, a) ==
  /\ \A c \in Caches : Copies(r, c, a) = Copies(s, c, a)
  /\ ToL2(r, k, a) = ToL2(s, j, a) /\ ToMem(r, a) = ToMem(s, a)
  /\ Image(r.store, a) = Image(s.store, a)

\* They agree as they did.
LEMMA AgreeSame ==
  ASSUME NEW s, NEW j, NEW r, NEW k, NEW a, SameAt(s, j, r, k, a), NEW image,
         AgreeAt(s, j, a, image)
  PROVE  AgreeAt(r, k, a, image)
BY DEF SameAt, AgreeAt, Caches

\* The one copy that a cache has of a line.
LEMMA CopyIs ==
  ASSUME NEW s, Typed(s), Unique(s), NEW k, NEW m, Covered(s, k, m),
         NEW c \in {"L1I", "L1D"}, NEW addr \in Addresses, Holding(s, c, addr) # {}
  PROVE  /\ Copies(s, c, BlockAddress(addr)) = {BlockAt(s, c, addr)}
         /\ BlockAt(s, c, addr).data = Image(m, BlockAddress(addr))
         /\ c = "L1D" => ToL2(s, k, BlockAddress(addr)) = {}
<1>1. c \in Caches
  BY DEF Caches
<1>2. Copies(s, c, BlockAddress(addr)) = {BlockAt(s, c, addr)}
  BY <1>1, OneCopy
<1>3. BlockAddress(addr) \in Lines
  BY LineOf
<1>4. AgreeAt(s, k, BlockAddress(addr), Image(m, BlockAddress(addr)))
  BY <1>3 DEF Covered
<1>5. QED
  BY <1>2, <1>4 DEF AgreeAt, Agree

\* A fetch or a load is answered with the image's word.
LEMMA ReadRight ==
  ASSUME NEW s, Typed(s), s.abort = "none", NEW c \in {"L1I", "L1D"},
         NEW addr \in Addresses, Holding(s, c, addr) # {}, NEW p \in PacketSet(c),
         BlockAddress(p.addr) = BlockAddress(addr), ~IsWrite(p),
         NEW m \in [Addresses -> Values], NEW req, c = "L1D" => Mine(p, req), NEW k,
         Right(s, k, m, req), NEW r, AnswersFrom(s, c, addr, p, r)
  PROVE  Right(r, k, m, req)
<1>1. c \in Caches /\ c \in Levels
  BY DEF Caches, Levels
<1>2. PICK image : image = After(m, s.out, req)
  OBVIOUS
<1>3. /\ Covered(s, k, image) /\ Shaped(s, k) /\ Unique(s)
      /\ Answered(m, s.out, req) /\ Owned(s, req)
  BY <1>2 DEF Right, Coherent, Shaped
<1>4. PICK old : old = BlockAt(s, c, addr)
  OBVIOUS
<1>5. /\ Copies(s, c, BlockAddress(addr)) = {old}
      /\ old.data = Image(image, BlockAddress(addr))
  BY <1>3, <1>4, CopyIs
<1>6. Applied(p, old) = old
  BY DEF Applied
<1>7. /\ r.queue = s.queue /\ r.mshr = s.mshr /\ r.store = s.store /\ r.abort = s.abort
      /\ \A d \in Caches \ {c} : r.blocks[d] = s.blocks[d]
      /\ Rewritten(s, c, addr, old, r) /\ Typed(r)
      /\ r.out = Append(s.out, [type |-> p.type, addr |-> p.addr,
                                value |-> old.data[p.addr % BlkSize]])
  BY <1>4, <1>6 DEF AnswersFrom
<1>8. PICK x : x = [type |-> p.type, addr |-> p.addr, value |-> old.data[p.addr % BlkSize]]
  OBVIOUS
<1>9. p.addr \in Addresses /\ p.addr % BlkSize \in Offsets
      /\ BlockAddress(p.addr) + (p.addr % BlkSize) = p.addr
  BY <1>1, PacketFacts, LineOf
<1>10. x.value = image[p.addr]
  BY <1>5, <1>8, <1>9 DEF Image
<1>11. s.out \in Seq(Answers) /\ r.out = Append(s.out, x) /\ r.out \in Seq(Answers)
  BY <1>7, <1>8 DEF Typed
<1>12. x \in Answers
  <2>1. Len(r.out) \in 1 .. Len(r.out) /\ r.out[Len(r.out)] = x
    BY <1>11
  <2>2. QED
    BY <1>11, <2>1
<1>13. Fair(x, m, req) /\ x.type # "store"
  <2>1. CASE c = "L1I"
    <3>1. p.type = "fetch" /\ p.addr \in TextWords
      BY <2>1 DEF PacketSet, Reads
    <3>2. image[p.addr] = m[p.addr]
      BY <1>2, <1>3, <1>11, <3>1, AfterIs
    <3>3. QED
      BY <1>8, <1>10, <3>1, <3>2 DEF Fair
  <2>2. CASE c = "L1D"
    <3>1. p.type = "load"
      BY <2>2 DEF PacketSet, Reads, Stores, IsWrite
    <3>2. req # NULL /\ p.type = req.type /\ p.addr = req.addr
      BY <2>2 DEF Mine
    <3>3. image = m
      BY <1>2, <1>3, <1>11, <3>1, <3>2, AfterIs
    <3>4. QED
      BY <1>8, <1>10, <3>1, <3>2, <3>3 DEF Fair
  <2>3. QED
    BY <2>1, <2>2
<1>14. Answered(m, r.out, req) /\ After(m, r.out, req) = image
  BY <1>2, <1>3, <1>11, <1>12, <1>13, AnswerLast
<1>15. \A d \in Caches : \A a \in Addresses : Holding(r, d, a) = Holding(s, d, a)
  <2>1. \A a \in Addresses : Holding(r, c, a) = Holding(s, c, a)
    BY <1>7, Zenon DEF Rewritten
  <2>2. \A d \in Caches \ {c} : r.blocks[d] = s.blocks[d]
    BY <1>7, Zenon
  <2>3. \A d \in Caches \ {c} : \A a : Holding(r, d, a) = Holding(s, d, a)
    BY <2>2, OthersSame
  <2>4. QED
    BY <2>1, <2>3, ZenonT(60)
<1>16. Shaped(r, k)
  BY <1>3, <1>7, <1>15, ShapedSame
<1>17. ASSUME NEW a \in Lines
       PROVE  AgreeAt(r, k, a, Image(image, a))
  <2>1. \A d \in Caches : Copies(r, d, a) = Copies(s, d, a)
    <3>1. Copies(r, c, a) = Copies(s, c, a)
      BY <1>5, <1>7 DEF Rewritten
    <3>2. \A d \in Caches \ {c} : r.blocks[d] = s.blocks[d]
      BY <1>7, Zenon
    <3>3. \A d \in Caches \ {c} : Copies(r, d, a) = Copies(s, d, a)
      BY <3>2, OthersSame
    <3>4. QED
      BY <3>1, <3>3
  <2>2. SameAt(s, k, r, k, a)
    BY <1>7, <2>1 DEF SameAt, ToL2, ToMem
  <2>3. AgreeAt(s, k, a, Image(image, a))
    BY <1>3 DEF Covered
  <2>4. QED
    BY <2>2, <2>3, AgreeSame
<1>18. Owned(r, req)
  BY <1>3, <1>7 DEF Owned
<1>19. QED
  BY <1>14, <1>16, <1>17, <1>18 DEF Right, Coherent, Covered

\* A store that is answered has written the image's word.
LEMMA StoreRight ==
  ASSUME NEW s, Typed(s), s.abort = "none",
         NEW addr \in Addresses, Holding(s, "L1D", addr) # {}, NEW p \in PacketSet("L1D"),
         BlockAddress(p.addr) = BlockAddress(addr), IsWrite(p),
         NEW m \in [Addresses -> Values], NEW req, Mine(p, req), NEW k,
         Right(s, k, m, req), NEW r, AnswersFrom(s, "L1D", addr, p, r)
  PROVE  Right(r, k, m, req)
<1>1. "L1D" \in Caches /\ "L1D" \in Levels /\ "L1I" \in Caches
  BY DEF Caches, Levels
<1>2. PICK image : image = After(m, s.out, req)
  OBVIOUS
<1>3. /\ Covered(s, k, image) /\ Shaped(s, k) /\ Unique(s)
      /\ Answered(m, s.out, req) /\ Owned(s, req)
  BY <1>2 DEF Right, Coherent, Shaped
<1>4. PICK old : old = BlockAt(s, "L1D", addr)
  OBVIOUS
<1>5. PICK line \in Lines : line = BlockAddress(addr)
  BY LineOf
<1>6. Copies(s, "L1D", line) = {old} /\ old.data = Image(image, line)
  BY <1>3, <1>4, <1>5, CopyIs
<1>7. PICK b : b = Applied(p, old)
  OBVIOUS
<1>8. b.data = Overwritten(p.data, old.data) /\ b.dirty
  <2>1. getLocation("L1D", addr).set \in Sets("L1D")
    BY <1>1, Location
  <2>2. old \in BlockSet("L1D", getLocation("L1D", addr).set) /\ old.valid
    BY <1>1, <1>4, WayHolds
  <2>3. QED
    BY <1>1, <1>7, <2>1, <2>2, AppliedTyped
<1>9. p.type = "store" /\ p.addr \in DataWords /\ p.addr \in Addresses
  BY WordsAreAddresses DEF PacketSet, Reads, Stores, IsWrite
<1>10. /\ req.addr = p.addr /\ req.type = "store" /\ req # NULL
       /\ p.data = [o \in {p.addr % BlkSize} |-> req.value]
  BY <1>9 DEF Mine
<1>11. PICK new : new = [image EXCEPT ![p.addr] = req.value]
  OBVIOUS
<1>12. /\ DOMAIN image = Addresses
       /\ \A a \in Addresses : a # p.addr => image[a] = m[a]
  <2>1. s.out \in Seq(Answers)
    BY DEF Typed
  <2>2. QED
    BY <1>2, <1>3, <1>10, <2>1, AfterIs
<1>13. line \in Addresses /\ p.addr % BlkSize \in Offsets
       /\ line + (p.addr % BlkSize) = p.addr
       /\ \A o \in Offsets : line + o \in Addresses /\ (line + o) % BlkSize = o
  BY <1>5, <1>9, LineOf, LineFacts
<1>14. b.data = Image(new, line)
  <2>1. ASSUME NEW o \in Offsets
        PROVE  Overwritten(p.data, old.data)[o] = new[line + o]
    <3>1. CASE o = p.addr % BlkSize
      BY <1>9, <1>10, <1>11, <1>12, <1>13, <3>1 DEF Overwritten
    <3>2. CASE o # p.addr % BlkSize
      <4>1. line + o # p.addr /\ line + o \in Addresses
        BY <1>13, <3>2
      <4>2. new[line + o] = image[line + o]
        BY <1>11, <1>12, <4>1
      <4>3. Overwritten(p.data, old.data)[o] = old.data[o]
        BY <1>10, <3>2 DEF Overwritten
      <4>4. QED
        BY <1>6, <4>2, <4>3 DEF Image
    <3>3. QED
      BY <3>1, <3>2
  <2>2. Overwritten(p.data, old.data) = [o \in Offsets |-> Overwritten(p.data, old.data)[o]]
    BY DEF Overwritten
  <2>3. QED
    BY <1>8, <2>1, <2>2 DEF Image
<1>15. \A a \in Lines \ {line} : Image(new, a) = Image(image, a)
  <2> TAKE a \in Lines \ {line}
  <2>1. \A o \in Offsets : a + o \in Addresses /\ a + o # p.addr
    BY <1>5, <1>9, LineFacts, LinesDiffer
  <2>2. \A o \in Offsets : new[a + o] = image[a + o]
    BY <1>11, <1>12, <2>1
  <2>3. QED
    BY <2>2 DEF Image
<1>16. /\ r.queue = s.queue /\ r.mshr = s.mshr /\ r.store = s.store /\ r.abort = s.abort
       /\ \A d \in Caches \ {"L1D"} : r.blocks[d] = s.blocks[d]
       /\ Rewritten(s, "L1D", addr, b, r) /\ Typed(r)
       /\ r.out = Append(s.out, [type |-> p.type, addr |-> p.addr,
                                 value |-> b.data[p.addr % BlkSize]])
  BY <1>4, <1>7 DEF AnswersFrom
<1>17. PICK x : x = [type |-> p.type, addr |-> p.addr, value |-> b.data[p.addr % BlkSize]]
  OBVIOUS
<1>18. s.out \in Seq(Answers) /\ r.out = Append(s.out, x) /\ r.out \in Seq(Answers)
  BY <1>16, <1>17 DEF Typed
<1>19. x \in Answers
  <2>1. Len(r.out) \in 1 .. Len(r.out) /\ r.out[Len(r.out)] = x
    BY <1>18
  <2>2. QED
    BY <1>18, <2>1
<1>20. Fair(x, m, req) /\ x.type = "store"
  BY <1>9, <1>10, <1>17 DEF Fair
<1>21. Answered(m, r.out, req) /\ After(m, r.out, req) = new
  <2>1. /\ Answered(m, r.out, req)
        /\ After(m, r.out, req) = [m EXCEPT ![p.addr] = req.value]
    <3>1. Answered(m, s.out, req)
      BY <1>3
    <3>2. s.out \in Seq(Answers) /\ Fair(x, m, req)
      BY <1>18, <1>20
    <3>3. /\ Answered(m, Append(s.out, x), req)
          /\ After(m, Append(s.out, x), req) =
               IF x.type = "store" THEN [m EXCEPT ![req.addr] = req.value]
               ELSE After(m, s.out, req)
      BY <1>19, <3>1, <3>2, AnswerLast, ZenonT(60)
    <3>4. After(m, Append(s.out, x), req) = [m EXCEPT ![req.addr] = req.value]
      BY <1>20, <3>3
    <3>5. QED
      BY <1>10, <1>18, <3>3, <3>4
  <2>2. image = m \/ image = [m EXCEPT ![req.addr] = req.value]
    BY <1>2 DEF After
  <2>3. [m EXCEPT ![p.addr] = req.value] = new
    BY <1>9, <1>10, <1>11, <2>2
  <2>4. QED
    BY <2>1, <2>3
<1>22. \A d \in Caches : \A a \in Addresses : Holding(r, d, a) = Holding(s, d, a)
  <2>1. \A a \in Addresses : Holding(r, "L1D", a) = Holding(s, "L1D", a)
    BY <1>16, Zenon DEF Rewritten
  <2>2. \A d \in Caches \ {"L1D"} : r.blocks[d] = s.blocks[d]
    BY <1>16, Zenon
  <2>3. \A d \in Caches \ {"L1D"} : \A a : Holding(r, d, a) = Holding(s, d, a)
    BY <2>2, OthersSame
  <2>4. QED
    BY <2>1, <2>3, ZenonT(60)
<1>23. Shaped(r, k)
  BY <1>3, <1>16, <1>22, ShapedSame
<1>24. \A d \in Caches \ {"L1D"} : \A a : Copies(r, d, a) = Copies(s, d, a)
  <2>1. \A d \in Caches \ {"L1D"} : r.blocks[d] = s.blocks[d]
    BY <1>16, Zenon
  <2>2. QED
    BY <2>1, OthersSame
<1>25. \A a : ToL2(r, k, a) = ToL2(s, k, a) /\ ToMem(r, a) = ToMem(s, a)
  BY <1>16 DEF ToL2, ToMem
<1>26. ASSUME NEW a \in Lines, a # line
       PROVE  AgreeAt(r, k, a, Image(new, a))
  <2>1. Copies(r, "L1D", a) = Copies(s, "L1D", a)
    BY <1>5, <1>16, <1>26 DEF Rewritten
  <2>2. SameAt(s, k, r, k, a)
    BY <1>16, <1>24, <1>25, <2>1 DEF SameAt
  <2>3. AgreeAt(s, k, a, Image(image, a))
    BY <1>3 DEF Covered
  <2>4. QED
    BY <1>15, <1>26, <2>2, <2>3, AgreeSame
<1>27. AgreeAt(r, k, line, Image(new, line))
  <2>1. Copies(s, "L1I", line) = {}
    <3>1. BlockOf(line) \in Held("L1D")
      BY <1>1, <1>6, CopyTyped
    <3>2. BlockOf(line) \notin Held("L1I")
      BY <3>1, WordIsAddress DEF Held
    <3>3. QED
      BY <1>1, <3>2, CopyTyped
  <2>2. AgreeAt(s, k, line, Image(image, line))
    BY <1>3 DEF Covered
  <2>3. Agree({}, {old}, ToL2(s, k, line), Copies(s, "L2", line), ToMem(s, line),
              Image(s.store, line), Image(image, line))
    BY <1>6, <2>1, <2>2 DEF AgreeAt
  <2>4. Agree({}, {b}, ToL2(s, k, line), Copies(s, "L2", line), ToMem(s, line),
              Image(s.store, line), Image(new, line))
    BY <1>8, <1>14, <2>3, WrittenAgrees
  <2>5. /\ Copies(r, "L1D", line) = {b} /\ Copies(r, "L1I", line) = {}
        /\ Copies(r, "L2", line) = Copies(s, "L2", line)
    BY <1>5, <1>16, <1>24, <2>1 DEF Rewritten, Caches
  <2>6. QED
    BY <1>16, <1>25, <2>4, <2>5 DEF AgreeAt
<1>28. Owned(r, req)
  BY <1>3, <1>16 DEF Owned
<1>29. QED
  BY <1>21, <1>23, <1>26, <1>27, <1>28 DEF Right, Coherent, Covered

\* A level 1 cache answers a packet for a line that it has.
LEMMA AnswerRight ==
  ASSUME NEW s, Typed(s), NEW c \in {"L1I", "L1D"}, NEW addr \in Addresses,
         Holding(s, c, addr) # {}, NEW p \in PacketSet(c),
         BlockAddress(p.addr) = BlockAddress(addr),
         NEW m \in [Addresses -> Values], NEW req, c = "L1D" => Mine(p, req), NEW k,
         Right(s, k, m, req), NEW x, x = Apply(s, c, addr, p),
         NEW r, r = ToCore(x, p, BlockAt(x, c, addr))
  PROVE  Right(r, k, m, req)
<1>1. c \in Caches /\ c \in Levels /\ (IsWrite(p) => c # "L1I")
  <2>1. c \in Caches /\ c \in Levels
    BY DEF Caches, Levels
  <2>2. QED
    BY <2>1, PacketFacts
<1>2. CASE s.abort # "none"
  <2>1. r.abort = s.abort
    BY AnswerAborts
  <2>2. QED
    BY <1>2, <2>1 DEF Right
<1>3. CASE s.abort = "none"
  <2>1. Unique(s)
    BY <1>3 DEF Right, Coherent, Shaped
  <2>2. AnswersFrom(s, c, addr, p, r)
    BY <2>1, AnswerEffect
  <2>3. CASE IsWrite(p)
    BY <1>1, <1>3, <2>2, <2>3, StoreRight
  <2>4. CASE ~IsWrite(p)
    BY <1>3, <2>2, <2>4, ReadRight
  <2>5. QED
    BY <2>3, <2>4
<1>4. QED
  BY <1>2, <1>3

-------------------------------------------------------------------------------
(* Queues that keep their packets in their order.                            *)

\* The places of the packets of a queue that are not done with.
LivePlaces(q, k) == {i \in 1 .. Len(q) : i > k \/ ~Ready(q[i])}

\* What a packet is, whenever it is ready.
SamePacket(p, t) == p.type = t.type /\ p.addr = t.addr /\ p.data = t.data

\* A queue's packets are another's, in their order; f says where they were.
Embeds(q, j, r, k, f) ==
  /\ \A i \in LivePlaces(r, k) : f[i] \in LivePlaces(q, j) /\ SamePacket(r[i], q[f[i]])
  /\ \A i, l \in LivePlaces(r, k) : f[i] < f[l] => i < l

\* So their write-backs stay ahead of their reads.
LEMMA EmbedsKeeps ==
  ASSUME NEW q, NEW j, NEW r, NEW k, NEW f, Embeds(q, j, r, k, f), NEW a
  PROVE  /\ Backs(r, k, a) \subseteq Backs(q, j, a)
         /\ \A kind : LiveAt(r, k, kind, a) # {} => LiveAt(q, j, kind, a) # {}
         /\ \A kind : Ahead(q, j, kind, a) => Ahead(r, k, kind, a)
<1>1. ASSUME NEW kind, NEW i \in LiveAt(r, k, kind, a)
      PROVE  i \in LivePlaces(r, k) /\ f[i] \in LiveAt(q, j, kind, a)
  <2>1. i \in LivePlaces(r, k) /\ Is(r[i], kind, a)
    BY DEF LivePlaces, LiveAt
  <2>2. f[i] \in LivePlaces(q, j) /\ SamePacket(r[i], q[f[i]])
    BY <2>1 DEF Embeds
  <2>3. QED
    BY <2>1, <2>2 DEF LivePlaces, LiveAt, SamePacket, Is
<1>2. Backs(r, k, a) \subseteq Backs(q, j, a)
  <2>1. ASSUME NEW i \in LiveAt(r, k, "writeback", a)
        PROVE  r[i].data \in Backs(q, j, a)
    <3>1. f[i] \in LiveAt(q, j, "writeback", a) /\ i \in LivePlaces(r, k)
      BY <1>1
    <3>2. r[i].data = q[f[i]].data
      BY <3>1 DEF Embeds, SamePacket
    <3>3. QED
      BY <3>1, <3>2 DEF Backs
  <2>2. QED
    BY <2>1 DEF Backs
<1>3. ASSUME NEW kind, Ahead(q, j, kind, a)
      PROVE  Ahead(r, k, kind, a)
  <2>1. ASSUME NEW i \in LiveAt(r, k, "writeback", a), NEW l \in LiveAt(r, k, kind, a)
        PROVE  i < l
    <3>1. /\ i \in LivePlaces(r, k) /\ f[i] \in LiveAt(q, j, "writeback", a)
          /\ l \in LivePlaces(r, k) /\ f[l] \in LiveAt(q, j, kind, a)
      BY <1>1
    <3>2. f[i] < f[l]
      BY <1>3, <3>1 DEF Ahead
    <3>3. QED
      BY <3>1, <3>2 DEF Embeds
  <2>2. QED
    BY <2>1 DEF Ahead
<1>4. QED
  BY <1>1, <1>2, <1>3

\* None of the write-backs of a line is lost, if each has its place.
LEMMA EmbedsAll ==
  ASSUME NEW q, NEW j, NEW r, NEW k, NEW f, Embeds(q, j, r, k, f), NEW a,
         \A i \in LiveAt(q, j, "writeback", a) : \E l \in LivePlaces(r, k) : f[l] = i
  PROVE  Backs(r, k, a) = Backs(q, j, a)
<1>1. ASSUME NEW i \in LiveAt(q, j, "writeback", a)
      PROVE  q[i].data \in Backs(r, k, a)
  <2>1. PICK l \in LivePlaces(r, k) : f[l] = i
    OBVIOUS
  <2>2. SamePacket(r[l], q[i])
    BY <2>1 DEF Embeds
  <2>3. Is(q[i], "writeback", a)
    BY DEF LiveAt
  <2>4. l \in LiveAt(r, k, "writeback", a)
    BY <2>1, <2>2, <2>3 DEF LivePlaces, LiveAt, SamePacket, Is
  <2>5. QED
    BY <2>2, <2>4 DEF Backs, SamePacket
<1>2. Backs(q, j, a) \subseteq Backs(r, k, a)
  BY <1>1 DEF Backs
<1>3. QED
  BY <1>2, EmbedsKeeps

\* A packet is put last.
PutLast(q, k, p, r) ==
  /\ r[Len(q) + 1] = p
  /\ \A kind, a :
       /\ \A i \in LiveAt(r, k, kind, a) :
            i \in LiveAt(q, k, kind, a) \/ (i = Len(q) + 1 /\ Is(p, kind, a))
       /\ \A i \in LiveAt(q, k, kind, a) :
            i \in LiveAt(r, k, kind, a) /\ r[i] = q[i] /\ i < Len(q) + 1
       /\ Is(p, kind, a) => Len(q) + 1 \in LiveAt(r, k, kind, a)

\* It has the last place.
LEMMA LastLive ==
  ASSUME NEW S, NEW q \in Seq(S), NEW p \in S, NEW k, k = 0 \/ ~Ready(p),
         NEW r, r = Append(q, p)
  PROVE  PutLast(q, k, p, r)
<1>1. /\ Len(r) = Len(q) + 1 /\ Len(q) \in Nat /\ r[Len(q) + 1] = p
      /\ \A i \in 1 .. Len(q) : r[i] = q[i]
  OBVIOUS
<1>2. \A i \in 1 .. Len(r) : i \in 1 .. Len(q) \/ i = Len(q) + 1
  BY <1>1
<1>3. \A i \in 1 .. Len(q) : i \in 1 .. Len(r) /\ i < Len(q) + 1
  BY <1>1
<1>4. Len(q) + 1 \in 1 .. Len(r) /\ (Len(q) + 1 > k \/ ~Ready(p))
  BY <1>1
<1>5. QED
  BY <1>1, <1>2, <1>3, <1>4 DEF LiveAt, PutLast

\* A write-back joins those of its line; it must not come after reads of it.
LastJoins(q, k, p, r, a) ==
  /\ Backs(r, k, a) = Backs(q, k, a)
                        \cup (IF Is(p, "writeback", a) THEN {p.data} ELSE {})
  /\ \A kind \in {"fetch", "load"} :
       /\ Ahead(q, k, kind, a)
       /\ Is(p, "writeback", a) => LiveAt(q, k, kind, a) = {}
       => Ahead(r, k, kind, a)

\* So does a packet that is put last.
LEMMA LastKeeps ==
  ASSUME NEW S, NEW q \in Seq(S), NEW p \in S, NEW k, k = 0 \/ ~Ready(p),
         NEW r, r = Append(q, p), NEW a
  PROVE  LastJoins(q, k, p, r, a)
<1>0. PutLast(q, k, p, r)
  BY LastLive
<1>1. Backs(r, k, a) \subseteq
        Backs(q, k, a) \cup (IF Is(p, "writeback", a) THEN {p.data} ELSE {})
  <2>1. ASSUME NEW i \in LiveAt(r, k, "writeback", a)
        PROVE  r[i].data \in
                 Backs(q, k, a) \cup (IF Is(p, "writeback", a) THEN {p.data} ELSE {})
    <3>1. CASE i \in LiveAt(q, k, "writeback", a)
      <4>1. r[i] = q[i]
        BY <1>0, <3>1 DEF PutLast
      <4>2. QED
        BY <3>1, <4>1 DEF Backs
    <3>2. CASE i = Len(q) + 1 /\ Is(p, "writeback", a)
      <4>1. r[i] = p
        BY <1>0, <3>2 DEF PutLast
      <4>2. QED
        BY <3>2, <4>1
    <3>3. QED
      BY <1>0, <3>1, <3>2, ZenonT(60) DEF PutLast
  <2>2. QED
    BY <2>1 DEF Backs
<1>2. Backs(q, k, a) \subseteq Backs(r, k, a)
  <2>1. \A i \in LiveAt(q, k, "writeback", a) :
          i \in LiveAt(r, k, "writeback", a) /\ r[i] = q[i]
    BY <1>0 DEF PutLast
  <2>2. QED
    BY <2>1 DEF Backs
<1>3. Is(p, "writeback", a) => p.data \in Backs(r, k, a)
  <2>1. Is(p, "writeback", a) =>
          Len(q) + 1 \in LiveAt(r, k, "writeback", a) /\ r[Len(q) + 1] = p
    BY <1>0 DEF PutLast
  <2>2. QED
    BY <2>1 DEF Backs
<1>4. ASSUME NEW kind \in {"fetch", "load"}, Ahead(q, k, kind, a),
             Is(p, "writeback", a) => LiveAt(q, k, kind, a) = {}
      PROVE  Ahead(r, k, kind, a)
  <2>1. ASSUME NEW i \in LiveAt(r, k, "writeback", a), NEW l \in LiveAt(r, k, kind, a)
        PROVE  i < l
    <3>1. i \in LiveAt(q, k, "writeback", a) \/ (i = Len(q) + 1 /\ Is(p, "writeback", a))
      BY <1>0 DEF PutLast
    <3>2. l \in LiveAt(q, k, kind, a) \/ (l = Len(q) + 1 /\ Is(p, kind, a))
      BY <1>0 DEF PutLast
    <3>3. \A n \in LiveAt(q, k, "writeback", a) : n < Len(q) + 1
      BY <1>0 DEF PutLast
    <3>4. ~(Is(p, "writeback", a) /\ Is(p, kind, a))
      BY <1>4 DEF Is
    <3>5. CASE i \in LiveAt(q, k, "writeback", a) /\ l \in LiveAt(q, k, kind, a)
      BY <1>4, <3>5 DEF Ahead
    <3>6. CASE i \in LiveAt(q, k, "writeback", a) /\ l = Len(q) + 1
      BY <3>3, <3>6
    <3>7. QED
      BY <1>4, <3>1, <3>2, <3>4, <3>5, <3>6
  <2>2. QED
    BY <2>1 DEF Ahead
<1>5. QED
  BY <1>1, <1>2, <1>3, <1>4 DEF LastJoins

-------------------------------------------------------------------------------
(* Steps that change the queues and the entries only.                        *)

\* The write-backs are those that were, and the queues and entries are in order.
Arranged(s, j, r, k, req) ==
  /\ \A a \in Lines : ToL2(r, k, a) = ToL2(s, j, a) /\ ToMem(r, a) = ToMem(s, a)
  /\ InOrder2(r, k) /\ InOrderMem(r) /\ Matched(r) /\ Owned(r, req)

\* The copies agree as they did.
LEMMA ArrangedRight ==
  ASSUME NEW s, NEW j, NEW r, NEW k, NEW m, NEW req, Right(s, j, m, req),
         r.blocks = s.blocks, r.store = s.store, r.out = s.out,
         r.abort = "none" => s.abort = "none" /\ Arranged(s, j, r, k, req)
  PROVE  Right(r, k, m, req)
<1> SUFFICES ASSUME r.abort = "none"
             PROVE  /\ Coherent(r, k, After(m, r.out, req))
                    /\ Answered(m, r.out, req) /\ Owned(r, req)
  BY DEF Right
<1>1. PICK image : image = After(m, s.out, req)
  OBVIOUS
<1>2. /\ Covered(s, j, image) /\ Unique(s) /\ Answered(m, s.out, req)
      /\ Arranged(s, j, r, k, req)
  BY <1>1 DEF Right, Coherent, Shaped
<1>3. \A c, a : Copies(r, c, a) = Copies(s, c, a) /\ Holding(r, c, a) = Holding(s, c, a)
  BY DEF Copies, Holding
<1>4. ASSUME NEW a \in Lines
      PROVE  AgreeAt(r, k, a, Image(image, a))
  <2>1. SameAt(s, j, r, k, a)
    BY <1>2, <1>3 DEF SameAt, Arranged
  <2>2. AgreeAt(s, j, a, Image(image, a))
    BY <1>2 DEF Covered
  <2>3. QED
    BY <2>1, <2>2, AgreeSame
<1>5. Unique(r)
  BY <1>2, <1>3 DEF Unique
<1>6. Shaped(r, k) /\ Owned(r, req)
  BY <1>2, <1>5 DEF Shaped, Arranged
<1>7. Covered(r, k, image)
  BY <1>4 DEF Covered
<1>8. QED
  BY <1>1, <1>2, <1>6, <1>7 DEF Coherent

\* What those facts depend on.
LEMMA SameRight ==
  ASSUME NEW s, NEW r, NEW k, NEW m, NEW req, Right(s, k, m, req),
         r.queue = s.queue, r.blocks = s.blocks, r.mshr = s.mshr, r.store = s.store,
         r.out = s.out, r.abort = "none" => s.abort = "none"
  PROVE  Right(r, k, m, req)
<1>1. ASSUME r.abort = "none"
      PROVE  Arranged(s, k, r, k, req)
  <2>1. s.abort = "none"
    BY <1>1
  <2>2. InOrder2(s, k) /\ InOrderMem(s) /\ Matched(s) /\ Owned(s, req)
    BY <2>1 DEF Right, Coherent, Shaped
  <2>3. InOrder2(r, k) /\ InOrderMem(r) /\ Matched(r) /\ Owned(r, req)
    BY <2>2 DEF InOrder2, InOrderMem, Matched, Owned
  <2>4. QED
    BY <2>3 DEF Arranged, ToL2, ToMem
<1>2. QED
  BY <1>1, ArrangedRight

\* All packets are kept but the first.
MovedUp(q, r) ==
  \E f : /\ Embeds(q, 0, r, 0, f)
         /\ \A i \in 1 .. Len(q) : i = 1 \/ \E l \in LivePlaces(r, 0) : f[l] = i

\* The first packet leaves.
LEMMA TailEmbeds ==
  ASSUME NEW S, NEW q \in Seq(S), q # <<>>, NEW r, r = Tail(q)
  PROVE  MovedUp(q, r)
<1>1. /\ Len(q) \in Nat /\ Len(q) >= 1 /\ Len(r) = Len(q) - 1
      /\ \A i \in 1 .. Len(r) : r[i] = q[i + 1]
  OBVIOUS
<1>2. LivePlaces(r, 0) = 1 .. Len(r) /\ LivePlaces(q, 0) = 1 .. Len(q)
  BY <1>1 DEF LivePlaces
<1>3. PICK f : f = [i \in 1 .. Len(r) |-> i + 1]
  OBVIOUS
<1>4. \A i \in 1 .. Len(r) : f[i] = i + 1 /\ i + 1 \in 1 .. Len(q)
  BY <1>1, <1>3
<1>5. Embeds(q, 0, r, 0, f)
  <2>1. \A i \in 1 .. Len(r) : f[i] \in 1 .. Len(q) /\ SamePacket(r[i], q[f[i]])
    BY <1>1, <1>4 DEF SamePacket
  <2>2. \A i, l \in 1 .. Len(r) : f[i] < f[l] => i < l
    BY <1>4
  <2>3. QED
    BY <1>2, <2>1, <2>2 DEF Embeds
<1>6. ASSUME NEW i \in 1 .. Len(q), i # 1
      PROVE  \E l \in LivePlaces(r, 0) : f[l] = i
  <2>1. i - 1 \in 1 .. Len(r)
    BY <1>1, <1>6
  <2>2. f[i - 1] = i
    BY <1>4, <2>1
  <2>3. QED
    BY <1>2, <2>1, <2>2
<1>7. QED
  BY <1>5, <1>6 DEF MovedUp

\* The others stay as they were, all write-backs among them unless it was one.
LEMMA TailKeeps ==
  ASSUME NEW S, NEW q \in Seq(S), q # <<>>, NEW r, r = Tail(q), NEW a
  PROVE  /\ Backs(r, 0, a) \subseteq Backs(q, 0, a)
         /\ ~Is(q[1], "writeback", a) => Backs(r, 0, a) = Backs(q, 0, a)
         /\ \A kind : LiveAt(r, 0, kind, a) # {} => LiveAt(q, 0, kind, a) # {}
         /\ \A kind : Ahead(q, 0, kind, a) => Ahead(r, 0, kind, a)
<1>0. MovedUp(q, r)
  BY TailEmbeds
<1>1. PICK f : /\ Embeds(q, 0, r, 0, f)
               /\ \A i \in 1 .. Len(q) : i = 1 \/ \E l \in LivePlaces(r, 0) : f[l] = i
  BY <1>0 DEF MovedUp
<1>2. ASSUME ~Is(q[1], "writeback", a)
      PROVE  Backs(r, 0, a) = Backs(q, 0, a)
  <2>1. \A i \in LiveAt(q, 0, "writeback", a) : i # 1 /\ i \in 1 .. Len(q)
    BY <1>2 DEF LiveAt
  <2>2. QED
    BY <1>1, <2>1, EmbedsAll
<1>3. QED
  BY <1>1, <1>2, EmbedsKeeps

\* A packet that has been served leaves its entry.
LEMMA LeaveRight ==
  ASSUME NEW s, Typed(s), NEW c \in Caches, s.mshr[c][1].sub # <<>>,
         c = "L2" => s.mshr[c][1].sub[1].type # "writeback",
         NEW k, NEW m, NEW req, Right(s, k, m, req), NEW r, r = Leave(s, c)
  PROVE  Right(r, k, m, req)
<1>1. /\ Typed(r)
      /\ r.queue = s.queue /\ r.blocks = s.blocks /\ r.store = s.store
      /\ r.abort = s.abort /\ r.out = s.out
      /\ Leaves(s, c, r)
  BY LeaveEffect
<1>2. /\ \A d \in Caches \ {c} : r.mshr[d] = s.mshr[d]
      /\ r.mshr[c][1].sub = Tail(s.mshr[c][1].sub)
      /\ r.mshr[c][1].address = s.mshr[c][1].address
  BY <1>1 DEF Leaves
<1>3. PICK sub \in Seq(PacketSet(c)) : sub = s.mshr[c][1].sub
  <2>1. 1 \in 1 .. MshrEntries[c]
    BY Geometry
  <2>2. s.mshr[c][1].sub \in Seq(PacketSet(c))
    BY <2>1, SubTyped
  <2>3. QED
    BY <2>2
<1>4. PICK left : left = Tail(sub)
  OBVIOUS
<1>5. \A i \in 1 .. Len(left) : i + 1 \in 1 .. Len(sub) /\ left[i] = sub[i + 1]
  BY <1>3, <1>4
<1>6. r.mshr[c][1].sub = left
  BY <1>2, <1>3, <1>4
<1>7. ASSUME r.abort = "none"
      PROVE  Arranged(s, k, r, k, req)
  <2>1. InOrder2(s, k) /\ InOrderMem(s) /\ Matched(s) /\ Owned(s, req)
    BY <1>1, <1>7 DEF Right, Coherent, Shaped
  <2>2. InOrderMem(r)
    BY <1>1, <2>1 DEF InOrderMem
  <2>3. Matched(r)
    <3>1. ASSUME NEW i \in 1 .. Len(left)
          PROVE  BlockAddress(left[i].addr) = s.mshr[c][1].address
      BY <1>3, <1>5, <2>1 DEF Matched
    <3>2. \A i \in 1 .. Len(r.mshr[c][1].sub) :
            BlockAddress(r.mshr[c][1].sub[i].addr) = r.mshr[c][1].address
      BY <1>2, <1>6, <3>1
    <3>3. QED
      BY <1>2, <2>1, <3>2, ZenonT(60) DEF Matched
  <2>4. Owned(r, req)
    <3>1. c = "L1D" => \A i \in 1 .. Len(left) : Mine(left[i], req)
      BY <1>3, <1>5, <2>1 DEF Owned
    <3>2. c # "L1D" => r.mshr["L1D"] = s.mshr["L1D"]
      BY <1>2 DEF Caches
    <3>3. QED
      BY <1>1, <1>6, <2>1, <3>1, <3>2 DEF Owned
  <2>5. CASE c # "L2"
    <3>1. r.mshr["L2"] = s.mshr["L2"]
      BY <1>2, <2>5 DEF Caches
    <3>2. InOrder2(r, k) /\ \A a \in Lines : ToL2(r, k, a) = ToL2(s, k, a)
                                              /\ ToMem(r, a) = ToMem(s, a)
      BY <1>1, <2>1, <3>1 DEF InOrder2, ToL2, ToMem
    <3>3. QED
      BY <2>2, <2>3, <2>4, <3>2 DEF Arranged
  <2>6. CASE c = "L2"
    <3>1. ASSUME NEW a \in Lines
          PROVE  /\ Backs(left, 0, a) = Backs(sub, 0, a)
                 /\ LiveAt(left, 0, "load", a) # {} => LiveAt(sub, 0, "load", a) # {}
                 /\ Ahead(sub, 0, "load", a) => Ahead(left, 0, "load", a)
      <4>1. sub # <<>> /\ ~Is(sub[1], "writeback", a)
        BY <1>3, <2>6 DEF Is
      <4>2. QED
        BY <1>4, <4>1, TailKeeps
    <3>2. \A a \in Lines : ToL2(r, k, a) = ToL2(s, k, a) /\ ToMem(r, a) = ToMem(s, a)
      BY <1>1, <1>3, <1>6, <2>6, <3>1 DEF ToL2, ToMem
    <3>3. InOrder2(r, k)
      BY <1>1, <1>3, <1>6, <2>1, <2>6, <3>1 DEF InOrder2
    <3>4. QED
      BY <2>2, <2>3, <2>4, <3>2, <3>3 DEF Arranged
  <2>7. QED
    BY <2>5, <2>6
<1>8. QED
  BY <1>1, <1>7, ArrangedRight

-------------------------------------------------------------------------------
(* An answer to a level 1 cache.                                             *)

\* One waiting packet is served.
LEMMA ServeL1Right ==
  ASSUME NEW s, Typed(s), NEW c \in {"L1I", "L1D"}, NEW addr \in Addresses,
         Holding(s, c, addr) # {}, NEW p \in PacketSet(c), s.mshr[c][1].sub # <<>>,
         p = Head(s.mshr[c][1].sub), s.mshr[c][1].address = BlockAddress(addr),
         NEW m \in [Addresses -> Values], NEW req, NEW k, Right(s, k, m, req),
         NEW r, r = ServeL1(s, c, addr, p)
  PROVE  Right(r, k, m, req) /\ r.mshr[c][1].address = s.mshr[c][1].address
<1>1. c \in Caches /\ c \in Levels /\ c # "L2" /\ (IsWrite(p) => c # "L1I")
  <2>1. c \in Caches /\ c \in Levels /\ c # "L2"
    BY DEF Caches, Levels
  <2>2. QED
    BY <2>1, PacketFacts
<1>2. r.abort = s.abort /\ r.mshr[c][1].address = s.mshr[c][1].address
  BY ServeL1Effect, ZenonT(60) DEF ServedOne, Leaves
<1>3. CASE s.abort # "none"
  BY <1>2, <1>3 DEF Right
<1>4. CASE s.abort = "none"
  <2>1. Matched(s) /\ Owned(s, req)
    BY <1>4 DEF Right, Coherent, Shaped
  <2>2. 1 \in 1 .. Len(s.mshr[c][1].sub) /\ p = s.mshr[c][1].sub[1]
    <3>1. 1 \in 1 .. MshrEntries[c]
      BY <1>1, Geometry
    <3>2. s.mshr[c][1].sub \in Seq(PacketSet(c))
      BY <1>1, <3>1, SubTyped
    <3>3. QED
      BY <3>2
  <2>3. BlockAddress(p.addr) = BlockAddress(addr) /\ (c = "L1D" => Mine(p, req))
    BY <1>1, <2>1, <2>2 DEF Matched, Owned
  <2>4. PICK x : x = Apply(s, c, addr, p)
    OBVIOUS
  <2>5. PICK b : b = BlockAt(x, c, addr)
    OBVIOUS
  <2>6. PICK y : y = ToCore(x, p, b)
    OBVIOUS
  <2>7. Right(y, k, m, req)
    BY <2>3, <2>4, <2>5, <2>6, AnswerRight
  <2>8. /\ Typed(x) /\ x.mshr = s.mshr /\ Holding(x, c, addr) # {}
    BY <1>1, <2>4, ApplyEffect
  <2>9. b.data \in [Offsets -> Values]
    BY <1>1, <2>5, <2>8, WayHolds
  <2>10. Typed(y) /\ y.mshr = x.mshr
    BY <2>6, <2>8, <2>9, ToCoreEffect
  <2>11. r = Leave(y, c)
    BY <2>4, <2>5, <2>6 DEF ServeL1
  <2>12. y.mshr[c][1].sub # <<>>
    BY <2>8, <2>10
  <2>13. QED
    BY <1>1, <1>2, <2>7, <2>10, <2>11, <2>12, LeaveRight
<1>5. QED
  BY <1>3, <1>4

\* While the waiting packets of an entry are served, for the request ctx.req of
\* the core's; ctx.m is the image before the Tick, which is at packet ctx.pass.
RightL1(ctx, k, x) ==
  /\ ServingL1(ctx, k, x) /\ Right(x, ctx.pass, ctx.m, ctx.req)
  /\ x.mshr[ctx.c][1].address = BlockAddress(ctx.addr)

\* The loop over the packets that wait in a level 1 cache.
RightL1Fold == INSTANCE FoldInduction WITH
                 op <- LAMBDA c, addr, unused, x, p : ServeL1(x, c, addr, p),
                 J <- RightL1

\* All that waited are served.
LEMMA ServedL1Right ==
  ASSUME NEW s, Typed(s), NEW c \in {"L1I", "L1D"}, NEW addr \in Addresses,
         Holding(s, c, addr) # {}, NEW subs, subs = s.mshr[c][1].sub,
         s.mshr[c][1].address = BlockAddress(addr),
         NEW m \in [Addresses -> Values], NEW req, NEW pass, Right(s, pass, m, req)
  PROVE  Right(AllServedL1(s, c, addr, subs), pass, m, req)
<1>1. c \in Caches /\ 1 \in 1 .. MshrEntries[c]
  BY Geometry DEF Caches
<1>2. subs \in Seq(PacketSet(c)) /\ Len(subs) \in Nat
  <2>1. s.mshr[c][1] \in EntrySet(c)
    BY <1>1 DEF Typed, MshrTyped
  <2>2. QED
    BY <2>1 DEF EntrySet
<1>3. PICK ctx : ctx = [c |-> c, addr |-> addr, from |-> s, pass |-> pass, m |-> m,
                        req |-> req]
  OBVIOUS
<1>4. /\ ctx.c = c /\ ctx.addr = addr /\ ctx.from = s
      /\ ctx.pass = pass /\ ctx.m = m /\ ctx.req = req
  BY <1>3
<1>5. RightL1(ctx, 0, s)
  <2>1. SubSeq(subs, 1, Len(subs)) = subs
    BY <1>2
  <2>2. Settles(s, s)
    BY SettlesSame
  <2>3. ServingL1(ctx, 0, s)
    BY <1>4, <2>1, <2>2 DEF ServingL1, SameHeld
  <2>4. QED
    BY <1>4, <2>3 DEF RightL1
<1>6. ASSUME NEW k \in 1 .. Len(subs), NEW x, RightL1(ctx, k - 1, x)
      PROVE  RightL1(ctx, k, ServeL1(x, c, addr, subs[k]))
  <2>0. (k - 1) + 1 = k
    BY <1>2
  <2>1. /\ ServingL1(ctx, k - 1, x) /\ Right(x, pass, m, req)
        /\ x.mshr[c][1].address = BlockAddress(addr)
    BY <1>4, <1>6 DEF RightL1
  <2>2. /\ Typed(x) /\ Holding(x, c, addr) # {}
        /\ x.mshr[c][1].sub = SubSeq(subs, k, Len(subs))
    BY <1>4, <2>0, <2>1 DEF ServingL1
  <2>3. PICK p \in PacketSet(c) : p = subs[k]
    BY <1>2
  <2>4. /\ SubSeq(subs, k, Len(subs)) # <<>>
        /\ Tail(SubSeq(subs, k, Len(subs))) = SubSeq(subs, k + 1, Len(subs))
        /\ Head(SubSeq(subs, k, Len(subs))) = subs[k]
    BY <1>2, RestOfSequence
  <2>5. x.mshr[c][1].sub # <<>> /\ p = Head(x.mshr[c][1].sub)
    BY <2>2, <2>3, <2>4
  <2>6. PICK r : r = ServeL1(x, c, addr, p)
    OBVIOUS
  <2>7. ServedOne(x, c, addr, r)
    BY <2>2, <2>3, <2>5, <2>6, ServeL1Effect
  <2>8. Right(r, pass, m, req) /\ r.mshr[c][1].address = x.mshr[c][1].address
    <3>1. /\ Typed(x) /\ Holding(x, c, addr) # {} /\ x.mshr[c][1].sub # <<>>
          /\ p = Head(x.mshr[c][1].sub) /\ x.mshr[c][1].address = BlockAddress(addr)
      BY <2>1, <2>2, <2>5
    <3>2. Right(x, pass, m, req)
      BY <2>1
    <3>3. QED
      BY <2>6, <3>1, <3>2, ServeL1Right, SMTT(60)
  <2>9. ServingL1(ctx, k, r)
    <3>1. /\ x.queue = s.queue /\ x.store = s.store /\ x.abort = s.abort
          /\ \A d \in Caches \ {c} : x.blocks[d] = s.blocks[d] /\ x.mshr[d] = s.mshr[d]
          /\ \A i \in 2 .. MshrEntries[c] : x.mshr[c][i] = s.mshr[c][i]
          /\ SameHeld(s, x, c) /\ Settles(s, x)
      BY <1>4, <2>1 DEF ServingL1
    <3>2. /\ Typed(r) /\ Holding(r, c, addr) # {}
          /\ r.queue = x.queue /\ r.store = x.store /\ r.abort = x.abort
          /\ \A d \in Caches \ {c} : r.blocks[d] = x.blocks[d] /\ r.mshr[d] = x.mshr[d]
          /\ \A i \in 2 .. MshrEntries[c] : r.mshr[c][i] = x.mshr[c][i]
          /\ r.mshr[c][1].sub = Tail(x.mshr[c][1].sub) /\ SameHeld(x, r, c)
          /\ Settles(x, r)
      BY <2>7 DEF ServedOne, Leaves
    <3>3. r.mshr[c][1].sub = SubSeq(subs, k + 1, Len(subs))
      BY <2>2, <2>4, <3>2
    <3>4. SameHeld(s, r, c) /\ Settles(s, r)
      BY <3>1, <3>2, SettlesTwice DEF SameHeld
    <3>5. QED
      BY <1>4, <3>1, <3>2, <3>3, <3>4, ZenonT(60) DEF ServingL1
  <2>10. RightL1(ctx, k, r)
    BY <1>4, <2>1, <2>8, <2>9 DEF RightL1
  <2>11. QED
    BY <2>3, <2>6, <2>10
<1>7. PICK r : r = RightL1Fold!Fold(c, addr, 0, s, subs)
  OBVIOUS
<1>8. r = AllServedL1(s, c, addr, subs)
  BY <1>7, Zenon DEF AllServedL1, RightL1Fold!Fold, FoldLeft, MapThenFoldSet, Max,
                     RightL1Fold!FoldLeft, RightL1Fold!MapThenFoldSet, RightL1Fold!Max
<1>9. RightL1(ctx, Len(subs), r)
  BY <1>2, <1>5, <1>6, <1>7, RightL1Fold!FoldInvariant
<1>10. QED
  BY <1>4, <1>8, <1>9 DEF RightL1

-------------------------------------------------------------------------------
(* A block put in a cache.                                                   *)

\* What a way has of a line, if written, is sent to the level below.
Sent(s, c, b, line, r) ==
  /\ ~b.dirty => r.queue = s.queue
  /\ b.dirty => \E p \in PacketSet(Next1(c)) :
       /\ Is(p, "writeback", line) /\ p.data = b.data /\ ~Ready(p)
       /\ r.queue[Next1(c)] = Append(s.queue[Next1(c)], p)
       /\ \A d \in Levels \ {Next1(c)} : r.queue[d] = s.queue[d]

\* And nothing else changes.
SentBack(s, c, b, line, r) ==
  /\ r.blocks = s.blocks /\ r.mshr = s.mshr /\ r.store = s.store /\ r.out = s.out
  /\ s.abort = "none" /\ Sent(s, c, b, line, r)

\* writeBack, when no assertion fails.
LEMMA WriteBackView ==
  ASSUME NEW s, Typed(s), NEW c \in Caches, NEW set \in Sets(c), NEW way \in Ways(c),
         NEW b, b = s.blocks[c][set][way], b.valid,
         NEW r, r = writeBack(s, c, set, way), r.abort = "none"
  PROVE  SentBack(s, c, b, (b.tag * NumSets[c] + set) * BlkSize, r)
<1>1. PICK addr : addr = getAddress(c, [tag |-> b.tag, set |-> set, offset |-> 0])
  OBVIOUS
<1>2. PICK d : d = Next1(c)
  OBVIOUS
<1>3. /\ addr = (b.tag * NumSets[c] + set) * BlkSize
      /\ b.tag * NumSets[c] + set \in Held(c) /\ b.data \in [Offsets -> Values]
  BY <1>1, HeldAddress
<1>4. d \in {"L2", "Mem"} /\ d \in Levels
  BY <1>2 DEF Next1, Levels, Caches
<1>5. r = IF ~(b.valid /\ b.dirty) THEN s
          ELSE IF Refused(s, d, addr) THEN Fails(s, "refused")
          ELSE recvReq(s, d, Packet("writeback", addr, b.data))
  BY <1>1, <1>2 DEF writeBack
<1>6. CASE ~b.dirty
  <2>1. r = s
    BY <1>5, <1>6
  <2>2. QED
    BY <1>6, <2>1 DEF SentBack, Sent
<1>7. CASE b.dirty /\ Refused(s, d, addr)
  <2>1. r = Fails(s, "refused")
    BY <1>5, <1>7
  <2>2. r.abort # "none"
    BY <2>1 DEF Fails, Typed
  <2>3. QED
    BY <2>2
<1>8. CASE b.dirty /\ ~Refused(s, d, addr)
  <2>1. PICK p : p = Packet("writeback", addr, b.data)
    OBVIOUS
  <2>2. PICK q : q = [p EXCEPT !.ready = Delay[d]]
    OBVIOUS
  <2>3. Delay[d] \in 0 .. Delay[d] /\ Delay[d] \in Nat \ {0}
    BY <1>4, Geometry
  <2>4. q = [type |-> "writeback", addr |-> addr, data |-> b.data, ready |-> Delay[d]]
    BY <2>1, <2>2 DEF Packet
  <2>5. PICK blk : blk = b.tag * NumSets[c] + set
    OBVIOUS
  <2>6. blk \in (IF d = "L2" THEN DataBlocks ELSE Blocks)
    <3>1. c # "L1I"
      <4>1. b \in BlockSet(c, set)
        BY DEF Typed, BlocksTyped
      <4>2. QED
        BY <1>8, <4>1 DEF BlockSet
    <3>2. QED
      BY <1>2, <1>3, <2>5, <3>1 DEF Held, Next1, Caches
  <2>7. q \in WriteBacksOf(IF d = "L2" THEN DataBlocks ELSE Blocks, d)
    BY <1>3, <2>3, <2>4, <2>5, <2>6 DEF WriteBacksOf, Starts
  <2>8. q \in PacketSet(d)
    BY <1>4, <2>7 DEF PacketSet
  <2>9. r = recvReq(s, d, p)
    BY <1>5, <1>8, <2>1
  <2>10. Received(s, d, p, q, r)
    BY <1>4, <2>2, <2>8, <2>9, RecvEffect
  <2>11. /\ r.blocks = s.blocks /\ r.mshr = s.mshr /\ r.store = s.store /\ r.out = s.out
         /\ r.abort = s.abort /\ r.queue[d] = Append(s.queue[d], q)
         /\ \A e \in Levels \ {d} : r.queue[e] = s.queue[e]
    BY <2>10 DEF Received
  <2>12. Is(q, "writeback", addr) /\ q.data = b.data /\ ~Ready(q)
    BY <2>3, <2>4 DEF Is, Ready
  <2>13. QED
    BY <1>2, <1>3, <1>8, <2>8, <2>11, <2>12 DEF SentBack, Sent
<1>9. QED
  BY <1>6, <1>7, <1>8

\* The line that a way has, from its set and tag.
LEMMA LineAt ==
  ASSUME NEW c \in Caches, NEW set \in Sets(c), NEW tag \in Nat,
         tag * NumSets[c] + set \in Blocks
  PROVE  LET v == (tag * NumSets[c] + set) * BlkSize
         IN v \in Lines /\ getLocation(c, v).set = set /\ getLocation(c, v).tag = tag
<1>1. PICK blk \in Blocks : blk = tag * NumSets[c] + set
  OBVIOUS
<1>2. PICK v : v = blk * BlkSize
  OBVIOUS
<1>3. v \in Lines /\ v \in Addresses /\ BlockOf(v) = blk
  BY <1>2, BlockAddresses DEF Lines, Starts
<1>4. PICK loc : loc = getLocation(c, v)
  OBVIOUS
<1>5. loc.set \in Sets(c) /\ loc.tag \in Nat /\ loc.tag * NumSets[c] + loc.set = blk
  BY <1>3, <1>4, Location
<1>6. loc.tag = tag /\ loc.set = set
  BY <1>1, <1>5, SameLocation
<1>7. QED
  BY <1>1, <1>2, <1>3, <1>4, <1>6

\* One line has a place.
LEMMA PlaceOfOne ==
  ASSUME NEW c \in Caches, NEW a \in Lines, NEW b \in Lines,
         getLocation(c, a).set = getLocation(c, b).set,
         getLocation(c, a).tag = getLocation(c, b).tag
  PROVE  a = b
<1>1. a \in Addresses /\ BlockAddress(a) = a /\ b \in Addresses /\ BlockAddress(b) = b
  BY LineFacts
<1>2. BlockOf(a) = BlockOf(b)
  <2>1. getLocation(c, a).tag * NumSets[c] + getLocation(c, a).set = BlockOf(a)
    BY <1>1, Location
  <2>2. getLocation(c, b).tag * NumSets[c] + getLocation(c, b).set = BlockOf(b)
    BY <1>1, Location
  <2>3. QED
    BY <2>1, <2>2
<1>3. QED
  BY <1>1, <1>2 DEF BlockAddress

\* One way of a set is given another block.
Swapped(s, c, set, way, b, r) ==
  /\ \A e \in Sets(c) \ {set} : r.blocks[c][e] = s.blocks[c][e]
  /\ \A w \in Ways(c) \ {way} : r.blocks[c][set][w] = s.blocks[c][set][w]
  /\ r.blocks[c][set][way] = b

\* Line a comes into that way, which no other line has any more.
SwappedIn(s, c, set, way, b, line, r) ==
  /\ Holding(r, c, line) = {way} /\ Copies(r, c, line) = {b}
  /\ \A a \in Lines \ {line} :
       IF getLocation(c, a).set = set /\ way \in Holding(s, c, a)
       THEN Holding(r, c, a) = Holding(s, c, a) \ {way}
       ELSE Holding(r, c, a) = Holding(s, c, a) /\ Copies(r, c, a) = Copies(s, c, a)

\* That way holds what its block says.
LEMMA SwapIn ==
  ASSUME NEW s, NEW c \in Caches, NEW line \in Lines, Holding(s, c, line) = {},
         NEW set \in Sets(c), set = getLocation(c, line).set, NEW way \in Ways(c),
         NEW b, b.valid, b.tag = getLocation(c, line).tag,
         NEW r, Swapped(s, c, set, way, b, r)
  PROVE  SwappedIn(s, c, set, way, b, line, r)
<1>1. \A w \in Ways(c) \ {way} : r.blocks[c][set][w] = s.blocks[c][set][w]
  BY DEF Swapped
<1>2. r.blocks[c][set][way] = b
  BY DEF Swapped
<1>3. Holding(r, c, line) = {way}
  <2>1. \A w \in Ways(c) \ {way} : w \notin Holding(r, c, line)
    BY <1>1 DEF Holding
  <2>2. way \in Holding(r, c, line)
    BY <1>2 DEF Holding
  <2>3. Holding(r, c, line) \subseteq Ways(c)
    BY DEF Holding
  <2>4. QED
    BY <2>1, <2>2, <2>3
<1>4. Copies(r, c, line) = {b}
  <2>1. Copies(r, c, line) = {r.blocks[c][getLocation(c, line).set][way]}
    BY <1>3 DEF Copies
  <2>2. QED
    BY <1>2, <2>1
<1>5. ASSUME NEW a \in Lines, a # line
      PROVE  IF getLocation(c, a).set = set /\ way \in Holding(s, c, a)
             THEN Holding(r, c, a) = Holding(s, c, a) \ {way}
             ELSE Holding(r, c, a) = Holding(s, c, a) /\ Copies(r, c, a) = Copies(s, c, a)
  <2>1. a \in Addresses /\ getLocation(c, a).set \in Sets(c)
    BY LineFacts, Location
  <2>2. CASE getLocation(c, a).set # set
    <3>1. r.blocks[c][getLocation(c, a).set] = s.blocks[c][getLocation(c, a).set]
      BY <2>1, <2>2 DEF Swapped
    <3>2. Holding(r, c, a) = Holding(s, c, a)
      BY <3>1 DEF Holding
    <3>3. QED
      BY <2>2, <3>1, <3>2 DEF Copies
  <2>3. CASE getLocation(c, a).set = set
    <3>1. getLocation(c, a).tag # b.tag
      BY <1>5, <2>3, PlaceOfOne
    <3>2. way \notin Holding(r, c, a)
      BY <1>2, <2>3, <3>1 DEF Holding
    <3>3. \A w \in Ways(c) \ {way} : w \in Holding(r, c, a) <=> w \in Holding(s, c, a)
      BY <1>1, <2>3 DEF Holding
    <3>4. Holding(r, c, a) \subseteq Ways(c) /\ Holding(s, c, a) \subseteq Ways(c)
      BY DEF Holding
    <3>5. Holding(r, c, a) = Holding(s, c, a) \ {way}
      BY <3>2, <3>3, <3>4
    <3>6. CASE way \in Holding(s, c, a)
      BY <2>3, <3>5, <3>6
    <3>7. CASE way \notin Holding(s, c, a)
      <4>1. Holding(r, c, a) = Holding(s, c, a)
        BY <3>5, <3>7
      <4>2. \A w \in Holding(s, c, a) : w \in Ways(c) \ {way}
        BY <3>4, <3>7
      <4>3. \A w \in Holding(s, c, a) : r.blocks[c][getLocation(c, a).set][w]
                                          = s.blocks[c][getLocation(c, a).set][w]
        BY <1>1, <2>3, <4>2
      <4>4. Copies(r, c, a) = Copies(s, c, a)
        BY <4>1, <4>3 DEF Copies
      <4>5. QED
        BY <3>7, <4>1, <4>4
    <3>8. QED
      BY <3>6, <3>7
  <2>4. QED
    BY <2>2, <2>3
<1>6. QED
  BY <1>3, <1>4, <1>5 DEF SwappedIn

\* A line comes into a cache, clean, and another may leave it.
Replaced(s, c, line, data, r) ==
  /\ Typed(r) /\ Unique(r) /\ s.abort = "none"
  /\ r.mshr = s.mshr /\ r.store = s.store /\ r.out = s.out
  /\ \A d \in Caches \ {c} : r.blocks[d] = s.blocks[d]
  /\ \E b : b.data = data /\ ~b.dirty /\ Copies(r, c, line) = {b}
  /\ \/ /\ r.queue = s.queue
        /\ \A a \in Lines \ {line} : Copies(r, c, a) = Copies(s, c, a)
     \/ \E v \in Lines \ {line} : \E old :
          /\ Copies(s, c, v) = {old} /\ Copies(r, c, v) = {} /\ Sent(s, c, old, v, r)
          /\ old.dirty => c # "L1I"
          /\ \A a \in Lines \ {line, v} : Copies(r, c, a) = Copies(s, c, a)

\* At most one way of a cache has each line still.
LEMMA SwapUnique ==
  ASSUME NEW s, Unique(s), NEW c \in Caches, NEW r, NEW set, NEW way, NEW b,
         NEW line \in Lines, SwappedIn(s, c, set, way, b, line, r),
         \A d \in Caches \ {c} : r.blocks[d] = s.blocks[d]
  PROVE  Unique(r)
<1>1. ASSUME NEW d \in Caches \ {c}, NEW a
      PROVE  Holding(r, d, a) = Holding(s, d, a)
  BY DEF Holding
<1>2. \A a \in Lines \ {line} : Holding(r, c, a) \subseteq Holding(s, c, a)
  BY DEF SwappedIn
<1>3. Holding(r, c, line) = {way}
  BY DEF SwappedIn
<1>4. ASSUME NEW d \in Caches, NEW a \in Lines, NEW v \in Holding(r, d, a),
             NEW w \in Holding(r, d, a)
      PROVE  v = w
  <2>1. CASE d # c
    BY <1>1, <2>1 DEF Unique
  <2>2. CASE d = c /\ a # line
    BY <1>2, <2>2 DEF Unique
  <2>3. CASE d = c /\ a = line
    BY <1>3, <2>3
  <2>4. QED
    BY <2>1, <2>2, <2>3
<1>5. QED
  BY <1>4 DEF Unique

\* A way for a line that the cache does not have.
LEMMA WayForTyped ==
  ASSUME NEW s, NEW c \in Caches, NEW addr, NEW victim,
         victim[c][BlockOf(addr)] \in Ways(c)
  PROVE  WayFor(s, c, addr, victim) \in Ways(c)
<1>1. PICK invalid : invalid =
        {w \in Ways(c) : ~s.blocks[c][getLocation(c, addr).set][w].valid}
  OBVIOUS
<1>2. invalid # {} => Lowest(invalid) \in Ways(c)
  BY <1>1, LowestWay
<1>3. WayFor(s, c, addr, victim) =
        IF invalid # {} THEN Lowest(invalid) ELSE victim[c][BlockOf(addr)]
  BY <1>1 DEF WayFor
<1>4. QED
  BY <1>2, <1>3

\* Placed, for a line that the cache does not have.
LEMMA PlacedView ==
  ASSUME NEW s, Typed(s), Unique(s), NEW c \in Caches, NEW addr \in Addresses,
         BlockOf(addr) \in Held(c), NEW data \in [Offsets -> Values], NEW victim,
         victim[c][BlockOf(addr)] \in Ways(c), Holding(s, c, addr) = {},
         NEW r, r = Placed(s, c, addr, data, victim), r.abort = "none"
  PROVE  Replaced(s, c, BlockAddress(addr), data, r)
<1>1. PICK loc : loc = getLocation(c, addr)
  OBVIOUS
<1>2. /\ loc.set \in Sets(c) /\ loc.tag \in Nat
      /\ loc.tag * NumSets[c] + loc.set = BlockOf(addr)
  BY <1>1, Location
<1>3. PICK line \in Lines : line = BlockAddress(addr)
  BY LineOf
<1>4. getLocation(c, line).set = loc.set /\ getLocation(c, line).tag = loc.tag
  BY <1>1, <1>3, SamePlace
<1>5. Holding(s, c, line) = {}
  BY <1>3, HoldingBlock
<1>6. PICK way \in Ways(c) : way = WayFor(s, c, addr, victim)
  BY WayForTyped
<1>7. PICK w : w = writeBack(s, c, loc.set, way)
  OBVIOUS
<1>8. /\ Typed(w)
      /\ w.blocks = s.blocks /\ w.mshr = s.mshr /\ w.store = s.store /\ w.out = s.out
  BY <1>2, <1>7, WriteBackEffect
<1>9. PICK b : b = [valid |-> TRUE, dirty |-> FALSE, tag |-> loc.tag, data |-> data]
  OBVIOUS
<1>10. b \in BlockSet(c, loc.set) /\ b.valid /\ b.tag = loc.tag
       /\ ~b.dirty /\ b.data = data
  BY <1>2, <1>9 DEF BlockSet
<1>11. r = WithBlock(w, c, loc.set, way, b)
  BY <1>1, <1>6, <1>7, <1>9 DEF Placed, WithBlock
<1>12. /\ Typed(r)
       /\ r.queue = w.queue /\ r.mshr = w.mshr /\ r.store = w.store
       /\ r.abort = w.abort /\ r.out = w.out
       /\ \A d \in Caches \ {c} : r.blocks[d] = w.blocks[d]
       /\ \A e \in Sets(c) \ {loc.set} : r.blocks[c][e] = w.blocks[c][e]
       /\ \A x \in Ways(c) \ {way} : r.blocks[c][loc.set][x] = w.blocks[c][loc.set][x]
       /\ r.blocks[c][loc.set][way] = b
  BY <1>2, <1>8, <1>10, <1>11, BlockChange, SMTT(60)
<1>13. Swapped(s, c, loc.set, way, b, r)
  BY <1>8, <1>12 DEF Swapped
<1>14. SwappedIn(s, c, loc.set, way, b, line, r)
  BY <1>2, <1>4, <1>5, <1>10, <1>13, SwapIn
<1>15. \A d \in Caches \ {c} : r.blocks[d] = s.blocks[d]
  BY <1>8, <1>12
<1>16. Unique(r)
  BY <1>14, <1>15, SwapUnique
<1>17. PICK old : old = s.blocks[c][loc.set][way]
  OBVIOUS
<1>18. old \in BlockSet(c, loc.set)
  BY <1>2, <1>17 DEF Typed, BlocksTyped
<1>19. Copies(r, c, line) = {b}
  BY <1>14 DEF SwappedIn
<1>20. CASE ~old.valid
  <2>1. w = s
    BY <1>7, <1>17, <1>20 DEF writeBack
  <2>2. \A a \in Lines : getLocation(c, a).set = loc.set => way \notin Holding(s, c, a)
    BY <1>17, <1>20 DEF Holding
  <2>3. \A a \in Lines \ {line} : Copies(r, c, a) = Copies(s, c, a)
    BY <1>14, <2>2 DEF SwappedIn
  <2>4. QED
    BY <1>3, <1>8, <1>10, <1>12, <1>15, <1>16, <1>19, <2>1, <2>3 DEF Replaced
<1>21. CASE old.valid
  <2>1. PICK v : v = (old.tag * NumSets[c] + loc.set) * BlkSize
    OBVIOUS
  <2>2. old.tag * NumSets[c] + loc.set \in Blocks /\ old.tag \in Nat
    BY <1>18, <1>21, WordIsAddress DEF BlockSet, Held
  <2>3. v \in Lines /\ getLocation(c, v).set = loc.set /\ getLocation(c, v).tag = old.tag
    BY <1>2, <2>1, <2>2, LineAt
  <2>4. way \in Holding(s, c, v)
    BY <1>17, <1>21, <2>3 DEF Holding
  <2>5. v # line
    BY <1>5, <2>4
  <2>6. Holding(s, c, v) = {way}
    BY <2>3, <2>4 DEF Unique
  <2>7. Copies(s, c, v) = {old}
    BY <1>17, <2>3, <2>6 DEF Copies
  <2>8. Holding(r, c, v) = {}
    BY <1>14, <2>3, <2>4, <2>5, <2>6 DEF SwappedIn
  <2>9. Copies(r, c, v) = {}
    BY <2>8 DEF Copies
  <2>10. \A a \in Lines \ {line, v} : getLocation(c, a).set = loc.set => way \notin Holding(s, c, a)
    BY <2>3, <2>4, OneLine
  <2>11. \A a \in Lines \ {line, v} : Copies(r, c, a) = Copies(s, c, a)
    BY <1>14, <2>10 DEF SwappedIn
  <2>12. w.abort = "none"
    BY <1>12
  <2>13. SentBack(s, c, old, v, w)
    BY <1>2, <1>7, <1>17, <1>21, <2>1, <2>12, WriteBackView
  <2>14. s.abort = "none" /\ Sent(s, c, old, v, r)
    BY <1>12, <2>13 DEF SentBack, Sent
  <2>15. old.dirty => c # "L1I"
    BY <1>18 DEF BlockSet
  <2>16. QED
    BY <1>3, <1>8, <1>10, <1>12, <1>15, <1>16, <1>19, <2>3, <2>5, <2>7, <2>9, <2>11,
       <2>14, <2>15 DEF Replaced
<1>22. QED
  BY <1>20, <1>21

\* No read of a line is on its way to the level below a cache.
Unread(s, k, c, a) ==
  IF c = "L2" THEN \A kind \in {"fetch", "load"} : LiveAt(s.queue["Mem"], 0, kind, a) = {}
  ELSE /\ LiveAt(s.queue["L2"], k, "load", a) = {}
       /\ LiveAt(s.mshr["L2"][1].sub, 0, "load", a) = {}

\* What is sent is one write-back more of its line.
SentView(s, k, c, b, line, r) ==
  /\ \A a \in Lines :
       /\ ToL2(r, k, a) = ToL2(s, k, a)
            \cup (IF b.dirty /\ c # "L2" /\ a = line THEN {b.data} ELSE {})
       /\ ToMem(r, a) = ToMem(s, a)
            \cup (IF b.dirty /\ c = "L2" /\ a = line THEN {b.data} ELSE {})
  /\ InOrder2(s, k) => InOrder2(r, k)
  /\ InOrderMem(s) => InOrderMem(r)
  /\ r.queue["L1D"] = s.queue["L1D"]

\* It comes after no read of it.
LEMMA SentEffect ==
  ASSUME NEW s, Typed(s), NEW c \in Caches, NEW k, NEW b, b.dirty \in BOOLEAN,
         NEW line \in Lines, b.dirty => Unread(s, k, c, line), NEW r, Sent(s, c, b, line, r),
         r.mshr = s.mshr
  PROVE  SentView(s, k, c, b, line, r)
<1>1. CASE ~b.dirty
  <2>1. r.queue = s.queue
    BY <1>1 DEF Sent
  <2>2. QED
    BY <1>1, <2>1 DEF SentView, ToL2, ToMem, InOrder2, InOrderMem
<1>2. CASE b.dirty /\ c # "L2"
  <2>1. Next1(c) = "L2"
    BY <1>2 DEF Next1
  <2>2. PICK p \in PacketSet("L2") :
          /\ Is(p, "writeback", line) /\ p.data = b.data /\ ~Ready(p)
          /\ r.queue["L2"] = Append(s.queue["L2"], p)
          /\ \A d \in Levels \ {"L2"} : r.queue[d] = s.queue[d]
    BY <1>2, <2>1 DEF Sent
  <2>3. r.queue["Mem"] = s.queue["Mem"] /\ r.queue["L1D"] = s.queue["L1D"]
    BY <2>2 DEF Levels, Caches
  <2>4. s.queue["L2"] \in Seq(PacketSet("L2"))
    BY DEF Typed, QueuesTyped, Levels, Caches
  <2>5. \A a : Is(p, "writeback", a) <=> a = line
    BY <2>2 DEF Is
  <2>6. ASSUME NEW a \in Lines
        PROVE  /\ Backs(r.queue["L2"], k, a) = Backs(s.queue["L2"], k, a)
                    \cup (IF a = line THEN {b.data} ELSE {})
               /\ Ahead(s.queue["L2"], k, "load", a) => Ahead(r.queue["L2"], k, "load", a)
    <3>1. Is(p, "writeback", a) => LiveAt(s.queue["L2"], k, "load", a) = {}
      BY <1>2, <2>5 DEF Unread
    <3>2. LastJoins(s.queue["L2"], k, p, r.queue["L2"], a)
      BY <2>2, <2>4, LastKeeps
    <3>3. QED
      BY <2>2, <2>5, <3>1, <3>2 DEF LastJoins
  <2>7. \A a \in Lines : ToL2(r, k, a) = ToL2(s, k, a)
          \cup (IF a = line THEN {b.data} ELSE {})
    BY <2>6 DEF ToL2
  <2>8. InOrder2(s, k) => InOrder2(r, k)
    <3>1. LiveAt(s.mshr["L2"][1].sub, 0, "load", line) = {}
      BY <1>2 DEF Unread
    <3>2. QED
      BY <2>6, <3>1 DEF InOrder2
  <2>9. QED
    BY <1>2, <2>3, <2>7, <2>8 DEF SentView, ToMem, InOrderMem
<1>3. CASE b.dirty /\ c = "L2"
  <2>1. Next1(c) = "Mem"
    BY <1>3 DEF Next1
  <2>2. PICK p \in PacketSet("Mem") :
          /\ Is(p, "writeback", line) /\ p.data = b.data /\ ~Ready(p)
          /\ r.queue["Mem"] = Append(s.queue["Mem"], p)
          /\ \A d \in Levels \ {"Mem"} : r.queue[d] = s.queue[d]
    BY <1>3, <2>1 DEF Sent
  <2>3. r.queue["L2"] = s.queue["L2"] /\ r.queue["L1D"] = s.queue["L1D"]
    BY <2>2 DEF Levels, Caches
  <2>4. s.queue["Mem"] \in Seq(PacketSet("Mem"))
    BY DEF Typed, QueuesTyped, Levels, Caches
  <2>5. \A a : Is(p, "writeback", a) <=> a = line
    BY <2>2 DEF Is
  <2>6. ASSUME NEW a \in Lines
        PROVE  Backs(r.queue["Mem"], 0, a) = Backs(s.queue["Mem"], 0, a)
                 \cup (IF a = line THEN {b.data} ELSE {})
    <3>1. LastJoins(s.queue["Mem"], 0, p, r.queue["Mem"], a)
      BY <2>2, <2>4, LastKeeps
    <3>2. QED
      BY <2>2, <2>5, <3>1 DEF LastJoins
  <2>7. ASSUME NEW a \in Lines, NEW kind \in {"fetch", "load"},
               Ahead(s.queue["Mem"], 0, kind, a)
        PROVE  Ahead(r.queue["Mem"], 0, kind, a)
    <3>1. Is(p, "writeback", a) => LiveAt(s.queue["Mem"], 0, kind, a) = {}
      BY <1>3, <2>5 DEF Unread
    <3>2. LastJoins(s.queue["Mem"], 0, p, r.queue["Mem"], a)
      BY <2>2, <2>4, LastKeeps
    <3>3. QED
      BY <2>7, <3>1, <3>2 DEF LastJoins
  <2>8. QED
    BY <1>3, <2>3, <2>6, <2>7 DEF SentView, ToL2, ToMem, InOrder2, InOrderMem
<1>4. QED
  BY <1>1, <1>2, <1>3

\* The L1I's copies, of the image, may come and go.
LEMMA AgreeFetched ==
  ASSUME NEW i, NEW d, NEW back, NEW copies, NEW down, NEW stored, NEW image,
         Agree(i, d, back, copies, down, stored, image), NEW j, \A b \in j : b.data = image
  PROVE  Agree(j, d, back, copies, down, stored, image)
BY DEF Agree

\* The L1D is given its copy when nothing of it is on its way down.
LEMMA AgreeLoaded ==
  ASSUME NEW i, NEW copies, NEW down, NEW stored, NEW image,
         Agree(i, {}, {}, copies, down, stored, image), NEW b, b.data = image, ~b.dirty
  PROVE  Agree(i, {b}, {}, copies, down, stored, image)
BY DEF Agree, Behind

\* It loses it, or sends it to the L2.
LEMMA AgreeUnloaded ==
  ASSUME NEW i, NEW back, NEW copies, NEW down, NEW stored, NEW image, NEW b,
         Agree(i, {b}, back, copies, down, stored, image)
  PROVE  /\ ~b.dirty => Agree(i, {}, back, copies, down, stored, image)
         /\ b.dirty => Agree(i, {}, back \cup {b.data}, copies, down, stored, image)
<1>1. back = {} /\ b.data = image
  BY DEF Agree
<1>2. CASE ~b.dirty
  <2>1. ~Behind({b}, back) /\ ~Behind({}, back)
    BY <1>1, <1>2 DEF Behind
  <2>2. QED
    BY <1>1, <1>2, <2>1 DEF Agree
<1>3. CASE b.dirty
  <2>1. Behind({}, back \cup {b.data})
    BY DEF Behind
  <2>2. QED
    BY <1>1, <1>3, <2>1 DEF Agree
<1>4. QED
  BY <1>2, <1>3

\* The L2 is given what memory has when nothing of it is on its way there.
LEMMA AgreeFilled ==
  ASSUME NEW i, NEW d, NEW back, NEW stored, NEW image,
         Agree(i, d, back, {}, {}, stored, image), NEW b, b.data = stored, ~b.dirty
  PROVE  Agree(i, d, back, {b}, {}, stored, image)
BY DEF Agree

\* It loses it, or sends it to memory.
LEMMA AgreeEvicted ==
  ASSUME NEW i, NEW d, NEW back, NEW down, NEW stored, NEW image, NEW b,
         Agree(i, d, back, {b}, down, stored, image)
  PROVE  /\ ~b.dirty => Agree(i, d, back, {}, down, stored, image)
         /\ b.dirty => Agree(i, d, back, {}, down \cup {b.data}, stored, image)
BY DEF Agree

\* A line may be put in a cache: what it brings is the image's, and nothing that
\* would overwrite it is on its way down; nor is a read that a write-back of the
\* cache's might overtake.
Fits(s, k, c, line, data, image) ==
  /\ c # "L2" => data = Image(image, line)
  /\ c = "L1D" => ToL2(s, k, line) = {}
  /\ c = "L2" => data = Image(s.store, line) /\ ToMem(s, line) = {}
  /\ c # "L1I" => \A v \in Lines : Copies(s, c, v) # {} => Unread(s, k, c, v)

\* The line that comes in agrees.
LEMMA ComesAgreeing ==
  ASSUME NEW s, NEW k, NEW c \in Caches, NEW line, NEW data, NEW image,
         Fits(s, k, c, line, data, image), AgreeAt(s, k, line, Image(image, line)),
         Copies(s, c, line) = {}, NEW b, b.data = data, ~b.dirty,
         NEW r, Copies(r, c, line) = {b}, r.store = s.store,
         \A d \in Caches \ {c} : Copies(r, d, line) = Copies(s, d, line),
         ToL2(r, k, line) = ToL2(s, k, line), ToMem(r, line) = ToMem(s, line)
  PROVE  AgreeAt(r, k, line, Image(image, line))
<1>1. Agree(Copies(s, "L1I", line), Copies(s, "L1D", line), ToL2(s, k, line),
            Copies(s, "L2", line), ToMem(s, line), Image(s.store, line), Image(image, line))
  BY DEF AgreeAt
<1>2. CASE c = "L1I"
  <2>1. \A x \in {b} : x.data = Image(image, line)
    BY <1>2 DEF Fits
  <2>2. Agree({b}, Copies(s, "L1D", line), ToL2(s, k, line),
              Copies(s, "L2", line), ToMem(s, line), Image(s.store, line), Image(image, line))
    BY <1>1, <2>1, AgreeFetched
  <2>3. /\ Copies(r, "L1I", line) = {b} /\ Copies(r, "L1D", line) = Copies(s, "L1D", line)
        /\ Copies(r, "L2", line) = Copies(s, "L2", line)
    BY <1>2 DEF Caches
  <2>4. QED
    BY <2>2, <2>3 DEF AgreeAt
<1>3. CASE c = "L1D"
  <2>1. b.data = Image(image, line) /\ ToL2(s, k, line) = {} /\ Copies(s, "L1D", line) = {}
    BY <1>3 DEF Fits
  <2>2. Agree(Copies(s, "L1I", line), {b}, {},
              Copies(s, "L2", line), ToMem(s, line), Image(s.store, line), Image(image, line))
    BY <1>1, <2>1, AgreeLoaded
  <2>3. /\ Copies(r, "L1D", line) = {b} /\ Copies(r, "L1I", line) = Copies(s, "L1I", line)
        /\ Copies(r, "L2", line) = Copies(s, "L2", line)
    BY <1>3 DEF Caches
  <2>4. QED
    BY <2>1, <2>2, <2>3 DEF AgreeAt
<1>4. CASE c = "L2"
  <2>1. b.data = Image(s.store, line) /\ ToMem(s, line) = {} /\ Copies(s, "L2", line) = {}
    BY <1>4 DEF Fits
  <2>2. Agree(Copies(s, "L1I", line), Copies(s, "L1D", line), ToL2(s, k, line),
              {b}, {}, Image(s.store, line), Image(image, line))
    BY <1>1, <2>1, AgreeFilled
  <2>3. /\ Copies(r, "L1D", line) = Copies(s, "L1D", line)
        /\ Copies(r, "L1I", line) = Copies(s, "L1I", line) /\ Copies(r, "L2", line) = {b}
    BY <1>4 DEF Caches
  <2>4. QED
    BY <2>1, <2>2, <2>3 DEF AgreeAt
<1>5. QED
  BY <1>2, <1>3, <1>4 DEF Caches

\* So does the one that leaves.
LEMMA LeavesAgreeing ==
  ASSUME NEW s, NEW k, NEW c \in Caches, NEW line \in Lines, NEW image,
         AgreeAt(s, k, line, image),
         NEW b, b.dirty \in BOOLEAN, b.dirty => c # "L1I", Copies(s, c, line) = {b},
         NEW r, Copies(r, c, line) = {}, r.store = s.store,
         \A d \in Caches \ {c} : Copies(r, d, line) = Copies(s, d, line),
         SentView(s, k, c, b, line, r)
  PROVE  AgreeAt(r, k, line, image)
<1>1. Agree(Copies(s, "L1I", line), Copies(s, "L1D", line), ToL2(s, k, line),
            Copies(s, "L2", line), ToMem(s, line), Image(s.store, line), image)
  BY DEF AgreeAt
<1>2. /\ ToL2(r, k, line) = ToL2(s, k, line)
           \cup (IF b.dirty /\ c # "L2" THEN {b.data} ELSE {})
      /\ ToMem(r, line) = ToMem(s, line)
           \cup (IF b.dirty /\ c = "L2" THEN {b.data} ELSE {})
  BY DEF SentView
<1>3. CASE c = "L1I"
  <2>1. ToL2(r, k, line) = ToL2(s, k, line) /\ ToMem(r, line) = ToMem(s, line)
    BY <1>2, <1>3
  <2>2. Agree({}, Copies(s, "L1D", line), ToL2(s, k, line),
              Copies(s, "L2", line), ToMem(s, line), Image(s.store, line), image)
    BY <1>1, AgreeFetched
  <2>3. /\ Copies(r, "L1I", line) = {} /\ Copies(r, "L1D", line) = Copies(s, "L1D", line)
        /\ Copies(r, "L2", line) = Copies(s, "L2", line)
    BY <1>3 DEF Caches
  <2>4. QED
    BY <2>1, <2>2, <2>3 DEF AgreeAt
<1>4. CASE c = "L1D"
  <2>1. Copies(s, "L1D", line) = {b} /\ ToMem(r, line) = ToMem(s, line)
    BY <1>2, <1>4
  <2>2. Agree(Copies(s, "L1I", line), {b}, ToL2(s, k, line),
              Copies(s, "L2", line), ToMem(s, line), Image(s.store, line), image)
    BY <1>1, <2>1
  <2>3. ToL2(r, k, line) =
          IF b.dirty THEN ToL2(s, k, line) \cup {b.data} ELSE ToL2(s, k, line)
    BY <1>2, <1>4
  <2>4. Agree(Copies(s, "L1I", line), {}, ToL2(r, k, line),
              Copies(s, "L2", line), ToMem(s, line), Image(s.store, line), image)
    BY <2>2, <2>3, AgreeUnloaded
  <2>5. /\ Copies(r, "L1D", line) = {} /\ Copies(r, "L1I", line) = Copies(s, "L1I", line)
        /\ Copies(r, "L2", line) = Copies(s, "L2", line)
    BY <1>4 DEF Caches
  <2>6. QED
    BY <2>1, <2>4, <2>5 DEF AgreeAt
<1>5. CASE c = "L2"
  <2>1. Copies(s, "L2", line) = {b} /\ ToL2(r, k, line) = ToL2(s, k, line)
    BY <1>2, <1>5
  <2>2. Agree(Copies(s, "L1I", line), Copies(s, "L1D", line), ToL2(s, k, line),
              {b}, ToMem(s, line), Image(s.store, line), image)
    BY <1>1, <2>1
  <2>3. ToMem(r, line) = IF b.dirty THEN ToMem(s, line) \cup {b.data} ELSE ToMem(s, line)
    BY <1>2, <1>5
  <2>4. Agree(Copies(s, "L1I", line), Copies(s, "L1D", line), ToL2(s, k, line),
              {}, ToMem(r, line), Image(s.store, line), image)
    BY <2>2, <2>3, AgreeEvicted
  <2>5. /\ Copies(r, "L1D", line) = Copies(s, "L1D", line)
        /\ Copies(r, "L1I", line) = Copies(s, "L1I", line) /\ Copies(r, "L2", line) = {}
    BY <1>5 DEF Caches
  <2>6. QED
    BY <2>1, <2>4, <2>5 DEF AgreeAt
<1>6. QED
  BY <1>3, <1>4, <1>5 DEF Caches

\* What a cache's queues have once a line has left it, if one has.
RoomMade(s, k, r) ==
  /\ InOrder2(s, k) => InOrder2(r, k)
  /\ InOrderMem(s) => InOrderMem(r)
  /\ r.queue["L1D"] = s.queue["L1D"]

\* A line comes into a cache.
LEMMA ReplacedRight ==
  ASSUME NEW s, Typed(s), NEW c \in Caches, NEW line \in Lines, Copies(s, c, line) = {},
         NEW k, NEW m, NEW req, Right(s, k, m, req), NEW data,
         Fits(s, k, c, line, data, After(m, s.out, req)),
         NEW r, Replaced(s, c, line, data, r)
  PROVE  Right(r, k, m, req)
<1>1. PICK image : image = After(m, s.out, req)
  OBVIOUS
<1>2. /\ Covered(s, k, image) /\ Shaped(s, k)
      /\ Answered(m, s.out, req) /\ Owned(s, req)
  BY <1>1 DEF Right, Coherent, Replaced
<1>3. /\ Unique(r) /\ r.mshr = s.mshr /\ r.store = s.store /\ r.out = s.out
      /\ \A d \in Caches \ {c} : r.blocks[d] = s.blocks[d]
  BY DEF Replaced
<1>4. \A d \in Caches \ {c} : \A a : Copies(r, d, a) = Copies(s, d, a)
  BY <1>3, OthersSame
<1>5. PICK b : b.data = data /\ ~b.dirty /\ Copies(r, c, line) = {b}
  BY DEF Replaced
<1>6. AgreeAt(s, k, line, Image(image, line))
  BY <1>2 DEF Covered
<1>7. RoomMade(s, k, r) /\ \A a \in Lines : AgreeAt(r, k, a, Image(image, a))
  <2>1. CASE /\ r.queue = s.queue
             /\ \A a \in Lines \ {line} : Copies(r, c, a) = Copies(s, c, a)
    <3>1. RoomMade(s, k, r)
      BY <1>3, <2>1 DEF RoomMade, InOrder2, InOrderMem
    <3>2. \A a : ToL2(r, k, a) = ToL2(s, k, a) /\ ToMem(r, a) = ToMem(s, a)
      BY <1>3, <2>1 DEF ToL2, ToMem
    <3>3. AgreeAt(r, k, line, Image(image, line))
      BY <1>1, <1>3, <1>4, <1>5, <1>6, <3>2, ComesAgreeing
    <3>4. ASSUME NEW a \in Lines, a # line
          PROVE  AgreeAt(r, k, a, Image(image, a))
      <4>1. SameAt(s, k, r, k, a)
        BY <1>3, <1>4, <2>1, <3>2, <3>4 DEF SameAt
      <4>2. AgreeAt(s, k, a, Image(image, a))
        BY <1>2 DEF Covered
      <4>3. QED
        BY <4>1, <4>2, AgreeSame
    <3>5. QED
      BY <3>1, <3>3, <3>4
  <2>2. ASSUME NEW v \in Lines \ {line}, NEW old,
               Copies(s, c, v) = {old}, Copies(r, c, v) = {}, Sent(s, c, old, v, r),
               old.dirty => c # "L1I",
               \A a \in Lines \ {line, v} : Copies(r, c, a) = Copies(s, c, a)
        PROVE  RoomMade(s, k, r) /\ \A a \in Lines : AgreeAt(r, k, a, Image(image, a))
    <3>1. old.dirty \in BOOLEAN
      BY <2>2, CopyTyped
    <3>2. old.dirty => Unread(s, k, c, v)
      BY <2>2 DEF Fits
    <3>3. SentView(s, k, c, old, v, r)
      BY <1>3, <2>2, <3>1, <3>2, SentEffect
    <3>4. RoomMade(s, k, r)
      BY <3>3 DEF SentView, RoomMade
    <3>5. \A a \in Lines \ {v} : ToL2(r, k, a) = ToL2(s, k, a) /\ ToMem(r, a) = ToMem(s, a)
      BY <3>3 DEF SentView
    <3>6. AgreeAt(r, k, line, Image(image, line))
      BY <1>1, <1>3, <1>4, <1>5, <1>6, <3>5, ComesAgreeing
    <3>7. AgreeAt(r, k, v, Image(image, v))
      <4>1. AgreeAt(s, k, v, Image(image, v))
        BY <1>2 DEF Covered
      <4>2. QED
        BY <1>3, <1>4, <2>2, <3>1, <3>3, <4>1, LeavesAgreeing
    <3>8. ASSUME NEW a \in Lines, a # line, a # v
          PROVE  AgreeAt(r, k, a, Image(image, a))
      <4>1. SameAt(s, k, r, k, a)
        BY <1>3, <1>4, <2>2, <3>5, <3>8 DEF SameAt
      <4>2. AgreeAt(s, k, a, Image(image, a))
        BY <1>2 DEF Covered
      <4>3. QED
        BY <4>1, <4>2, AgreeSame
    <3>9. QED
      BY <3>4, <3>6, <3>7, <3>8
  <2>3. QED
    BY <2>1, <2>2 DEF Replaced
<1>8. Shaped(r, k) /\ Owned(r, req)
  <2>1. InOrder2(r, k) /\ InOrderMem(r)
    BY <1>2, <1>7 DEF RoomMade, Shaped
  <2>2. Matched(r)
    BY <1>2, <1>3 DEF Matched, Shaped
  <2>3. Owned(r, req)
    BY <1>2, <1>3, <1>7 DEF Owned, RoomMade
  <2>4. QED
    BY <1>3, <2>1, <2>2, <2>3 DEF Shaped
<1>9. Covered(r, k, image)
  BY <1>7 DEF Covered
<1>10. QED
  BY <1>1, <1>2, <1>3, <1>8, <1>9 DEF Right, Coherent

\* recvResp puts the block in a cache that does not have it.
LEMMA PlacedRight ==
  ASSUME NEW s, Typed(s), NEW c \in Caches, NEW addr \in Addresses,
         BlockOf(addr) \in Held(c), NEW data \in [Offsets -> Values], NEW victim,
         victim[c][BlockOf(addr)] \in Ways(c), Holding(s, c, addr) = {},
         NEW k, NEW m, NEW req, Right(s, k, m, req),
         s.abort = "none" =>
           Fits(s, k, c, BlockAddress(addr), data, After(m, s.out, req)),
         NEW r, r = Placed(s, c, addr, data, victim)
  PROVE  Right(r, k, m, req)
<1>1. May(s, r, Losses)
  BY PlacedEffect
<1>2. CASE r.abort # "none"
  BY <1>2 DEF Right
<1>3. CASE r.abort = "none"
  <2>1. s.abort = "none"
    BY <1>1, <1>3 DEF May
  <2>2. Unique(s)
    BY <2>1 DEF Right, Coherent, Shaped
  <2>3. PICK line \in Lines : line = BlockAddress(addr)
    BY LineOf
  <2>4. Copies(s, c, line) = {}
    <3>1. Holding(s, c, line) = {}
      BY <2>3, HoldingBlock
    <3>2. QED
      BY <3>1 DEF Copies
  <2>5. Replaced(s, c, line, data, r)
    BY <1>3, <2>2, <2>3, PlacedView
  <2>6. Fits(s, k, c, line, data, After(m, s.out, req))
    BY <2>1, <2>3
  <2>7. QED
    BY <2>4, <2>5, <2>6, ReplacedRight
<1>4. QED
  BY <1>2, <1>3

\* The first entry of a cache, released.
Released(s, c) == [s EXCEPT !.mshr[c][1].address = 0]

\* It is the entry that was, if nothing waits in it.
LEMMA ReleaseRight ==
  ASSUME NEW s, Typed(s), NEW c \in Caches, s.mshr[c][1].sub = <<>>,
         NEW k, NEW m, NEW req, Right(s, k, m, req),
         NEW r, r = Released(s, c)
  PROVE  Right(r, k, m, req)
<1>1. 1 \in 1 .. MshrEntries[c] /\ s.mshr[c][1] \in EntrySet(c)
  <2>1. 1 \in 1 .. MshrEntries[c]
    BY Geometry
  <2>2. QED
    BY <2>1 DEF Typed, MshrTyped
<1>2. PICK e : e = [s.mshr[c][1] EXCEPT !.address = 0]
  OBVIOUS
<1>3. e \in EntrySet(c) /\ e.sub = <<>>
  BY <1>1, <1>2 DEF EntrySet
<1>4. r = WithEntry(s, c, 1, e)
  BY <1>2 DEF WithEntry, Released
<1>5. /\ r.queue = s.queue /\ r.blocks = s.blocks /\ r.store = s.store
      /\ r.abort = s.abort /\ r.out = s.out
      /\ \A d \in Caches \ {c} : r.mshr[d] = s.mshr[d]
      /\ r.mshr[c][1] = e
  BY <1>1, <1>3, <1>4, EntryChange
<1>6. ASSUME r.abort = "none"
      PROVE  Arranged(s, k, r, k, req)
  <2>1. InOrder2(s, k) /\ InOrderMem(s) /\ Matched(s) /\ Owned(s, req)
    BY <1>5, <1>6 DEF Right, Coherent, Shaped
  <2>2. \A d \in Caches : r.mshr[d][1].sub = s.mshr[d][1].sub
    BY <1>3, <1>5
  <2>3. "L2" \in Caches /\ "L1D" \in Caches
    BY DEF Caches
  <2>4. \A a \in Lines : ToL2(r, k, a) = ToL2(s, k, a) /\ ToMem(r, a) = ToMem(s, a)
    BY <1>5, <2>2, <2>3 DEF ToL2, ToMem
  <2>5. InOrder2(r, k) /\ InOrderMem(r) /\ Owned(r, req)
    BY <1>5, <2>1, <2>2, <2>3 DEF InOrder2, InOrderMem, Owned
  <2>6. Matched(r)
    <3>1. Len(<<>>) = 0
      OBVIOUS
    <3>2. \A i \in 1 .. Len(r.mshr[c][1].sub) : FALSE
      BY <1>3, <1>5, <3>1
    <3>3. QED
      BY <1>5, <2>1, <3>2, ZenonT(60) DEF Matched
  <2>7. QED
    BY <2>4, <2>5, <2>6 DEF Arranged
<1>7. QED
  BY <1>5, <1>6, ArrangedRight

\* A level 1 cache may be answered: it does not have the line, its entry is for it
\* and the line may be put in it.
Fillable(s, k, c, line, data, image) ==
  /\ Holding(s, c, line) = {} /\ Fits(s, k, c, line, data, image)
  /\ s.mshr[c][1].sub # <<>> => s.mshr[c][1].address = line

\* recvResp of a level 1 cache.
LEMMA FillL1Right ==
  ASSUME NEW s, Typed(s), NEW c \in {"L1I", "L1D"}, NEW addr \in Addresses,
         BlockOf(addr) \in Held(c), NEW data \in [Offsets -> Values],
         NEW victim, Evicts(victim),
         NEW k, NEW m \in [Addresses -> Values], NEW req, Right(s, k, m, req),
         s.abort = "none" =>
           Fillable(s, k, c, BlockAddress(addr), data, After(m, s.out, req)),
         NEW r, r = FillL1(s, c, addr, data, victim)
  PROVE  Right(r, k, m, req)
<1>1. c \in Caches /\ Next1(c) = "L2" /\ BlockOf(addr) \in Blocks
  BY AddressParts DEF Caches, Next1
<1>2. PICK x : x = Placed(s, c, addr, data, victim)
  OBVIOUS
<1>3. victim[c][BlockOf(addr)] \in Ways(c)
  BY <1>1 DEF Evicts
<1>4. L1Filled(s, c, r)
  BY FillL1Effect
<1>5. CASE s.abort # "none" \/ s.mshr[c][1].sub = <<>>
  <2>1. r.abort # "none"
    BY <1>4, <1>5 DEF L1Filled, May
  <2>2. QED
    BY <2>1 DEF Right
<1>6. CASE s.abort = "none" /\ s.mshr[c][1].sub # <<>>
  <2>1. /\ Holding(s, c, BlockAddress(addr)) = {}
        /\ Fits(s, k, c, BlockAddress(addr), data, After(m, s.out, req))
        /\ s.mshr[c][1].address = BlockAddress(addr)
    BY <1>6 DEF Fillable
  <2>2. Holding(s, c, addr) = {}
    BY <2>1, HoldingBlock
  <2>3. Right(x, k, m, req)
    BY <1>1, <1>2, <1>3, <2>1, <2>2, PlacedRight
  <2>4. Typed(x) /\ x.mshr = s.mshr /\ Holding(x, c, addr) # {}
    BY <1>1, <1>2, <1>3, PlacedEffect
  <2>5. PICK subs : subs = s.mshr[c][1].sub
    OBVIOUS
  <2>6. PICK y : y = AllServedL1(x, c, addr, subs)
    OBVIOUS
  <2>7. subs = x.mshr[c][1].sub /\ x.mshr[c][1].address = BlockAddress(addr)
    BY <2>1, <2>4, <2>5
  <2>8. Right(y, k, m, req)
    BY <2>3, <2>4, <2>6, <2>7, ServedL1Right, SMTT(60)
  <2>9. Typed(y) /\ y.mshr[c][1].sub = <<>>
    BY <2>4, <2>6, <2>7, ServedL1Effect DEF ServedAll
  <2>10. r = IF subs = <<>> THEN Fails(x, "noentry")
             ELSE [y EXCEPT !.mshr[c][1].address = 0]
    BY <1>2, <2>5, <2>6, Zenon DEF FillL1, AllServedL1
  <2>11. r = Released(y, c)
    BY <1>6, <2>5, <2>10 DEF Released
  <2>12. QED
    BY <1>1, <2>8, <2>9, <2>11, ReleaseRight
<1>7. QED
  BY <1>5, <1>6

================================================================================
