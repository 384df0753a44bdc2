----------------------------- MODULE MemCoherence ------------------------------
(***************************************************************************)
(* Until two misses of a cache's overlap, the hierarchy behaves as one     *)
(* memory: the copies of a block, wherever they are, agree with one image  *)
(* of memory, which only a store that is answered changes.  The steps of   *)
(* the levels' Ticks, one packet each, come first, then the Ticks and the  *)
(* theorem.                                                                *)
(***************************************************************************)
EXTENDS MemCopies

-------------------------------------------------------------------------------
(* An answer to the L2.                                                      *)

\* A read of a level 1 cache's that is in the L2 is for the line it awaits, which
\* it does not have.
LEMMA ReadAwaited ==
  ASSUME NEW s, Typed(s), NEW k, HalfExact(s, k), NEW c \in {"L1I", "L1D"},
         NEW a \in Lines,
         \/ LiveAt(s.queue["L2"], k, KindOf(c), a) # {}
         \/ LiveAt(s.mshr["L2"][1].sub, 0, KindOf(c), a) # {}
  PROVE  Awaits(s, c, a) /\ Holding(s, c, a) = {} /\ Copies(s, c, a) = {}
<1>1. "L2" \in Caches /\ "L2" \in Levels /\ a \in Addresses
  BY LineFacts DEF Caches, Levels
<1>2. 1 \in 1 .. MshrEntries["L2"]
  BY <1>1, Geometry
<1>3. /\ Live(s.queue["L2"], k, KindOf(c), a) \in Nat
      /\ WaitNum(s, "L2", KindOf(c), a) \in Nat
  BY <1>1, InL2Type
<1>4. LiveAt(s.queue["L2"], k, KindOf(c), a) # {} =>
        Live(s.queue["L2"], k, KindOf(c), a) # 0
  <2>1. s.queue["L2"] \in Seq(PacketSet("L2"))
    BY <1>1 DEF Typed, QueuesTyped
  <2>2. IsFiniteSet(LiveAt(s.queue["L2"], k, KindOf(c), a))
    BY <2>1, LiveType
  <2>3. QED
    BY <2>2, FS_EmptySet DEF Live
<1>5. LiveAt(s.mshr["L2"][1].sub, 0, KindOf(c), a) # {} =>
        WaitNum(s, "L2", KindOf(c), a) # 0
  <2>1. ASSUME NEW i \in LiveAt(s.mshr["L2"][1].sub, 0, KindOf(c), a)
        PROVE  Waiting(s, "L2", KindOf(c), a) # {}
    <3>1. /\ i \in 1 .. Len(s.mshr["L2"][1].sub)
          /\ Is(s.mshr["L2"][1].sub[i], KindOf(c), a)
      BY DEF LiveAt
    <3>2. Len(s.mshr["L2"][1].sub) \in Nat
      BY <1>1, <1>2, SubTyped
    <3>3. i \in Nat \ {0} /\ i <= Len(s.mshr["L2"][1].sub)
      BY <3>1, <3>2
    <3>4. <<1, i>> \in Waiting(s, "L2", KindOf(c), a)
      BY <1>1, <1>2, <3>1, <3>3, WaitsAt
    <3>5. QED
      BY <3>4
  <2>2. IsFiniteSet(Waiting(s, "L2", KindOf(c), a))
    BY <1>1, WaitType
  <2>3. QED
    BY <2>1, <2>2, FS_EmptySet DEF WaitNum
<1>6. InL2(s, k, c, a) # 0
  BY <1>3, <1>4, <1>5 DEF InL2
<1>7. InL2(s, k, c, a) = OneIf(Awaits(s, c, a))
  BY <1>1 DEF HalfExact, Exact1
<1>8. Awaits(s, c, a)
  BY <1>6, <1>7 DEF OneIf
<1>9. Holding(s, c, a) = {}
  BY <1>1, <1>8 DEF HalfExact, Absent
<1>10. QED
  BY <1>8, <1>9 DEF Copies

\* A line of text is not written.
LEMMA TextUnwritten ==
  ASSUME NEW s, Typed(s), NEW k, NEW a \in Lines, BlockOf(a) \notin DataBlocks
  PROVE  Copies(s, "L1D", a) = {} /\ ToL2(s, k, a) = {}
<1>1. "L2" \in Caches /\ "L2" \in Levels /\ "L1D" \in Caches
  BY DEF Caches, Levels
<1>2. Copies(s, "L1D", a) = {}
  <2>1. BlockOf(a) \notin Held("L1D")
    BY DEF Held
  <2>2. QED
    BY <1>1, <2>1, CopyTyped
<1>3. ASSUME NEW q \in Seq(PacketSet("L2")), NEW j
      PROVE  LiveAt(q, j, "writeback", a) = {}
  <2>1. SUFFICES ASSUME NEW i \in LiveAt(q, j, "writeback", a)
                 PROVE  FALSE
    OBVIOUS
  <2>2. PICK p \in PacketSet("L2") : p = q[i]
    BY DEF LiveAt
  <2>3. p.type = "writeback" /\ p.addr = a
    BY <2>2 DEF LiveAt, Is
  <2>4. p.addr \in Starts(DataBlocks)
    BY <2>3 DEF PacketSet, Reads, WriteBacksOf
  <2>5. PICK b \in DataBlocks : a = b * BlkSize
    BY <2>3, <2>4 DEF Starts
  <2>6. b \in Blocks
    BY WordIsAddress
  <2>7. BlockOf(a) = b
    BY <2>5, <2>6, BlockAddresses
  <2>8. QED
    BY <2>7
<1>4. s.queue["L2"] \in Seq(PacketSet("L2")) /\ s.mshr["L2"][1].sub \in Seq(PacketSet("L2"))
  <2>1. 1 \in 1 .. MshrEntries["L2"]
    BY <1>1, Geometry
  <2>2. QED
    BY <1>1, <2>1, SubTyped DEF Typed, QueuesTyped
<1>5. QED
  BY <1>2, <1>3, <1>4 DEF ToL2, Backs

\* A level 1 cache's read may be answered with the L2's copy of its line.
LEMMA ReadFillable ==
  ASSUME NEW s, Typed(s), NEW k, HalfExact(s, k), NEW image, Covered(s, k, image),
         NEW p \in PacketSet("L2"), ~IsWrite(p), NEW c, c = PrevOf(p),
         NEW line, line = p.addr, Awaits(s, c, line),
         NEW b, b \in Copies(s, "L2", line), c = "L1D" => ToL2(s, k, line) = {}
  PROVE  Fillable(s, k, c, line, b.data, image)
<1>1. "L2" \in Levels /\ "L2" \in Caches
  BY DEF Caches, Levels
<1>2. c \in {"L1I", "L1D"} /\ BlockOf(line) \in Held(c) /\ line \in Addresses
      /\ BlockAddress(line) = line
  BY <1>1, PacketFacts
<1>3. line \in Lines
  BY <1>2, LineOf
<1>4. Holding(s, c, line) = {}
  BY <1>2 DEF HalfExact, Absent
<1>5. Copies(s, "L1D", line) = {} /\ ToL2(s, k, line) = {}
  <2>1. CASE c = "L1D"
    <3>1. Copies(s, "L1D", line) = {}
      BY <1>4, <2>1 DEF Copies
    <3>2. QED
      BY <2>1, <3>1
  <2>2. CASE c = "L1I"
    <3>1. BlockOf(line) \notin DataBlocks
      BY <1>2, <2>2, WordIsAddress DEF Held
    <3>2. QED
      BY <1>3, <3>1, TextUnwritten
  <2>3. QED
    BY <1>2, <2>1, <2>2
<1>6. b.data = Image(image, line)
  BY <1>3, <1>5 DEF Covered, AgreeAt, Agree, Behind
<1>7. ASSUME c # "L1I", NEW v \in Lines, Copies(s, c, v) # {}
      PROVE  Unread(s, k, c, v)
  <2>1. c = "L1D" /\ c # "L2" /\ KindOf(c) = "load"
    BY <1>2, <1>7 DEF KindOf
  <2>2. /\ LiveAt(s.queue["L2"], k, "load", v) = {}
        /\ LiveAt(s.mshr["L2"][1].sub, 0, "load", v) = {}
    BY <1>7, <2>1, ReadAwaited
  <2>3. QED
    BY <2>1, <2>2 DEF Unread
<1>8. Fits(s, k, c, line, b.data, image)
  BY <1>2, <1>5, <1>6, <1>7 DEF Fits
<1>9. QED
  BY <1>4, <1>8 DEF Fillable, Awaits

\* Only the image's copies are looked at by a read.
AsBefore(s, c, addr, r) ==
  /\ Typed(r) /\ r.queue = s.queue /\ r.mshr = s.mshr /\ r.store = s.store
  /\ r.abort = s.abort /\ r.out = s.out
  /\ \A d \in Caches : \A a \in Lines : Copies(r, d, a) = Copies(s, d, a)
  /\ \A d \in Caches : \A a \in Addresses : Holding(r, d, a) = Holding(s, d, a)
  /\ \A d \in Caches \ {c} : r.blocks[d] = s.blocks[d]
  /\ Copies(s, c, BlockAddress(addr)) = {BlockAt(r, c, addr)}

\* A read is applied to a block.
LEMMA ReadApplied ==
  ASSUME NEW s, Typed(s), Unique(s), NEW c \in Caches, NEW addr \in Addresses,
         Holding(s, c, addr) # {}, NEW d \in Levels, NEW p \in PacketSet(d), ~IsWrite(p),
         NEW r, r = Apply(s, c, addr, p)
  PROVE  AsBefore(s, c, addr, r)
<1>1. /\ Typed(r) /\ r.queue = s.queue /\ r.mshr = s.mshr /\ r.store = s.store
      /\ r.abort = s.abort /\ r.out = s.out
      /\ \A e \in Caches \ {c} : r.blocks[e] = s.blocks[e]
      /\ \A a \in Addresses : Holding(r, c, a) = Holding(s, c, a)
  BY ApplyEffect
<1>2. Rewritten(s, c, addr, BlockAt(s, c, addr), r)
  <2>1. Applied(p, BlockAt(s, c, addr)) = BlockAt(s, c, addr)
    BY DEF Applied
  <2>2. QED
    BY <2>1, ApplyCopies
<1>3. Copies(s, c, BlockAddress(addr)) = {BlockAt(s, c, addr)}
  BY OneCopy
<1>4. /\ \A a \in Lines : Copies(r, c, a) = Copies(s, c, a)
      /\ BlockAt(r, c, addr) = BlockAt(s, c, addr)
  BY <1>2, <1>3 DEF Rewritten
<1>5. ASSUME NEW e \in Caches \ {c}
      PROVE  \A a : Copies(r, e, a) = Copies(s, e, a) /\ Holding(r, e, a) = Holding(s, e, a)
  <2>1. r.blocks[e] = s.blocks[e]
    BY <1>1, Zenon
  <2>2. QED
    BY <2>1, CopiesSame, SMTT(60)
<1>6. QED
  BY <1>1, <1>3, <1>4, <1>5 DEF AsBefore

\* It changes nothing that the image depends on.
LEMMA AsBeforeRight ==
  ASSUME NEW s, NEW c, NEW addr, NEW r, AsBefore(s, c, addr, r),
         NEW k, NEW m, NEW req, Right(s, k, m, req)
  PROVE  Right(r, k, m, req)
<1>1. CASE r.abort # "none"
  BY <1>1 DEF Right
<1>2. CASE r.abort = "none"
  <2>1. /\ r.queue = s.queue /\ r.mshr = s.mshr /\ r.store = s.store
        /\ r.abort = s.abort /\ r.out = s.out
        /\ \A d \in Caches : \A a \in Lines : Copies(r, d, a) = Copies(s, d, a)
        /\ \A d \in Caches : \A a \in Addresses : Holding(r, d, a) = Holding(s, d, a)
    BY DEF AsBefore
  <2>2. /\ Covered(s, k, After(m, s.out, req)) /\ Shaped(s, k)
        /\ Answered(m, s.out, req) /\ Owned(s, req)
    BY <1>2, <2>1 DEF Right, Coherent
  <2>3. Shaped(r, k)
    BY <2>1, <2>2, ShapedSame
  <2>4. ASSUME NEW a \in Lines
        PROVE  AgreeAt(r, k, a, Image(After(m, s.out, req), a))
    <3>1. SameAt(s, k, r, k, a)
      BY <2>1 DEF SameAt, ToL2, ToMem
    <3>2. QED
      BY <2>2, <3>1, AgreeSame DEF Covered
  <2>5. Covered(r, k, After(m, r.out, req))
    BY <2>1, <2>4 DEF Covered
  <2>6. Owned(r, req)
    BY <2>1, <2>2 DEF Owned
  <2>7. QED
    BY <2>1, <2>2, <2>3, <2>5, <2>6 DEF Right, Coherent
<1>3. QED
  BY <1>1, <1>2

\* recvResp serves a packet that waits in the L2.
LEMMA ServeL2Right ==
  ASSUME NEW s, Typed(s), HalfSound(s), s.mshr["L2"][1].sub # <<>>,
         NEW p \in PacketSet("L2"), p = Head(s.mshr["L2"][1].sub),
         NEW addr \in Addresses, Holding(s, "L2", addr) # {},
         s.mshr["L2"][1].address = BlockAddress(addr),
         NEW victim, Evicts(victim),
         NEW m \in [Addresses -> Values], NEW req, Right(s, 0, m, req),
         NEW r, r = ServeL2(s, addr, p, victim)
  PROVE  Right(r, 0, m, req)
<1>1. "L2" \in Caches /\ "L2" \in Levels /\ 1 \in 1 .. MshrEntries["L2"]
  BY Geometry DEF Caches, Levels
<1>2. L2Served(s, p, r)
  BY ServeL2Effect
<1>3. CASE s.abort # "none" \/ IsWrite(p)
  <2>1. r.abort # "none"
    BY <1>2, <1>3 DEF L2Served, May
  <2>2. QED
    BY <2>1 DEF Right
<1>4. CASE s.abort = "none" /\ ~IsWrite(p)
  <2>1. PICK sub \in Seq(PacketSet("L2")) : sub = s.mshr["L2"][1].sub
    <3>1. s.mshr["L2"][1].sub \in Seq(PacketSet("L2"))
      BY <1>1, SubTyped
    <3>2. QED
      BY <3>1
  <2>2. 1 \in 1 .. Len(sub) /\ sub[1] = p /\ Len(sub) \in Nat
    BY <2>1
  <2>3. PICK c \in {"L1I", "L1D"} : c = PrevOf(p)
    BY <1>4, ReadFrom
  <2>4. PICK line \in Lines : line = p.addr
    <3>1. BlockAddress(p.addr) = p.addr /\ p.addr \in Addresses
      BY <1>1, PacketFacts
    <3>2. QED
      BY <3>1, LineOf
  <2>5. BlockAddress(addr) = line
    <3>1. Matched(s)
      BY <1>4 DEF Right, Coherent, Shaped
    <3>2. BlockAddress(p.addr) = s.mshr["L2"][1].address
      BY <1>1, <2>1, <2>2, <3>1 DEF Matched
    <3>3. QED
      BY <2>4, <3>2, LineFacts
  <2>6. PICK x : x = Apply(s, "L2", addr, p)
    OBVIOUS
  <2>7. Unique(s)
    BY <1>4 DEF Right, Coherent, Shaped
  <2>8. AsBefore(s, "L2", addr, x)
    BY <1>1, <1>4, <2>6, <2>7, ReadApplied
  <2>9. Right(x, 0, m, req)
    BY <2>8, AsBeforeRight
  <2>10. /\ Typed(x) /\ x.queue = s.queue /\ x.mshr = s.mshr /\ x.abort = s.abort
         /\ x.out = s.out
         /\ x.blocks["L1I"] = s.blocks["L1I"] /\ x.blocks["L1D"] = s.blocks["L1D"]
         /\ BlockAt(x, "L2", addr) \in Copies(x, "L2", line)
    BY <1>1, <2>5, <2>8 DEF AsBefore, Caches
  <2>11. HalfExact(x, 0)
    <3>1. SameWaiting(s, x, "L2")
      BY <2>10 DEF SameWaiting
    <3>2. HalfExact(s, 0)
      BY <1>4 DEF HalfSound
    <3>3. QED
      BY <2>10, <3>1, <3>2, HalfSame
  <2>12. 1 \in LiveAt(x.mshr["L2"][1].sub, 0, KindOf(c), line)
    <3>1. Is(p, KindOf(c), line)
      <4>1. \A d \in {"L1I", "L1D"} : \A a :
              Is(p, KindOf(d), a) <=> d = PrevOf(p) /\ a = p.addr
        BY <1>4, ReadFrom
      <4>2. QED
        BY <2>3, <2>4, <4>1
    <3>2. QED
      BY <2>1, <2>2, <2>10, <3>1 DEF LiveAt
  <2>13. Awaits(x, c, line)
    BY <2>10, <2>11, <2>12, ReadAwaited
  <2>14. Covered(x, 0, After(m, x.out, req)) /\ InOrder2(x, 0)
    BY <1>4, <2>9, <2>10 DEF Right, Coherent, Shaped
  <2>15. c = "L1D" => ToL2(x, 0, line) = {}
    <3>1. ASSUME c = "L1D"
          PROVE  ToL2(x, 0, line) = {}
      <4>1. 1 \in LiveAt(sub, 0, "load", line) /\ x.mshr["L2"][1].sub = sub
        BY <2>1, <2>10, <2>12, <3>1 DEF KindOf
      <4>2. Backs(x.queue["L2"], 0, line) = {} /\ Ahead(sub, 0, "load", line)
        BY <2>14, <4>1 DEF InOrder2
      <4>3. \A i \in LiveAt(sub, 0, "writeback", line) : i < 1 /\ i \in 1 .. Len(sub)
        BY <4>1, <4>2 DEF Ahead, LiveAt
      <4>4. LiveAt(sub, 0, "writeback", line) = {}
        BY <4>3
      <4>5. Backs(sub, 0, line) = {}
        BY <4>4 DEF Backs
      <4>6. QED
        BY <4>1, <4>2, <4>5 DEF ToL2
    <3>2. QED
      BY <3>1
  <2>16. PICK data : data = BlockAt(x, "L2", addr).data
    OBVIOUS
  <2>17. Fillable(x, 0, c, line, data, After(m, x.out, req))
    <3>1. Typed(x) /\ BlockAt(x, "L2", addr) \in Copies(x, "L2", line)
      BY <2>10
    <3>2. Covered(x, 0, After(m, x.out, req))
      BY <2>14
    <3>3. ~IsWrite(p)
      BY <1>4
    <3>4. QED
      BY <2>3, <2>4, <2>11, <2>13, <2>15, <2>16, <3>1, <3>2, <3>3, ReadFillable
  <2>18. PICK y : y = FillL1(x, c, line, data, victim)
    OBVIOUS
  <2>19. /\ line \in Addresses /\ BlockAddress(line) = line /\ BlockOf(line) \in Held(c)
         /\ data \in [Offsets -> Values]
    <3>1. BlockOf(p.addr) \in Held(PrevOf(p))
      BY <1>1, <1>4, PacketFacts
    <3>2. data \in [Offsets -> Values]
      BY <1>1, <2>10, <2>16, CopyTyped
    <3>3. QED
      BY <2>3, <2>4, <3>1, <3>2, LineFacts
  <2>20. Right(y, 0, m, req)
    BY <2>9, <2>10, <2>17, <2>18, <2>19, FillL1Right
  <2>21. Typed(y) /\ y.mshr["L2"][1].sub = sub
    <3>1. L1Filled(x, c, y)
      BY <2>10, <2>18, <2>19, FillL1Effect
    <3>2. y.mshr["L2"] = x.mshr["L2"] /\ Typed(y)
      BY <1>1, <2>3, <3>1 DEF L1Filled
    <3>3. QED
      BY <2>1, <2>10, <3>2
  <2>22. r = Leave(y, "L2")
    BY <1>4, <2>3, <2>4, <2>6, <2>16, <2>18 DEF ServeL2
  <2>23. y.mshr["L2"][1].sub # <<>> /\ y.mshr["L2"][1].sub[1].type # "writeback"
    BY <1>4, <2>1, <2>2, <2>21 DEF IsWrite
  <2>24. QED
    BY <1>1, <2>20, <2>21, <2>22, <2>23, LeaveRight
<1>5. QED
  BY <1>3, <1>4

\* While they are served, for the request ctx.req of the core's.
RightL2(ctx, k, x) ==
  /\ ServingExact(ctx, k, x) /\ Right(x, 0, ctx.m, ctx.req)
  /\ x.mshr["L2"][1].address = BlockAddress(ctx.addr)

\* The loop over the packets that wait in the L2.
RightL2Fold == INSTANCE FoldInduction WITH
                 op <- LAMBDA addr, victim, unused, x, p : ServeL2(x, addr, p, victim),
                 J <- RightL2

\* One packet more is served.
LEMMA RightL2Step ==
  ASSUME NEW ctx, NEW subs, subs = ctx.from.mshr["L2"][1].sub,
         subs \in Seq(PacketSet("L2")), NEW k \in 1 .. Len(subs),
         ctx.addr \in Addresses, Typed(ctx.from), ctx.m \in [Addresses -> Values],
         NEW victim, Evicts(victim), NEW x, RightL2(ctx, k - 1, x)
  PROVE  RightL2(ctx, k, ServeL2(x, ctx.addr, subs[k], victim))
<1>1. PICK addr \in Addresses : addr = ctx.addr
  OBVIOUS
<1>2. PICK p \in PacketSet("L2") : p = subs[k]
  OBVIOUS
<1>3. (k - 1) + 1 = k
  OBVIOUS
<1>4. /\ ServingExact(ctx, k - 1, x) /\ ServingL2(ctx, k - 1, x) /\ HalfSound(x)
      /\ Right(x, 0, ctx.m, ctx.req) /\ x.mshr["L2"][1].address = BlockAddress(addr)
  BY <1>1 DEF RightL2, ServingExact
<1>5. /\ Typed(x) /\ Holding(x, "L2", addr) # {}
      /\ x.mshr["L2"][1].sub = SubSeq(subs, k, Len(subs))
  BY <1>1, <1>3, <1>4 DEF ServingL2
<1>6. x.mshr["L2"][1].sub # <<>> /\ Head(x.mshr["L2"][1].sub) = p
  BY <1>2, <1>5, RestOfSequence, SMTT(60)
<1>7. PICK r : r = ServeL2(x, addr, p, victim)
  OBVIOUS
<1>8. ServingExact(ctx, k, r)
  BY <1>1, <1>2, <1>4, <1>7, ServeExactStep
<1>9. Right(r, 0, ctx.m, ctx.req)
  BY <1>4, <1>5, <1>6, <1>7, ServeL2Right
<1>10. r.mshr["L2"][1].address = x.mshr["L2"][1].address
  <2>1. L2Served(x, p, r)
    BY <1>5, <1>6, <1>7, ServeL2Effect
  <2>2. QED
    BY <2>1 DEF L2Served
<1>11. QED
  BY <1>1, <1>2, <1>4, <1>7, <1>8, <1>9, <1>10 DEF RightL2

\* All of them are.
LEMMA ServedL2Right ==
  ASSUME NEW s, Typed(s), HalfSound(s), NEW addr \in Addresses,
         Holding(s, "L2", addr) # {}, s.mshr["L2"][1].address = BlockAddress(addr),
         NEW victim, Evicts(victim), NEW subs, subs = s.mshr["L2"][1].sub,
         NEW m \in [Addresses -> Values], NEW req, Right(s, 0, m, req)
  PROVE  Right(AllServedL2(s, addr, victim, subs), 0, m, req)
<1>1. PICK ctx : ctx = [addr |-> addr, from |-> s, m |-> m, req |-> req]
  OBVIOUS
<1>2. ctx.addr = addr /\ ctx.from = s /\ ctx.m = m /\ ctx.req = req
  BY <1>1
<1>3. "L2" \in Caches /\ "L2" \in Levels /\ 1 \in 1 .. MshrEntries["L2"]
  BY Geometry DEF Caches, Levels
<1>4. subs \in Seq(PacketSet("L2")) /\ Len(subs) \in Nat
  BY <1>3, SubTyped
<1>5. RightL2(ctx, 0, s)
  <2>1. SubSeq(subs, 1, Len(subs)) = subs
    BY <1>4
  <2>2. Grown("L2", s.queue["L2"], s.queue["L2"])
    BY <1>3, NothingGrown
  <2>3. Settles(s, s)
    BY SettlesSame
  <2>4. ServingExact(ctx, 0, s)
    BY <1>2, <2>1, <2>2, <2>3 DEF ServingExact, ServingL2, May
  <2>5. QED
    BY <1>2, <2>4 DEF RightL2
<1>6. \A k \in 1 .. Len(subs) : \A x :
        RightL2(ctx, k - 1, x) => RightL2(ctx, k, ServeL2(x, addr, subs[k], victim))
  <2> TAKE k \in 1 .. Len(subs)
  <2> TAKE x
  <2> HAVE RightL2(ctx, k - 1, x)
  <2>1. QED
    BY <1>2, <1>4, RightL2Step
<1>7. PICK r : r = RightL2Fold!Fold(addr, victim, 0, s, subs)
  OBVIOUS
<1>8. r = AllServedL2(s, addr, victim, subs)
  BY <1>7, Zenon DEF AllServedL2, RightL2Fold!Fold, FoldLeft, MapThenFoldSet, Max,
                     RightL2Fold!FoldLeft, RightL2Fold!MapThenFoldSet, RightL2Fold!Max
<1>9. RightL2(ctx, Len(subs), r)
  BY <1>4, <1>5, <1>6, <1>7, RightL2Fold!FoldInvariant
<1>10. QED
  BY <1>2, <1>8, <1>9 DEF RightL2

\* The L2 may be answered: it does not have the line, its entry is for it, nothing of
\* it is on its way to memory and no other read is.
Fillable2(s, line) ==
  /\ Holding(s, "L2", line) = {} /\ ToMem(s, line) = {}
  /\ s.mshr["L2"][1].sub # <<>> /\ s.mshr["L2"][1].address = line
  /\ \A kind \in {"fetch", "load"}, a \in Lines :
       LiveAt(s.queue["Mem"], 0, kind, a) = {}

\* recvResp of the L2.
LEMMA FillL2Right ==
  ASSUME NEW s, Typed(s), s.abort = "none", HalfExact(s, 0),
         NEW line \in Lines, Fillable2(s, line),
         NEW data \in [Offsets -> Values], data = Image(s.store, line),
         NEW victim, Evicts(victim),
         NEW m \in [Addresses -> Values], NEW req, Right(s, 0, m, req),
         NEW r, r = FillL2(s, line, data, victim)
  PROVE  Right(r, 0, m, req)
<1>0. line \in Addresses /\ BlockAddress(line) = line
  BY LineFacts
<1>1. /\ "L2" \in Caches /\ Next1("L2") = "Mem" /\ BlockOf(line) \in Held("L2")
      /\ BlockOf(line) \in Blocks
  BY <1>0, AddressParts DEF Caches, Next1, Held
<1>2. PICK x : x = Placed(s, "L2", line, data, victim)
  OBVIOUS
<1>3. victim["L2"][BlockOf(line)] \in Ways("L2")
  BY <1>1 DEF Evicts
<1>4. /\ Typed(x) /\ May(s, x, Losses)
      /\ x.mshr = s.mshr
      /\ \A d \in Levels \ {"Mem"} : x.queue[d] = s.queue[d]
      /\ \A d \in Caches \ {"L2"} : x.blocks[d] = s.blocks[d]
      /\ Holding(x, "L2", line) # {}
  BY <1>0, <1>1, <1>2, <1>3, PlacedEffect
<1>5. "L2" \in Levels \ {"Mem"} /\ {"L1I", "L1D"} \subseteq Caches \ {"L2"}
  BY DEF Levels, Caches
<1>6. HalfSound(x)
  <2>1. SameWaiting(s, x, "L2")
    BY <1>4 DEF SameWaiting
  <2>2. HalfExact(x, 0)
    BY <1>4, <1>5, <2>1, HalfSame
  <2>3. QED
    BY <1>4, <2>2 DEF HalfSound, May, Losses
<1>7. Right(x, 0, m, req)
  <2>1. \A v : Unread(s, 0, "L2", v) <=>
                 \A kind \in {"fetch", "load"} : LiveAt(s.queue["Mem"], 0, kind, v) = {}
    BY DEF Unread
  <2>2. Fits(s, 0, "L2", line, data, After(m, s.out, req))
    BY <2>1 DEF Fits, Fillable2
  <2>3. Holding(s, "L2", line) = {}
    BY DEF Fillable2
  <2>4. QED
    BY <1>0, <1>1, <1>2, <1>3, <2>2, <2>3, PlacedRight
<1>8. PICK subs : subs = s.mshr["L2"][1].sub
  OBVIOUS
<1>9. PICK y : y = AllServedL2(x, line, victim, subs)
  OBVIOUS
<1>10. /\ subs = x.mshr["L2"][1].sub /\ subs # <<>>
       /\ x.mshr["L2"][1].address = BlockAddress(line)
  BY <1>0, <1>4, <1>8 DEF Fillable2
<1>11. Right(y, 0, m, req)
  BY <1>0, <1>4, <1>6, <1>7, <1>9, <1>10, ServedL2Right
<1>12. Typed(y) /\ y.mshr["L2"][1].sub = <<>>
  <2>1. ServingExact([addr |-> line, from |-> x], Len(subs), y)
    BY <1>0, <1>4, <1>6, <1>9, <1>10, ServedExact
  <2>2. Typed(y) /\ y.mshr["L2"][1].sub = SubSeq(subs, Len(subs) + 1, Len(subs))
    BY <1>10, <2>1 DEF ServingExact, ServingL2
  <2>3. 1 \in 1 .. MshrEntries["L2"]
    BY <1>1, Geometry
  <2>4. subs \in Seq(PacketSet("L2"))
    BY <1>1, <1>8, <2>3, SubTyped
  <2>5. SubSeq(subs, Len(subs) + 1, Len(subs)) = <<>>
    BY <2>4
  <2>6. QED
    BY <2>2, <2>5
<1>13. r = Released(y, "L2")
  <2>1. r = IF subs = <<>> THEN Fails(x, "noentry")
            ELSE [y EXCEPT !.mshr["L2"][1].address = 0]
    BY <1>2, <1>8, <1>9, Zenon DEF FillL2, AllServedL2
  <2>2. QED
    BY <1>10, <2>1 DEF Released
<1>14. QED
  BY <1>1, <1>11, <1>12, <1>13, ReleaseRight

-------------------------------------------------------------------------------
(* BaseMemory::Tick, with one MSHR entry in each cache.                      *)

\* A line of memory is written.
Written(store0, addr, data) ==
  [a \in Addresses |-> IF a \in {addr + o : o \in Offsets} THEN data[a - addr] ELSE store0[a]]

\* That line only.
LEMMA WrittenLine ==
  ASSUME NEW line \in Lines, NEW data \in [Offsets -> Values], NEW store0,
         NEW new, new = Written(store0, line, data)
  PROVE  /\ Image(new, line) = data
         /\ \A a \in Lines \ {line} : Image(new, a) = Image(store0, a)
<1>1. \A o \in Offsets : line \in Nat /\ o \in Nat /\ line + o \in Addresses
  BY LineFacts, Geometry DEF Offsets
<1>2. \A o \in Offsets : new[line + o] = data[o]
  BY <1>1 DEF Written
<1>3. ASSUME NEW a \in Lines \ {line}, NEW o \in Offsets
      PROVE  new[a + o] = store0[a + o]
  <2>1. a + o \in Addresses /\ BlockAddress(a + o) = a
    BY LineFacts
  <2>2. \A o2 \in Offsets : BlockAddress(line + o2) = line
    BY LineFacts
  <2>3. a + o \notin {line + o2 : o2 \in Offsets}
    BY <2>1, <2>2
  <2>4. QED
    BY <2>1, <2>3 DEF Written
<1>4. QED
  BY <1>2, <1>3 DEF Image

\* It agrees with the image as the write-back did.
LEMMA AgreeWritten ==
  ASSUME NEW i, NEW d, NEW back, NEW copies, NEW down, NEW stored, NEW image,
         Agree(i, d, back, copies, down, stored, image), NEW data \in down,
         NEW left \in SUBSET down
  PROVE  Agree(i, d, back, copies, left, data, image)
BY DEF Agree

\* Memory has taken a write-back from its queue, and written the line.
TakenBack(s, p, r) ==
  /\ r.queue["Mem"] = Tail(s.queue["Mem"])
  /\ \A d \in Levels \ {"Mem"} : r.queue[d] = s.queue[d]
  /\ r.blocks = s.blocks /\ r.mshr = s.mshr /\ r.out = s.out /\ r.abort = s.abort
  /\ r.store = Written(s.store, p.addr, p.data)

\* The copies agree as they did.
LEMMA WriteRight ==
  ASSUME NEW s, Typed(s), s.queue["Mem"] # <<>>, NEW p, p = Head(s.queue["Mem"]), IsWrite(p),
         NEW m, NEW req, Right(s, 0, m, req), NEW r, TakenBack(s, p, r)
  PROVE  Right(r, 0, m, req)
<1>1. "Mem" \in Levels /\ "L2" \in Levels \ {"Mem"} /\ "L1D" \in Levels \ {"Mem"}
  BY DEF Levels, Caches
<1>2. PICK q \in Seq(PacketSet("Mem")) : q = s.queue["Mem"]
  <2>1. s.queue["Mem"] \in Seq(PacketSet("Mem"))
    BY <1>1 DEF Typed, QueuesTyped
  <2>2. QED
    BY <2>1
<1>3. q # <<>> /\ p = q[1] /\ p \in PacketSet("Mem") /\ 1 \in 1 .. Len(q)
  BY <1>2
<1>4. p.type = "writeback" /\ p.data \in [Offsets -> Values]
      /\ BlockAddress(p.addr) = p.addr /\ p.addr \in Addresses
  <2>1. p.type = "writeback"
    BY <1>3 DEF PacketSet, Reads, WriteBacksOf, IsWrite
  <2>2. QED
    BY <1>1, <1>3, <2>1, PacketFacts
<1>5. PICK line \in Lines : line = p.addr
  BY <1>4, LineOf
<1>6. /\ r.queue["Mem"] = Tail(q) /\ r.queue["L2"] = s.queue["L2"]
      /\ r.queue["L1D"] = s.queue["L1D"]
      /\ r.blocks = s.blocks /\ r.mshr = s.mshr /\ r.out = s.out /\ r.abort = s.abort
      /\ Image(r.store, line) = p.data
      /\ \A a \in Lines \ {line} : Image(r.store, a) = Image(s.store, a)
  <2>1. r.store = Written(s.store, line, p.data)
    BY <1>5 DEF TakenBack
  <2>2. QED
    BY <1>1, <1>2, <1>4, <2>1, WrittenLine DEF TakenBack
<1>7. CASE s.abort # "none"
  BY <1>6, <1>7 DEF Right
<1>8. CASE s.abort = "none"
  <2>1. PICK image : image = After(m, s.out, req)
    OBVIOUS
  <2>2. /\ Covered(s, 0, image) /\ Unique(s) /\ InOrder2(s, 0) /\ InOrderMem(s)
        /\ Matched(s) /\ Owned(s, req) /\ Answered(m, s.out, req)
    BY <1>8, <2>1 DEF Right, Coherent, Shaped
  <2>3. ASSUME NEW a \in Lines
        PROVE  AgreeAt(r, 0, a, Image(image, a))
    <3>1. /\ \A c \in Caches : Copies(r, c, a) = Copies(s, c, a)
          /\ ToL2(r, 0, a) = ToL2(s, 0, a)
      BY <1>6 DEF Copies, Holding, ToL2
    <3>2. AgreeAt(s, 0, a, Image(image, a))
      BY <2>2 DEF Covered
    <3>3. /\ ToMem(r, a) \subseteq ToMem(s, a)
          /\ ~Is(q[1], "writeback", a) => ToMem(r, a) = ToMem(s, a)
      <4>1. PICK t : t = Tail(q)
        OBVIOUS
      <4>2. /\ Backs(t, 0, a) \subseteq Backs(q, 0, a)
            /\ ~Is(q[1], "writeback", a) => Backs(t, 0, a) = Backs(q, 0, a)
        BY <1>3, <4>1, TailKeeps
      <4>3. QED
        BY <1>2, <1>6, <4>1, <4>2 DEF ToMem
    <3>4. CASE a # line
      <4>1. ToMem(r, a) = ToMem(s, a)
        BY <1>3, <1>5, <3>3, <3>4 DEF Is
      <4>2. SameAt(s, 0, r, 0, a)
        BY <1>6, <3>1, <3>4, <4>1 DEF SameAt
      <4>3. QED
        BY <3>2, <4>2, AgreeSame
    <3>5. CASE a = line
      <4>1. p.data \in ToMem(s, a)
        <5>1. 1 \in LiveAt(q, 0, "writeback", a)
          BY <1>3, <1>4, <1>5, <3>5 DEF LiveAt, Is
        <5>2. QED
          BY <1>2, <1>3, <5>1 DEF ToMem, Backs
      <4>2. {"L1I", "L1D", "L2"} = Caches
        BY DEF Caches
      <4>3. Agree(Copies(r, "L1I", a), Copies(r, "L1D", a), ToL2(r, 0, a),
                  Copies(r, "L2", a), ToMem(s, a), Image(s.store, a), Image(image, a))
        BY <3>1, <3>2, <4>2 DEF AgreeAt
      <4>4. QED
        BY <1>6, <3>3, <3>5, <4>1, <4>3, AgreeWritten DEF AgreeAt
    <3>6. QED
      BY <3>4, <3>5
  <2>4. Covered(r, 0, image)
    BY <2>3 DEF Covered
  <2>5. InOrderMem(r)
    <3>1. ASSUME NEW a \in Lines, NEW kind \in {"fetch", "load"}
          PROVE  Ahead(r.queue["Mem"], 0, kind, a)
      <4>1. PICK t : t = Tail(q)
        OBVIOUS
      <4>2. \A k : Ahead(q, 0, k, a) => Ahead(t, 0, k, a)
        BY <1>3, <4>1, TailKeeps
      <4>3. QED
        BY <1>2, <1>6, <2>2, <4>1, <4>2 DEF InOrderMem
    <3>2. QED
      BY <3>1 DEF InOrderMem
  <2>6. Unique(r) /\ InOrder2(r, 0) /\ Matched(r) /\ Owned(r, req)
    <3>1. Unique(r)
      <4>1. r.blocks = s.blocks /\ Unique(s)
        BY <1>6, <2>2, Zenon
      <4>2. QED
        BY <4>1, UniqueSame
    <3>2. InOrder2(r, 0)
      BY <1>6, <2>2, Zenon DEF InOrder2
    <3>3. Matched(r)
      BY <1>6, <2>2, Zenon DEF Matched
    <3>4. Owned(r, req)
      BY <1>6, <2>2, Zenon DEF Owned
    <3>5. QED
      BY <3>1, <3>2, <3>3, <3>4
  <2>7. QED
    BY <1>6, <2>1, <2>2, <2>4, <2>5, <2>6 DEF Right, Coherent, Shaped
<1>9. QED
  BY <1>7, <1>8

\* Memory takes a read from its queue.
LEMMA TakenRight ==
  ASSUME NEW s, Typed(s), s.queue["Mem"] # <<>>, NEW p, p = Head(s.queue["Mem"]), ~IsWrite(p),
         NEW m, NEW req, Right(s, 0, m, req),
         NEW r, r = WithQueue(s, "Mem", Tail(s.queue["Mem"]))
  PROVE  Right(r, 0, m, req)
<1>1. "Mem" \in Levels /\ "L2" \in Levels \ {"Mem"} /\ "L1D" \in Levels \ {"Mem"}
  BY DEF Levels, Caches
<1>2. PICK q \in Seq(PacketSet("Mem")) : q = s.queue["Mem"]
  <2>1. s.queue["Mem"] \in Seq(PacketSet("Mem"))
    BY <1>1 DEF Typed, QueuesTyped
  <2>2. QED
    BY <2>1
<1>3. q # <<>> /\ p = q[1]
  BY <1>2
<1>4. PICK t \in Seq(PacketSet("Mem")) : t = Tail(q)
  <2>1. Tail(q) \in Seq(PacketSet("Mem"))
    BY <1>3
  <2>2. QED
    BY <2>1
<1>5. /\ r.blocks = s.blocks /\ r.mshr = s.mshr /\ r.store = s.store
      /\ r.abort = s.abort /\ r.out = s.out
      /\ \A d \in Levels \ {"Mem"} : r.queue[d] = s.queue[d]
      /\ r.queue["Mem"] = t
  <2>1. r = WithQueue(s, "Mem", t)
    BY <1>2, <1>4
  <2>2. "Mem" \in Levels
    BY <1>1
  <2>3. QED
    BY <2>1, <2>2, QueueChange
<1>6. ASSUME r.abort = "none"
      PROVE  Arranged(s, 0, r, 0, req)
  <2>1. InOrder2(s, 0) /\ InOrderMem(s) /\ Matched(s) /\ Owned(s, req)
    BY <1>5, <1>6 DEF Right, Coherent, Shaped
  <2>2. ASSUME NEW a \in Lines
        PROVE  /\ Backs(t, 0, a) = Backs(q, 0, a)
               /\ \A kind : Ahead(q, 0, kind, a) => Ahead(t, 0, kind, a)
    <3>1. ~Is(q[1], "writeback", a)
      BY <1>3 DEF Is, IsWrite
    <3>2. QED
      BY <1>3, <1>4, <3>1, TailKeeps
  <2>3. \A a \in Lines : ToL2(r, 0, a) = ToL2(s, 0, a) /\ ToMem(r, a) = ToMem(s, a)
    BY <1>1, <1>2, <1>5, <2>2 DEF ToL2, ToMem
  <2>4. InOrderMem(r)
    BY <1>2, <1>5, <2>1, <2>2 DEF InOrderMem
  <2>5. InOrder2(r, 0) /\ Matched(r) /\ Owned(r, req)
    BY <1>1, <1>5, <2>1, ZenonT(60) DEF InOrder2, Matched, Owned
  <2>6. QED
    BY <2>3, <2>4, <2>5 DEF Arranged
<1>7. r.abort = "none" => s.abort = "none" /\ Arranged(s, 0, r, 0, req)
  BY <1>5, <1>6
<1>8. r.blocks = s.blocks /\ r.store = s.store /\ r.out = s.out
  BY <1>5
<1>9. QED
  BY <1>7, <1>8, ArrangedRight, ZenonT(60)

\* A read that memory takes is the only one, and for the line that the L2 awaits.
LEMMA OnlyRead ==
  ASSUME NEW q \in Seq(PacketSet("Mem")), q # <<>>, NEW s, s.queue["Mem"] = q, Exact2(s),
         NEW p, p = Head(q), ~IsWrite(p), p.addr \in Addresses, NEW t, t = Tail(q)
  PROVE  /\ Awaits(s, "L2", p.addr)
         /\ \A a \in Addresses : InMem(t, a) = 0
         /\ \A a \in Addresses, kind \in {"fetch", "load"} : LiveAt(t, 0, kind, a) = {}
<1>1. p.type \in {"fetch", "load"}
  <2>1. p \in PacketSet("Mem")
    OBVIOUS
  <2>2. QED
    BY <2>1 DEF PacketSet, Reads, WriteBacksOf, IsWrite
<1>2. \A a \in Addresses :
        OneIf(Is(p, "fetch", a)) + OneIf(Is(p, "load", a)) = OneIf(a = p.addr)
  BY <1>1 DEF Is, OneIf
<1>3. \A a \in Addresses :
        InMem(t, a) \in Nat /\ OneIf(Awaits(s, "L2", a)) = OneIf(a = p.addr) + InMem(t, a)
  <2>1. ASSUME NEW a \in Addresses
        PROVE  InMem(t, a) \in Nat /\ OneIf(Awaits(s, "L2", a)) = OneIf(a = p.addr) + InMem(t, a)
    <3>1. InMem(q, a) = OneIf(Awaits(s, "L2", a))
      BY DEF Exact2
    <3>2. /\ InMem(t, a) \in Nat
          /\ InMem(q, a) = OneIf(Is(p, "fetch", a)) + OneIf(Is(p, "load", a)) + InMem(t, a)
      BY InMemTail
    <3>3. QED
      BY <1>2, <3>1, <3>2
  <2>2. QED
    BY <2>1
<1>4. Awaits(s, "L2", p.addr)
  <2>1. OneIf(p.addr = p.addr) = 1
    BY DEF OneIf
  <2>2. OneIf(Awaits(s, "L2", p.addr)) # 0
    BY <1>3, <2>1
  <2>3. QED
    BY <2>2 DEF OneIf
<1>5. ASSUME NEW a \in Addresses
      PROVE  InMem(t, a) = 0
  <2>1. OneIf(Awaits(s, "L2", a)) = OneIf(a = p.addr)
    BY <1>4 DEF Awaits, OneIf
  <2>2. OneIf(a = p.addr) \in Nat
    BY DEF OneIf
  <2>3. QED
    BY <1>3, <2>1, <2>2
<1>6. ASSUME NEW a \in Addresses, NEW kind \in {"fetch", "load"}
      PROVE  LiveAt(t, 0, kind, a) = {}
  <2>0. t \in Seq(PacketSet("Mem"))
    OBVIOUS
  <2>1. /\ IsFiniteSet(LiveAt(t, 0, kind, a)) /\ Live(t, 0, kind, a) = Num(t, kind, a)
        /\ \A k : Num(t, k, a) \in Nat
    BY <2>0, LiveType, LiveFirst, NumType
  <2>2. Num(t, kind, a) = 0
    BY <1>5, <2>1 DEF InMem
  <2>3. QED
    BY <2>1, <2>2, FS_EmptySet DEF Live
<1>7. QED
  BY <1>4, <1>5, <1>6

\* The L2 waits for the line that the first packet of memory's asks for.
LEMMA ReadFillable2 ==
  ASSUME NEW s, Typed(s), s.abort = "none", WholeExact(s, 0),
         NEW m, NEW req, Right(s, 0, m, req),
         NEW q \in Seq(PacketSet("Mem")), q = s.queue["Mem"], q # <<>>,
         NEW p, p = Head(q), ~IsWrite(p),
         NEW t \in Seq(PacketSet("Mem")), t = Tail(q), NEW line \in Lines, line = p.addr,
         NEW x, x.blocks = s.blocks, x.mshr = s.mshr, x.queue["Mem"] = t
  PROVE  Fillable2(x, line)
<1>1. line \in Addresses /\ BlockAddress(line) = line
  BY LineFacts
<1>2. p \in PacketSet("Mem") /\ 1 \in 1 .. Len(q) /\ q[1] = p
  OBVIOUS
<1>3. /\ Awaits(s, "L2", line)
      /\ \A a \in Addresses, kind \in {"fetch", "load"} : LiveAt(t, 0, kind, a) = {}
  BY <1>1, <1>2, OnlyRead DEF WholeExact
<1>4. Holding(x, "L2", line) = {}
  <2>1. Holding(s, "L2", line) = {}
    BY <1>1, <1>3 DEF WholeExact, Absent
  <2>2. QED
    BY <2>1 DEF Holding
<1>5. ToMem(x, line) = {}
  <2>1. \E kind \in {"fetch", "load"} : 1 \in LiveAt(q, 0, kind, line)
    <3>1. p.type \in {"fetch", "load"}
      BY <1>2 DEF PacketSet, Reads, WriteBacksOf, IsWrite
    <3>2. QED
      BY <1>2, <3>1 DEF LiveAt, Is
  <2>2. \A kind \in {"fetch", "load"} : Ahead(q, 0, kind, line)
    BY DEF Right, Coherent, Shaped, InOrderMem
  <2>3. \A i \in LiveAt(q, 0, "writeback", line) : i < 1 /\ i \in 1 .. Len(q)
    BY <2>1, <2>2 DEF Ahead, LiveAt
  <2>4. LiveAt(q, 0, "writeback", line) = {}
    BY <2>3
  <2>5. Backs(q, 0, line) = {}
    BY <2>4 DEF Backs
  <2>6. Backs(t, 0, line) \subseteq Backs(q, 0, line)
    BY TailKeeps
  <2>7. QED
    BY <2>5, <2>6 DEF ToMem
<1>6. x.mshr["L2"][1].sub # <<>> /\ x.mshr["L2"][1].address = line
  BY <1>3 DEF Awaits
<1>7. \A kind \in {"fetch", "load"}, a \in Lines : LiveAt(x.queue["Mem"], 0, kind, a) = {}
  BY <1>3, LineFacts
<1>8. QED
  BY <1>4, <1>5, <1>6, <1>7 DEF Fillable2

\* Memory serves its first packet.
LEMMA ServeMemRight ==
  ASSUME NEW s, Typed(s), Sound(s, 0), s.queue["Mem"] # <<>>,
         NEW p, p = Head(s.queue["Mem"]), NEW victim, Evicts(victim),
         NEW m \in [Addresses -> Values], NEW req, Right(s, 0, m, req),
         NEW r, r = ServeMem(s, p, victim)
  PROVE  Right(r, 0, m, req)
<1>1. "Mem" \in Levels /\ "L2" \in Levels \ {"Mem"} /\ {"L1I", "L1D"} \subseteq Levels
  BY DEF Levels, Caches
<1>2. PICK q \in Seq(PacketSet("Mem")) : q = s.queue["Mem"]
  <2>1. s.queue["Mem"] \in Seq(PacketSet("Mem"))
    BY <1>1 DEF Typed, QueuesTyped
  <2>2. QED
    BY <2>1
<1>3. PICK t \in Seq(PacketSet("Mem")) : t = Tail(q)
  <2>1. Tail(q) \in Seq(PacketSet("Mem"))
    BY <1>2
  <2>2. QED
    BY <2>1
<1>4. p \in PacketSet("Mem")
  BY <1>2
<1>5. PICK line \in Lines : line = p.addr
  <2>1. p.addr \in Addresses /\ BlockAddress(p.addr) = p.addr
    BY <1>1, <1>4, PacketFacts
  <2>2. QED
    BY <2>1, LineOf
<1>6. line \in Addresses /\ BlockAddress(line) = line
  BY LineFacts
<1>7. PICK x : x = [s EXCEPT !.queue["Mem"] = Tail(@)]
  OBVIOUS
<1>8. x = WithQueue(s, "Mem", t)
  BY <1>2, <1>3, <1>7 DEF WithQueue
<1>9. /\ Typed(x) /\ x.blocks = s.blocks /\ x.mshr = s.mshr /\ x.store = s.store
      /\ x.abort = s.abort /\ x.out = s.out
      /\ \A d \in Levels \ {"Mem"} : x.queue[d] = s.queue[d]
      /\ x.queue["Mem"] = t
  <2>1. "Mem" \in Levels
    BY <1>1
  <2>2. QED
    BY <1>8, <2>1, QueueChange
<1>10. CASE s.abort # "none"
  <2>1. MemServed(s, r)
    BY ServeMemEffect
  <2>2. QED
    BY <1>10, <2>1 DEF MemServed, May, Right
<1>11. CASE s.abort = "none" /\ IsWrite(p)
  <2>1. PICK new : new = Written(s.store, p.addr, p.data)
    OBVIOUS
  <2>2. r = [x EXCEPT !.store = new]
    <3>1. r = [x EXCEPT !.store = [a \in Addresses |->
                 IF a \in {p.addr + o : o \in Offsets} THEN p.data[a - p.addr] ELSE @[a]]]
      BY <1>7, <1>11 DEF ServeMem
    <3>2. QED
      BY <1>9, <2>1, <3>1 DEF Written
  <2>3. /\ r.queue = x.queue /\ r.blocks = x.blocks /\ r.mshr = x.mshr
        /\ r.abort = x.abort /\ r.out = x.out /\ r.store = new
    BY <1>9, <2>2 DEF Typed
  <2>4. TakenBack(s, p, r)
    BY <1>2, <1>3, <1>9, <2>1, <2>3 DEF TakenBack
  <2>5. QED
    BY <1>11, <2>4, WriteRight
<1>12. CASE s.abort = "none" /\ ~IsWrite(p)
  <2>1. PICK data : data = [o \in Offsets |-> s.store[p.addr + o]]
    OBVIOUS
  <2>2. data \in [Offsets -> Values] /\ data = Image(x.store, line)
    <3>1. \A o \in Offsets : line + o \in Addresses
      BY LineFacts
    <3>2. \A o \in Offsets : s.store[line + o] \in Values
      BY <3>1 DEF Typed
    <3>3. QED
      BY <1>5, <1>9, <2>1, <3>2 DEF Image
  <2>3. r = FillL2(x, line, data, victim)
    BY <1>5, <1>7, <1>12, <2>1 DEF ServeMem
  <2>4. WholeExact(s, 0)
    BY <1>12 DEF Sound
  <2>5. HalfExact(x, 0)
    <3>1. SameWaiting(s, x, "L2")
      BY <1>9 DEF SameWaiting
    <3>2. x.queue["L2"] = s.queue["L2"]
      BY <1>1, <1>9
    <3>3. QED
      BY <1>9, <2>4, <3>1, <3>2, HalfSame DEF WholeExact
  <2>6. Fillable2(x, line)
    BY <1>2, <1>3, <1>5, <1>9, <1>12, <2>4, ReadFillable2
  <2>7. Right(x, 0, m, req)
    BY <1>2, <1>3, <1>8, <1>12, TakenRight
  <2>8. QED
    BY <1>9, <1>12, <2>2, <2>3, <2>5, <2>6, <2>7, FillL2Right
<1>13. QED
  BY <1>10, <1>11, <1>12

\* Memory's Tick, served up to its k-th packet.
RightMem(ctx, k, x) == MemExact(ctx, k, x) /\ Right(x, 0, ctx.m, ctx.req)

\* The packets of memory's queue keep it, by induction.
RightMemFold == INSTANCE FoldInduction WITH
                  op <- LAMBDA victim, unused1, unused2, x, p : ServeMem(x, p, victim),
                  J <- RightMem

\* One packet of memory's queue.
LEMMA RightMemStep ==
  ASSUME NEW from, Typed(from), NEW ctx, ctx.from = from,
         ctx.m \in [Addresses -> Values],
         NEW victim, Evicts(victim),
         NEW q, q = from.queue["Mem"], NEW k \in 1 .. Len(q), NEW x, RightMem(ctx, k - 1, x)
  PROVE  RightMem(ctx, k, ServeMem(x, q[k], victim))
<1>1. "Mem" \in Levels
  BY DEF Levels
<1>2. q \in Seq(PacketSet("Mem")) /\ Len(q) \in Nat
  BY <1>1 DEF Typed, QueuesTyped
<1>3. (k - 1) + 1 = k
  BY <1>2
<1>4. MemExact(ctx, k - 1, x) /\ Right(x, 0, ctx.m, ctx.req)
  BY DEF RightMem
<1>5. MemTicking(ctx, k - 1, x) /\ Sound(x, 0)
  BY <1>4 DEF MemExact
<1>6. Typed(x) /\ Extended("Mem", SubSeq(q, k, Len(q)), x.queue["Mem"])
  BY <1>3, <1>5 DEF MemTicking
<1>7. x.queue["Mem"] \in Seq(PacketSet("Mem"))
  BY <1>1, <1>6 DEF Typed, QueuesTyped
<1>8. x.queue["Mem"] # <<>> /\ Head(x.queue["Mem"]) = q[k]
  BY <1>1, <1>2, <1>6, <1>7, TailExtended
<1>9. MemExact(ctx, k, ServeMem(x, q[k], victim))
  BY <1>4, MemExactStep
<1>10. Right(ServeMem(x, q[k], victim), 0, ctx.m, ctx.req)
  BY <1>4, <1>5, <1>6, <1>8, ServeMemRight
<1>11. QED
  BY <1>9, <1>10 DEF RightMem

\* A Tick of memory leaves the hierarchy right.
LEMMA MemTickRight ==
  ASSUME NEW s, Typed(s), Sound(s, 0), NEW victim, Evicts(victim),
         NEW m \in [Addresses -> Values], NEW req, Right(s, 0, m, req)
  PROVE  Right(MemTick(s, victim), 0, m, req)
<1>1. "Mem" \in Levels /\ "L2" \in Levels
  BY DEF Levels, Caches
<1>2. PICK q : q = s.queue["Mem"]
  OBVIOUS
<1>3. q \in Seq(PacketSet("Mem")) /\ Len(q) \in Nat
  BY <1>1, <1>2 DEF Typed, QueuesTyped
<1>4. s.queue["L2"] \in Seq(PacketSet("L2"))
  BY <1>1 DEF Typed, QueuesTyped
<1>5. PICK n : n = Due(q)
  OBVIOUS
<1>6. n \in 0 .. Len(q)
  BY <1>1, <1>3, <1>5, DueEffect
<1>7. PICK seq : seq = SubSeq(q, 1, n)
  OBVIOUS
<1>8. Len(seq) = n /\ \A k \in 1 .. n : seq[k] = q[k] /\ k \in 1 .. Len(q)
  BY <1>3, <1>6, <1>7
<1>9. PICK ctx : ctx = [from |-> s, m |-> m, req |-> req]
  OBVIOUS
<1>10. ctx.from = s /\ ctx.m = m /\ ctx.req = req
  BY <1>9
<1>11. RightMem(ctx, 0, s)
  <2>1. SubSeq(q, 0 + 1, Len(q)) = q
    BY <1>3
  <2>2. Extended("L2", s.queue["L2"], s.queue["L2"])
    BY <1>4 DEF Extended
  <2>3. Extended("Mem", q, q)
    BY <1>3 DEF Extended
  <2>4. Settles(s, s)
    BY SettlesSame
  <2>5. MemExact(ctx, 0, s)
    BY <1>2, <1>10, <2>1, <2>2, <2>3, <2>4 DEF MemExact, MemTicking, May
  <2>6. QED
    BY <1>10, <2>5 DEF RightMem
<1>12. \A k \in 1 .. Len(seq) : \A x :
         RightMem(ctx, k - 1, x) => RightMem(ctx, k, ServeMem(x, seq[k], victim))
  <2> TAKE k \in 1 .. Len(seq)
  <2> TAKE x
  <2> HAVE RightMem(ctx, k - 1, x)
  <2>1. k \in 1 .. Len(q) /\ seq[k] = q[k]
    BY <1>8
  <2>2. RightMem(ctx, k, ServeMem(x, q[k], victim))
    BY <1>2, <1>10, <2>1, RightMemStep
  <2>3. QED
    BY <2>1, <2>2
<1>13. PICK r : r = RightMemFold!Fold(victim, 0, 0, s, seq)
  OBVIOUS
<1>14. r = AllServedMem(s, victim, seq)
  BY <1>13, Zenon DEF AllServedMem, RightMemFold!Fold, FoldLeft, MapThenFoldSet, Max,
                      RightMemFold!FoldLeft, RightMemFold!MapThenFoldSet, RightMemFold!Max
<1>15. RightMem(ctx, Len(seq), r)
  <2>1. seq \in Seq(PacketSet("Mem"))
    BY <1>3, <1>6, <1>7
  <2>2. QED
    BY <1>11, <1>12, <1>13, <2>1, RightMemFold!FoldInvariant
<1>16. MemTick(s, victim) = r
  <2>1. MemTick(s, victim) =
          AllServedMem(s, victim, SubSeq(s.queue["Mem"], 1, Due(s.queue["Mem"])))
    BY Zenon DEF MemTick, AllServedMem
  <2>2. QED
    BY <1>2, <1>5, <1>7, <1>14, <2>1, Zenon
<1>17. QED
  BY <1>10, <1>15, <1>16 DEF RightMem

-------------------------------------------------------------------------------
(* One packet of a cache's Tick.                                             *)

\* The i-th packet of a queue is done with.
LEMMA PassedKeeps ==
  ASSUME NEW S, NEW q \in Seq(S), NEW i \in 1 .. Len(q), Ready(q[i]), NEW a
  PROVE  /\ Backs(q, i - 1, a) = Backs(q, i, a)
              \cup (IF Is(q[i], "writeback", a) THEN {q[i].data} ELSE {})
         /\ \A kind : Is(q[i], kind, a) => i \in LiveAt(q, i - 1, kind, a)
         /\ \A kind : Ahead(q, i - 1, kind, a) => Ahead(q, i, kind, a)
<1>1. ASSUME NEW kind
      PROVE  LiveAt(q, i, kind, a) = LiveAt(q, i - 1, kind, a) \ {i}
  <2>1. \A j \in 1 .. Len(q) : (j > i \/ ~Ready(q[j])) <=> ((j > i - 1 \/ ~Ready(q[j])) /\ j # i)
    OBVIOUS
  <2>2. QED
    BY <2>1 DEF LiveAt
<1>2. \A kind : Is(q[i], kind, a) <=> i \in LiveAt(q, i - 1, kind, a)
  <2>1. i > i - 1
    OBVIOUS
  <2>2. QED
    BY <2>1 DEF LiveAt
<1>3. \A kind : Ahead(q, i - 1, kind, a) => Ahead(q, i, kind, a)
  BY <1>1 DEF Ahead
<1>4. Backs(q, i - 1, a) = Backs(q, i, a)
        \cup (IF Is(q[i], "writeback", a) THEN {q[i].data} ELSE {})
  BY <1>1, <1>2 DEF Backs
<1>5. QED
  BY <1>2, <1>3, <1>4

\* A read of the L2's queue is done with.
LEMMA PassedRight ==
  ASSUME NEW s, Typed(s), NEW i \in 1 .. Len(s.queue["L2"]), Ready(s.queue["L2"][i]),
         s.queue["L2"][i].type # "writeback", NEW m, NEW req, Right(s, i - 1, m, req)
  PROVE  Right(s, i, m, req)
<1>1. PICK q \in Seq(PacketSet("L2")) : q = s.queue["L2"]
  <2>1. s.queue["L2"] \in Seq(PacketSet("L2"))
    BY DEF Typed, QueuesTyped, Levels, Caches
  <2>2. QED
    BY <2>1
<1>2. ASSUME NEW a
      PROVE  /\ Backs(q, i - 1, a) = Backs(q, i, a)
             /\ \A kind : Ahead(q, i - 1, kind, a) => Ahead(q, i, kind, a)
  <2>1. ~Is(q[i], "writeback", a)
    BY <1>1 DEF Is
  <2>2. i \in 1 .. Len(q) /\ Ready(q[i])
    BY <1>1
  <2>3. /\ Backs(q, i - 1, a) = Backs(q, i, a)
             \cup (IF Is(q[i], "writeback", a) THEN {q[i].data} ELSE {})
        /\ \A kind : Ahead(q, i - 1, kind, a) => Ahead(q, i, kind, a)
    BY <2>2, PassedKeeps
  <2>4. QED
    BY <2>1, <2>3
<1>3. ASSUME s.abort = "none"
      PROVE  Arranged(s, i - 1, s, i, req)
  <2>1. InOrder2(s, i - 1) /\ InOrderMem(s) /\ Matched(s) /\ Owned(s, req)
    BY <1>3 DEF Right, Coherent, Shaped
  <2>2. InOrder2(s, i)
    BY <1>1, <1>2, <2>1 DEF InOrder2
  <2>3. \A a \in Lines : ToL2(s, i, a) = ToL2(s, i - 1, a)
    BY <1>1, <1>2 DEF ToL2
  <2>4. QED
    BY <2>1, <2>2, <2>3 DEF Arranged
<1>4. QED
  BY <1>3, ArrangedRight

\* A hit in a level 1 cache.
LEMMA HitL1Right ==
  ASSUME NEW s, Typed(s), NEW c \in {"L1I", "L1D"}, NEW i \in 1 .. Len(s.queue[c]),
         NEW p, p = s.queue[c][i], Holding(s, c, p.addr) # {}, NEW victim,
         NEW m \in [Addresses -> Values], NEW req, Right(s, 0, m, req),
         NEW r, r = Hit(s, c, p, victim)
  PROVE  Right(r, 0, m, req)
<1>1. c \in Caches /\ c \in Levels /\ c # "L2"
  BY DEF Caches, Levels
<1>2. p \in PacketSet(c) /\ p.addr \in Addresses
  BY <1>1, QueuedPacket
<1>3. p.type # "writeback"
  BY <1>1, <1>2, PacketFacts
<1>4. PICK x : x = Apply(s, c, p.addr, p)
  OBVIOUS
<1>5. PICK y : y = ToCore(x, p, BlockAt(x, c, p.addr))
  OBVIOUS
<1>6. r = [y EXCEPT !.freed = TRUE]
  BY <1>1, <1>3, <1>4, <1>5 DEF Hit
<1>7. Typed(x) /\ x.abort = s.abort
  BY <1>1, <1>2, <1>4, PacketFacts, ApplyEffect
<1>8. Typed(y) /\ y.abort = s.abort
  <2>1. BlockAt(x, c, p.addr).data \in [Offsets -> Values]
    <3>1. Holding(x, c, p.addr) # {}
      BY <1>1, <1>2, <1>4, PacketFacts, ApplyEffect
    <3>2. QED
      BY <1>1, <1>2, <1>7, <3>1, WayHolds
  <2>2. QED
    BY <1>2, <1>5, <1>7, <2>1, ToCoreEffect
<1>9. /\ r.queue = y.queue /\ r.blocks = y.blocks /\ r.mshr = y.mshr
      /\ r.store = y.store /\ r.abort = y.abort /\ r.out = y.out
  BY <1>6, <1>8 DEF Typed
<1>10. CASE s.abort # "none"
  BY <1>8, <1>9, <1>10 DEF Right
<1>11. CASE s.abort = "none"
  <2>1. c = "L1D" => Mine(p, req)
    BY <1>11 DEF Right, Owned
  <2>2. Right(y, 0, m, req)
    BY <1>2, <1>4, <1>5, <2>1, AnswerRight
  <2>3. QED
    BY <1>9, <2>2, SameRight
<1>12. QED
  BY <1>10, <1>11

\* The L2 takes a write-back: its copy is the image's as the write-back was.
LEMMA AgreeTaken ==
  ASSUME NEW i, NEW d, NEW back, NEW copies, NEW down, NEW stored, NEW image,
         Agree(i, d, back, copies, down, stored, image), NEW data \in back,
         NEW left \in SUBSET back, copies # {}, NEW b, b.data = data, b.dirty
  PROVE  Agree(i, d, left, {b}, down, stored, image)
<1>1. d = {} /\ data = image /\ down = {}
  BY DEF Agree
<1>2. \A x \in left : x = image
  BY DEF Agree
<1>3. QED
  BY <1>1, <1>2 DEF Agree

\* A write-back hits in the L2.
LEMMA HitBackRight ==
  ASSUME NEW s, Typed(s), NEW i \in 1 .. Len(s.queue["L2"]), Ready(s.queue["L2"][i]),
         NEW p, p = s.queue["L2"][i], p.type = "writeback",
         Holding(s, "L2", p.addr) # {}, NEW victim,
         NEW m, NEW req, Right(s, i - 1, m, req),
         NEW r, r = Hit(s, "L2", p, victim)
  PROVE  Right(r, i, m, req)
<1>1. "L2" \in Caches /\ "L2" \in Levels /\ {"L1I", "L1D"} \subseteq Caches \ {"L2"}
  BY DEF Caches, Levels
<1>2. p \in PacketSet("L2") /\ p.addr \in Addresses
  BY <1>1, QueuedPacket
<1>3. PICK q \in Seq(PacketSet("L2")) : q = s.queue["L2"]
  <2>1. s.queue["L2"] \in Seq(PacketSet("L2"))
    BY <1>1 DEF Typed, QueuesTyped
  <2>2. QED
    BY <2>1
<1>4. PICK line \in Lines : line = p.addr /\ BlockAddress(line) = line
  BY <1>1, <1>2, PacketFacts, LineOf
<1>5. PICK x : x = Apply(s, "L2", p.addr, p)
  OBVIOUS
<1>6. /\ Typed(x) /\ x.queue = s.queue /\ x.mshr = s.mshr /\ x.store = s.store
      /\ x.abort = s.abort /\ x.out = s.out
      /\ \A e \in Caches \ {"L2"} : x.blocks[e] = s.blocks[e]
  BY <1>1, <1>2, <1>5, ApplyEffect, SMTT(60)
<1>7. r = [x EXCEPT !.freed = TRUE]
  BY <1>5 DEF Hit
<1>8. /\ r.queue = x.queue /\ r.blocks = x.blocks /\ r.mshr = x.mshr
      /\ r.store = x.store /\ r.abort = x.abort /\ r.out = x.out
  BY <1>6, <1>7 DEF Typed
<1>9. CASE s.abort # "none"
  BY <1>6, <1>8, <1>9 DEF Right
<1>10. CASE s.abort = "none"
  <2>1. PICK image : image = After(m, s.out, req)
    OBVIOUS
  <2>2. /\ Covered(s, i - 1, image) /\ Unique(s) /\ InOrder2(s, i - 1) /\ InOrderMem(s)
        /\ Matched(s) /\ Answered(m, s.out, req) /\ Owned(s, req)
    BY <1>10, <2>1 DEF Right, Coherent, Shaped
  <2>3. PICK b : b = Applied(p, BlockAt(s, "L2", line))
    OBVIOUS
  <2>4. Rewritten(s, "L2", line, b, x)
    BY <1>1, <1>2, <1>4, <1>5, <2>2, <2>3, ApplyCopies
  <2>5. b.data = p.data /\ b.dirty
    <3>1. PICK old : old = BlockAt(s, "L2", line)
      OBVIOUS
    <3>2. old.valid /\ old \in BlockSet("L2", getLocation("L2", line).set)
      BY <1>1, <1>2, <1>4, <3>1, WayHolds
    <3>3. IsWrite(p) /\ p.data \in [Offsets -> Values]
      BY <1>1, <1>2, PacketFacts DEF IsWrite
    <3>4. b.data = Overwritten(p.data, old.data) /\ b.dirty
      BY <1>1, <1>2, <2>3, <3>1, <3>2, <3>3, AppliedTyped
    <3>5. Overwritten(p.data, old.data) = p.data
      BY <3>3 DEF Overwritten
    <3>6. QED
      BY <3>4, <3>5
  <2>6. /\ Copies(x, "L2", line) = {b}
        /\ \A a \in Lines \ {line} : Copies(x, "L2", a) = Copies(s, "L2", a)
        /\ \A a \in Addresses : Holding(x, "L2", a) = Holding(s, "L2", a)
    BY <1>4, <2>4 DEF Rewritten
  <2>7. \A a : Copies(x, "L1I", a) = Copies(s, "L1I", a)
               /\ Copies(x, "L1D", a) = Copies(s, "L1D", a)
    <3>1. x.blocks["L1I"] = s.blocks["L1I"] /\ x.blocks["L1D"] = s.blocks["L1D"]
      BY <1>1, <1>6
    <3>2. \A a : Copies(x, "L1I", a) = Copies(s, "L1I", a)
      BY <3>1, CopiesSame
    <3>3. \A a : Copies(x, "L1D", a) = Copies(s, "L1D", a)
      BY <3>1, CopiesSame
    <3>4. QED
      BY <3>2, <3>3
  <2>8. ASSUME NEW a
        PROVE  /\ Backs(q, i - 1, a) = Backs(q, i, a)
                    \cup (IF Is(p, "writeback", a) THEN {p.data} ELSE {})
               /\ \A kind : Ahead(q, i - 1, kind, a) => Ahead(q, i, kind, a)
    <3>1. i \in 1 .. Len(q) /\ Ready(q[i]) /\ q[i] = p
      BY <1>3
    <3>2. /\ Backs(q, i - 1, a) = Backs(q, i, a)
               \cup (IF Is(q[i], "writeback", a) THEN {q[i].data} ELSE {})
          /\ \A kind : Ahead(q, i - 1, kind, a) => Ahead(q, i, kind, a)
      BY <3>1, PassedKeeps
    <3>3. QED
      BY <3>1, <3>2
  <2>9. \A a \in Lines : /\ ToL2(x, i, a) \subseteq ToL2(s, i - 1, a)
                         /\ a # line => ToL2(x, i, a) = ToL2(s, i - 1, a)
    BY <1>3, <1>4, <1>6, <2>8 DEF ToL2, Is
  <2>10. p.data \in ToL2(s, i - 1, line)
    BY <1>3, <1>4, <2>8 DEF ToL2, Is
  <2>11. ASSUME NEW a \in Lines
         PROVE  AgreeAt(x, i, a, Image(image, a))
    <3>1. ToMem(x, a) = ToMem(s, a) /\ Image(x.store, a) = Image(s.store, a)
      BY <1>6 DEF ToMem
    <3>2. AgreeAt(s, i - 1, a, Image(image, a))
      BY <2>2 DEF Covered
    <3>3. CASE a = line
      <4>1. Copies(s, "L2", line) # {}
        BY <1>1, <1>4, CopyTyped
      <4>2. Agree(Copies(s, "L1I", line), Copies(s, "L1D", line), ToL2(s, i - 1, line),
                  Copies(s, "L2", line), ToMem(s, line), Image(s.store, line),
                  Image(image, line))
        BY <3>2, <3>3 DEF AgreeAt
      <4>3. Agree(Copies(s, "L1I", line), Copies(s, "L1D", line), ToL2(x, i, line),
                  {b}, ToMem(s, line), Image(s.store, line), Image(image, line))
        BY <2>5, <2>9, <2>10, <4>1, <4>2, AgreeTaken
      <4>4. QED
        BY <2>6, <2>7, <3>1, <3>3, <4>3 DEF AgreeAt
    <3>4. CASE a # line
      <4>1. \A c \in Caches : Copies(x, c, a) = Copies(s, c, a)
        BY <2>6, <2>7, <3>4 DEF Caches
      <4>2. SameAt(s, i - 1, x, i, a)
        BY <2>9, <3>1, <3>4, <4>1 DEF SameAt
      <4>3. QED
        BY <3>2, <4>2, AgreeSame
    <3>5. QED
      BY <3>3, <3>4
  <2>12. InOrder2(x, i)
    <3>1. \A a \in Lines :
            /\ Ahead(q, i - 1, "load", a)
            /\ Ahead(s.mshr["L2"][1].sub, 0, "load", a)
            /\ LiveAt(s.mshr["L2"][1].sub, 0, "load", a) # {} => Backs(q, i - 1, a) = {}
      BY <1>3, <2>2 DEF InOrder2
    <3>2. QED
      BY <1>3, <1>6, <2>8, <3>1 DEF InOrder2
  <2>13. Shaped(x, i)
    <3>1. ASSUME NEW d \in Caches, NEW a \in Addresses
          PROVE  Holding(x, d, a) = Holding(s, d, a)
      <4>1. CASE d = "L2"
        BY <2>6, <4>1
      <4>2. CASE d # "L2"
        <5>1. x.blocks[d] = s.blocks[d]
          BY <1>6, <4>2
        <5>2. QED
          BY <5>1, HoldingSame
      <4>3. QED
        BY <4>1, <4>2
    <3>2. Unique(x)
      BY <2>2, <3>1, LineFacts DEF Unique
    <3>3. InOrderMem(x) /\ Matched(x)
      BY <1>6, <2>2 DEF InOrderMem, Matched
    <3>4. QED
      BY <2>12, <3>2, <3>3 DEF Shaped
  <2>14. Owned(x, req)
    BY <1>6, <2>2 DEF Owned
  <2>15. Right(x, i, m, req)
    BY <1>6, <2>1, <2>2, <2>11, <2>13, <2>14 DEF Right, Coherent, Covered
  <2>16. QED
    BY <1>8, <2>15, SameRight
<1>11. QED
  BY <1>9, <1>10

\* The packets of the L2's queue that have been put off: it does not have their lines
\* and no entry of its takes them.
PutOffs(s, k) ==
  \A j \in 1 .. Len(s.queue["L2"]) :
    j <= k /\ ~Ready(s.queue["L2"][j]) =>
      /\ Holding(s, "L2", s.queue["L2"][j].addr) = {}
      /\ ~Takes(s, "L2", s.queue["L2"][j].addr)

\* No write-back of a line is on its way to the L2 when it answers a load of it.
LEMMA NoneToL2 ==
  ASSUME NEW s, Typed(s), NEW i \in 1 .. Len(s.queue["L2"]), Absent(s, "L2"), Shaped(s, i - 1),
         PutOffs(s, i - 1), NEW line \in Lines, Is(s.queue["L2"][i], "load", line),
         Holding(s, "L2", line) # {}
  PROVE  ToL2(s, i - 1, line) = {}
<1>1. "L2" \in Caches /\ "L2" \in Levels /\ 1 \in 1 .. MshrEntries["L2"]
  BY Geometry DEF Caches, Levels
<1>2. PICK q \in Seq(PacketSet("L2")) : q = s.queue["L2"]
  <2>1. s.queue["L2"] \in Seq(PacketSet("L2"))
    BY <1>1 DEF Typed, QueuesTyped
  <2>2. QED
    BY <2>1
<1>3. PICK sub \in Seq(PacketSet("L2")) : sub = s.mshr["L2"][1].sub
  <2>1. s.mshr["L2"][1].sub \in Seq(PacketSet("L2"))
    BY <1>1, SubTyped
  <2>2. QED
    BY <2>1
<1>4. LiveAt(q, i - 1, "writeback", line) = {}
  <2>1. SUFFICES ASSUME NEW j \in LiveAt(q, i - 1, "writeback", line)
                 PROVE  FALSE
    OBVIOUS
  <2>2. j \in 1 .. Len(q) /\ (j > i - 1 \/ ~Ready(q[j])) /\ q[j].addr = line
    BY <2>1 DEF LiveAt, Is
  <2>3. i \in LiveAt(q, i - 1, "load", line)
    <3>1. i > i - 1 /\ i \in 1 .. Len(q) /\ Is(q[i], "load", line)
      BY <1>2
    <3>2. QED
      BY <3>1 DEF LiveAt
  <2>4. Ahead(q, i - 1, "load", line)
    BY <1>2 DEF Shaped, InOrder2
  <2>5. j < i
    BY <2>1, <2>3, <2>4 DEF Ahead
  <2>6. j <= i - 1 /\ ~Ready(q[j])
    BY <2>2, <2>5
  <2>7. Holding(s, "L2", line) = {}
    BY <1>2, <2>2, <2>6 DEF PutOffs
  <2>8. QED
    BY <2>7
<1>5. LiveAt(sub, 0, "writeback", line) = {}
  <2>1. SUFFICES ASSUME NEW j \in LiveAt(sub, 0, "writeback", line)
                 PROVE  FALSE
    OBVIOUS
  <2>2. j \in 1 .. Len(sub) /\ sub[j].addr = line
    BY <2>1 DEF LiveAt, Is
  <2>3. s.mshr["L2"][1].address = line
    <3>1. BlockAddress(sub[j].addr) = s.mshr["L2"][1].address
      BY <1>1, <1>3, <2>2 DEF Shaped, Matched
    <3>2. QED
      BY <2>2, <3>1, LineFacts
  <2>4. sub # <<>>
    BY <2>2
  <2>5. Awaits(s, "L2", line) /\ line \in Addresses
    BY <1>3, <2>3, <2>4, LineFacts DEF Awaits
  <2>6. QED
    BY <2>5 DEF Absent
<1>6. Backs(q, i - 1, line) = {} /\ Backs(sub, 0, line) = {}
  BY <1>4, <1>5 DEF Backs
<1>7. QED
  BY <1>2, <1>3, <1>6 DEF ToL2

\* A read hits in the L2 and is answered to the level 1 cache it is from.
LEMMA HitReadRight ==
  ASSUME NEW s, Typed(s), NEW i \in 1 .. Len(s.queue["L2"]), Ready(s.queue["L2"][i]),
         NEW p, p = s.queue["L2"][i], ~IsWrite(p),
         s.abort = "none" => WholeExact(s, i - 1) /\ PutOffs(s, i - 1),
         Holding(s, "L2", p.addr) # {}, NEW victim, Evicts(victim),
         NEW m \in [Addresses -> Values], NEW req, Right(s, i - 1, m, req),
         NEW r, r = Hit(s, "L2", p, victim)
  PROVE  Right(r, i, m, req)
<1>1. "L2" \in Caches /\ "L2" \in Levels
  BY DEF Caches, Levels
<1>2. p \in PacketSet("L2") /\ p.addr \in Addresses
  BY <1>1, QueuedPacket
<1>3. PICK line \in Lines : line = p.addr /\ BlockAddress(line) = line
  BY <1>1, <1>2, PacketFacts, LineOf
<1>4. PICK c \in {"L1I", "L1D"} : c = PrevOf(p)
  BY <1>2, ReadFrom
<1>5. PICK x : x = Apply(s, "L2", p.addr, p)
  OBVIOUS
<1>6. PICK data : data = BlockAt(x, "L2", p.addr).data
  OBVIOUS
<1>7. PICK y : y = FillL1(x, c, line, data, victim)
  OBVIOUS
<1>8. r = [y EXCEPT !.freed = TRUE]
  BY <1>2, <1>3, <1>4, <1>5, <1>6, <1>7 DEF Hit, IsWrite
<1>9. /\ Typed(x) /\ x.queue = s.queue /\ x.mshr = s.mshr
      /\ x.abort = s.abort /\ Holding(x, "L2", p.addr) # {}
  BY <1>1, <1>2, <1>5, ApplyEffect
<1>10. /\ line \in Addresses /\ BlockOf(line) \in Held(c) /\ data \in [Offsets -> Values]
  <2>1. BlockOf(p.addr) \in Held(PrevOf(p))
    BY <1>1, <1>2, PacketFacts
  <2>2. data \in [Offsets -> Values]
    BY <1>1, <1>2, <1>6, <1>9, WayHolds
  <2>3. QED
    BY <1>3, <1>4, <2>1, <2>2, LineFacts
<1>11. L1Filled(x, c, y)
  BY <1>7, <1>9, <1>10, FillL1Effect
<1>12. Typed(y) /\ (y.abort = "none" => x.abort = "none")
  BY <1>11 DEF L1Filled, May
<1>13. /\ r.queue = y.queue /\ r.blocks = y.blocks /\ r.mshr = y.mshr
       /\ r.store = y.store /\ r.abort = y.abort /\ r.out = y.out
  BY <1>8, <1>12 DEF Typed
<1>14. CASE s.abort # "none"
  BY <1>9, <1>12, <1>13, <1>14 DEF Right
<1>15. CASE s.abort = "none"
  <2>1. WholeExact(s, i - 1) /\ PutOffs(s, i - 1) /\ Shaped(s, i - 1) /\ Unique(s)
    BY <1>15 DEF Right, Coherent, Shaped
  <2>2. AsBefore(s, "L2", p.addr, x)
    BY <1>1, <1>2, <1>5, <2>1, ReadApplied
  <2>3. Right(x, i - 1, m, req)
    BY <2>2, AsBeforeRight
  <2>4. /\ x.out = s.out
        /\ x.blocks["L1I"] = s.blocks["L1I"] /\ x.blocks["L1D"] = s.blocks["L1D"]
        /\ BlockAt(x, "L2", p.addr) \in Copies(x, "L2", line)
        /\ \A d \in Caches : \A a \in Lines : Copies(x, d, a) = Copies(s, d, a)
    BY <1>1, <1>3, <2>2 DEF AsBefore, Caches
  <2>5. HalfExact(x, i - 1)
    <3>1. SameWaiting(s, x, "L2")
      BY <1>9 DEF SameWaiting
    <3>2. HalfExact(s, i - 1)
      BY <2>1 DEF WholeExact
    <3>3. QED
      BY <1>9, <2>4, <3>1, <3>2, HalfSame
  <2>6. Is(p, KindOf(c), line)
    <3>1. \A d \in {"L1I", "L1D"} : \A a :
            Is(p, KindOf(d), a) <=> d = PrevOf(p) /\ a = p.addr
      BY <1>2, ReadFrom
    <3>2. QED
      BY <1>3, <1>4, <3>1
  <2>7. Awaits(x, c, line)
    <3>1. i \in LiveAt(x.queue["L2"], i - 1, KindOf(c), line)
      <4>1. i > i - 1 /\ x.queue["L2"][i] = p /\ i \in 1 .. Len(x.queue["L2"])
        BY <1>9
      <4>2. QED
        BY <2>6, <4>1 DEF LiveAt
    <3>2. Typed(x) /\ LiveAt(x.queue["L2"], i - 1, KindOf(c), line) # {}
      BY <1>9, <3>1, Zenon
    <3>3. QED
      BY <2>5, <3>2, ReadAwaited
  <2>8. c = "L1D" => ToL2(x, i - 1, line) = {}
    <3>1. ASSUME c = "L1D"
          PROVE  ToL2(s, i - 1, line) = {}
      <4>1. Is(s.queue["L2"][i], "load", line)
        BY <2>6, <3>1 DEF KindOf
      <4>2. Holding(s, "L2", line) # {} /\ Absent(s, "L2")
        BY <1>3, <2>1 DEF WholeExact
      <4>3. QED
        BY <2>1, <4>1, <4>2, NoneToL2
    <3>2. QED
      BY <1>9, <3>1 DEF ToL2
  <2>9. Fillable(x, i - 1, c, line, data, After(m, x.out, req))
    <3>1. BlockAt(x, "L2", p.addr) \in Copies(x, "L2", line)
      BY <2>4
    <3>2. Covered(x, i - 1, After(m, x.out, req))
      BY <1>9, <1>15, <2>3 DEF Right, Coherent
    <3>3. QED
      BY <1>2, <1>3, <1>4, <1>6, <1>9, <2>5, <2>7, <2>8, <3>1, <3>2, ReadFillable
  <2>10. Right(y, i - 1, m, req)
    BY <1>3, <1>7, <1>9, <1>10, <2>3, <2>9, FillL1Right
  <2>11. Right(y, i, m, req)
    <3>1. Grown("L2", x.queue["L2"], y.queue["L2"])
      BY <1>11 DEF L1Filled
    <3>2. y.queue["L2"][i] = p /\ i \in 1 .. Len(y.queue["L2"])
      <4>1. s.queue["L2"] \in Seq(PacketSet("L2")) /\ y.queue["L2"] \in Seq(PacketSet("L2"))
        BY <1>1, <1>12 DEF Typed, QueuesTyped
      <4>2. QED
        BY <1>9, <3>1, <4>1 DEF Grown
    <3>3. Ready(y.queue["L2"][i]) /\ y.queue["L2"][i].type # "writeback"
      BY <3>2 DEF IsWrite
    <3>4. QED
      BY <1>12, <2>10, <3>2, <3>3, PassedRight
  <2>12. QED
    BY <1>13, <2>11, SameRight
<1>16. QED
  BY <1>14, <1>15

\* A packet that is put off keeps its place.
LEMMA PutOffKeeps ==
  ASSUME NEW c \in Levels, NEW q \in Seq(PacketSet(c)), NEW i \in 1 .. Len(q), NEW r,
         Len(r) = Len(q), \A j \in (1 .. Len(q)) \ {i} : r[j] = q[j],
         r[i] = [q[i] EXCEPT !.ready = 1]
  PROVE  /\ \A kind, a : LiveAt(r, i, kind, a) = LiveAt(q, i - 1, kind, a)
         /\ \A a : Backs(r, i, a) = Backs(q, i - 1, a)
         /\ \A j \in 1 .. Len(q) : SamePacket(r[j], q[j])
<1>1. /\ r[i].type = q[i].type /\ r[i].addr = q[i].addr /\ r[i].data = q[i].data
      /\ ~Ready(r[i])
  <2>1. q[i] \in PacketSet(c)
    OBVIOUS
  <2>2. /\ r[i].type = q[i].type /\ r[i].addr = q[i].addr /\ r[i].data = q[i].data
        /\ r[i].ready = 1
    BY <2>1, PutOffTyped
  <2>3. QED
    BY <2>2 DEF Ready
<1>2. \A j \in 1 .. Len(q) : SamePacket(r[j], q[j])
  BY <1>1 DEF SamePacket
<1>3. \A j \in 1 .. Len(q) : (j > i \/ ~Ready(r[j])) <=> (j > i - 1 \/ ~Ready(q[j]))
  <2> TAKE j \in 1 .. Len(q)
  <2>1. CASE j = i
    BY <1>1, <2>1
  <2>2. CASE j # i
    <3>1. r[j] = q[j] /\ (j > i <=> j > i - 1)
      BY <2>2
    <3>2. QED
      BY <3>1
  <2>3. QED
    BY <2>1, <2>2
<1>4. \A kind, a : LiveAt(r, i, kind, a) = LiveAt(q, i - 1, kind, a)
  BY <1>2, <1>3 DEF LiveAt, Is, SamePacket
<1>5. ASSUME NEW a
      PROVE  Backs(r, i, a) = Backs(q, i - 1, a)
  <2>1. \A j \in LiveAt(q, i - 1, "writeback", a) : r[j].data = q[j].data
    BY <1>2 DEF LiveAt, SamePacket
  <2>2. LiveAt(r, i, "writeback", a) = LiveAt(q, i - 1, "writeback", a)
    BY <1>4
  <2>3. QED
    BY <2>1, <2>2 DEF Backs
<1>6. QED
  BY <1>2, <1>4, <1>5

\* A miss is put off.
LEMMA PutOffRight ==
  ASSUME NEW s, Typed(s), NEW c \in Caches, NEW i \in 1 .. Len(s.queue[c]),
         NEW m, NEW req, Right(s, Passes(c, i - 1), m, req),
         NEW r, r.blocks = s.blocks, r.store = s.store, r.out = s.out, PutOff(s, c, i, r)
  PROVE  Right(r, Passes(c, i), m, req)
<1>1. c \in Levels /\ "L2" \in Levels /\ "L1D" \in Levels /\ "Mem" \in Levels \ {c}
  BY DEF Caches, Levels
<1>2. PICK q \in Seq(PacketSet(c)) : q = s.queue[c]
  <2>1. s.queue[c] \in Seq(PacketSet(c))
    BY <1>1 DEF Typed, QueuesTyped
  <2>2. QED
    BY <2>1
<1>3. /\ r.mshr = s.mshr /\ r.abort = s.abort
      /\ \A d \in Levels \ {c} : r.queue[d] = s.queue[d]
      /\ Len(r.queue[c]) = Len(q)
      /\ \A j \in (1 .. Len(q)) \ {i} : r.queue[c][j] = q[j]
      /\ r.queue[c][i] = [q[i] EXCEPT !.ready = 1]
  BY <1>2 DEF PutOff
<1>4. /\ \A kind, a : LiveAt(r.queue[c], i, kind, a) = LiveAt(q, i - 1, kind, a)
      /\ \A a : Backs(r.queue[c], i, a) = Backs(q, i - 1, a)
      /\ \A j \in 1 .. Len(q) : SamePacket(r.queue[c][j], q[j])
  <2>1. PICK t : t = r.queue[c]
    OBVIOUS
  <2>2. Len(t) = Len(q) /\ i \in 1 .. Len(q)
    BY <1>2, <1>3, <2>1
  <2>3. \A j \in (1 .. Len(q)) \ {i} : t[j] = q[j]
    BY <1>3, <2>1
  <2>4. t[i] = [q[i] EXCEPT !.ready = 1]
    BY <1>3, <2>1
  <2>5. /\ \A kind, a : LiveAt(t, i, kind, a) = LiveAt(q, i - 1, kind, a)
        /\ \A a : Backs(t, i, a) = Backs(q, i - 1, a)
        /\ \A j \in 1 .. Len(q) : SamePacket(t[j], q[j])
    BY <1>1, <2>2, <2>3, <2>4, PutOffKeeps
  <2>6. QED
    BY <2>1, <2>5
<1>5. /\ \A kind, a : LiveAt(r.queue["L2"], Passes(c, i), kind, a)
                        = LiveAt(s.queue["L2"], Passes(c, i - 1), kind, a)
      /\ \A a : Backs(r.queue["L2"], Passes(c, i), a)
                  = Backs(s.queue["L2"], Passes(c, i - 1), a)
  <2>1. CASE c = "L2"
    BY <1>2, <1>4, <2>1 DEF Passes
  <2>2. CASE c # "L2"
    <3>1. r.queue["L2"] = s.queue["L2"]
      BY <1>1, <1>3, <2>2
    <3>2. QED
      BY <2>2, <3>1 DEF Passes
  <2>3. QED
    BY <2>1, <2>2
<1>6. ASSUME s.abort = "none"
      PROVE  Arranged(s, Passes(c, i - 1), r, Passes(c, i), req)
  <2>1. /\ InOrder2(s, Passes(c, i - 1)) /\ InOrderMem(s) /\ Matched(s) /\ Owned(s, req)
    BY <1>6 DEF Right, Coherent, Shaped
  <2>2. r.queue["Mem"] = s.queue["Mem"]
    BY <1>1, <1>3
  <2>3. InOrderMem(r) /\ Matched(r) /\ \A a : ToMem(r, a) = ToMem(s, a)
    BY <1>3, <2>1, <2>2 DEF InOrderMem, Matched, ToMem
  <2>4. InOrder2(r, Passes(c, i))
    BY <1>3, <1>5, <2>1 DEF InOrder2, Ahead
  <2>5. \A a : ToL2(r, Passes(c, i), a) = ToL2(s, Passes(c, i - 1), a)
    BY <1>3, <1>5 DEF ToL2
  <2>6. Owned(r, req)
    <3>1. CASE c = "L1D"
      <4>1. \A j \in 1 .. Len(q) : Mine(q[j], req)
        BY <1>2, <2>1, <3>1 DEF Owned
      <4>2. \A j \in 1 .. Len(q) : Mine(r.queue[c][j], req)
        BY <1>4, <4>1 DEF Mine, SamePacket
      <4>3. QED
        BY <1>3, <2>1, <3>1, <4>2 DEF Owned
    <3>2. CASE c # "L1D"
      <4>1. r.queue["L1D"] = s.queue["L1D"]
        BY <1>1, <1>3, <3>2
      <4>2. QED
        BY <1>3, <2>1, <4>1 DEF Owned
    <3>3. QED
      BY <3>1, <3>2
  <2>7. QED
    BY <2>3, <2>4, <2>5, <2>6 DEF Arranged
<1>7. r.abort = "none" => s.abort = "none" /\ Arranged(s, Passes(c, i - 1), r, Passes(c, i), req)
  BY <1>3, <1>6
<1>8. QED
  BY <1>7, ArrangedRight

\* An entry that takes a packet is for its line.
LEMMA TakenMatched ==
  ASSUME NEW s, Typed(s), Matched(s), NEW c \in Caches, NEW p \in PacketSet(c), NEW r,
         EntryTaken(s, c, 1, p, r),
         s.mshr[c][1].sub = <<>> \/ s.mshr[c][1].address = BlockAddress(p.addr)
  PROVE  Matched(r)
<1>1. PICK sub \in Seq(PacketSet(c)) : sub = s.mshr[c][1].sub
  <2>1. s.mshr[c][1].sub \in Seq(PacketSet(c))
    BY SubTyped DEF EntryTaken
  <2>2. QED
    BY <2>1
<1>2. /\ r.mshr[c][1].sub = Append(sub, p) /\ r.mshr[c][1].address = BlockAddress(p.addr)
      /\ \A d \in Caches \ {c} : r.mshr[d] = s.mshr[d]
  BY <1>1 DEF EntryTaken
<1>3. \A l \in 1 .. Len(sub) : BlockAddress(sub[l].addr) = BlockAddress(p.addr)
  <2>1. CASE sub = <<>>
    BY <2>1
  <2>2. CASE sub # <<>>
    BY <1>1, <2>2 DEF Matched
  <2>3. QED
    BY <2>1, <2>2
<1>4. \A l \in 1 .. Len(Append(sub, p)) :
        BlockAddress(Append(sub, p)[l].addr) = BlockAddress(p.addr)
  <2> TAKE l \in 1 .. Len(Append(sub, p))
  <2>1. CASE l \in 1 .. Len(sub)
    BY <1>3, <2>1
  <2>2. CASE l = Len(sub) + 1
    BY <2>2
  <2>3. QED
    BY <2>1, <2>2
<1>5. QED
  BY <1>2, <1>4 DEF Matched

\* It is the core's request, if the cache is the L1D.
LEMMA TakenOwned ==
  ASSUME NEW s, Typed(s), NEW req, Owned(s, req), NEW c \in Caches,
         NEW i \in 1 .. Len(s.queue[c]), NEW r, r.queue["L1D"] = s.queue["L1D"],
         EntryTaken(s, c, 1, s.queue[c][i], r)
  PROVE  Owned(r, req)
<1>1. CASE c = "L1D"
  <2>1. PICK p \in PacketSet("L1D") : p = s.queue["L1D"][i]
    BY <1>1, QueuedPacket
  <2>2. PICK sub \in Seq(PacketSet("L1D")) : sub = s.mshr["L1D"][1].sub
    <3>1. s.mshr["L1D"][1].sub \in Seq(PacketSet("L1D"))
      BY <1>1, SubTyped DEF EntryTaken
    <3>2. QED
      BY <3>1
  <2>3. Mine(p, req) /\ \A l \in 1 .. Len(sub) : Mine(sub[l], req)
    BY <1>1, <2>1, <2>2 DEF Owned
  <2>4. \A l \in 1 .. Len(Append(sub, p)) : Mine(Append(sub, p)[l], req)
    <3> TAKE l \in 1 .. Len(Append(sub, p))
    <3>1. CASE l \in 1 .. Len(sub)
      BY <2>3, <3>1
    <3>2. CASE l = Len(sub) + 1
      BY <2>3, <3>2
    <3>3. QED
      BY <3>1, <3>2
  <2>5. r.mshr["L1D"][1].sub = Append(sub, p)
    BY <1>1, <2>1, <2>2 DEF EntryTaken
  <2>6. QED
    BY <2>4, <2>5 DEF Owned
<1>2. CASE c # "L1D"
  <2>1. r.mshr["L1D"] = s.mshr["L1D"]
    BY <1>2 DEF EntryTaken, Caches
  <2>2. QED
    BY <2>1 DEF Owned
<1>3. QED
  BY <1>1, <1>2

\* Only the first entry can take a packet.
LEMMA FirstTakes ==
  ASSUME NEW s, Typed(s), NEW c \in Caches, NEW p \in PacketSet(c), NEW r, Alone(r),
         Joined(s, c, p, r) \/ Issued(s, c, p, r)
  PROVE  /\ EntryTaken(s, c, 1, p, r)
         /\ s.mshr[c][1].sub = <<>> \/ s.mshr[c][1].address = BlockAddress(p.addr)
<1>1. \A j : EntryTaken(s, c, j, p, r) => j = 1
  BY TakesFirst
<1>2. CASE Joined(s, c, p, r)
  <2>1. \E j \in 1 .. MshrEntries[c] :
          EntryTaken(s, c, j, p, r) /\ s.mshr[c][j].address = BlockAddress(p.addr)
    BY <1>2 DEF Joined
  <2>2. QED
    BY <1>1, <2>1
<1>3. CASE Issued(s, c, p, r)
  <2>1. \E j \in 1 .. MshrEntries[c] : EntryTaken(s, c, j, p, r) /\ s.mshr[c][j].sub = <<>>
    BY <1>3 DEF Issued
  <2>2. QED
    BY <1>1, <2>1
<1>4. QED
  BY <1>2, <1>3

\* A miss of a level 1 cache's is taken by its entry, which may ask the L2.
LEMMA TakenL1Right ==
  ASSUME NEW s, Typed(s), NEW c \in {"L1I", "L1D"}, NEW i \in 1 .. Len(s.queue[c]),
         NEW m, NEW req, Right(s, 0, m, req),
         NEW r, Alone(r), r.blocks = s.blocks, r.store = s.store, r.out = s.out,
         Joined(s, c, s.queue[c][i], r) \/ Issued(s, c, s.queue[c][i], r)
  PROVE  Right(r, 0, m, req)
<1>1. c \in Caches /\ c # "L2" /\ "L2" \in Caches \ {c} /\ "L2" \in Levels /\ Next1(c) = "L2"
      /\ "Mem" \in Levels \ {"L2"} /\ "L1D" \in Levels \ {"L2"}
  BY DEF Caches, Levels, Next1
<1>2. PICK p \in PacketSet(c) : p = s.queue[c][i]
  BY <1>1, QueuedPacket
<1>3. /\ EntryTaken(s, c, 1, p, r)
      /\ s.mshr[c][1].sub = <<>> \/ s.mshr[c][1].address = BlockAddress(p.addr)
  BY <1>1, <1>2, FirstTakes, ZenonT(60)
<1>4. PICK q \in Seq(PacketSet("L2")) : q = s.queue["L2"]
  <2>1. s.queue["L2"] \in Seq(PacketSet("L2"))
    BY <1>1 DEF Typed, QueuesTyped
  <2>2. QED
    BY <2>1
<1>5. ASSUME r.abort = "none"
      PROVE  /\ s.abort = "none"
             /\ \A d \in Levels \ {"L2"} : r.queue[d] = s.queue[d]
             /\ \/ r.queue["L2"] = q
                \/ \E x \in PacketSet("L2") :
                     ~IsWrite(x) /\ ~Ready(x) /\ r.queue["L2"] = Append(q, x)
  <2>1. CASE Joined(s, c, p, r)
    BY <1>4, <1>5, <2>1 DEF Joined
  <2>2. CASE Issued(s, c, p, r)
    <3>1. PICK x \in PacketSet("L2") :
            /\ ~IsWrite(x) /\ x.ready = Delay["L2"]
            /\ r.queue["L2"] = Append(q, x) /\ r.abort = s.abort
      BY <1>1, <1>4, <1>5, <2>2 DEF Issued
    <3>2. ~Ready(x)
      BY <1>1, <3>1, Geometry DEF Ready
    <3>3. \A d \in Levels \ {"L2"} : r.queue[d] = s.queue[d]
      BY <1>1, <2>2 DEF Issued
    <3>4. QED
      BY <1>5, <3>1, <3>2, <3>3
  <2>3. QED
    BY <1>2, <2>1, <2>2
<1>6. ASSUME r.abort = "none"
      PROVE  Arranged(s, 0, r, 0, req)
  <2>1. s.abort = "none" /\ \A d \in Levels \ {"L2"} : r.queue[d] = s.queue[d]
    BY <1>5, <1>6
  <2>2. InOrder2(s, 0) /\ InOrderMem(s) /\ Matched(s) /\ Owned(s, req)
    BY <2>1 DEF Right, Coherent, Shaped
  <2>3. r.queue["Mem"] = s.queue["Mem"] /\ r.queue["L1D"] = s.queue["L1D"]
    BY <1>1, <2>1
  <2>4. r.mshr["L2"] = s.mshr["L2"]
    BY <1>1, <1>3 DEF EntryTaken
  <2>5. ASSUME NEW a
        PROVE  /\ Backs(r.queue["L2"], 0, a) = Backs(q, 0, a)
               /\ Ahead(q, 0, "load", a) => Ahead(r.queue["L2"], 0, "load", a)
    <3>1. CASE r.queue["L2"] = q
      BY <3>1
    <3>2. CASE \E x \in PacketSet("L2") :
                 ~IsWrite(x) /\ ~Ready(x) /\ r.queue["L2"] = Append(q, x)
      <4>1. PICK x \in PacketSet("L2") :
                 ~IsWrite(x) /\ ~Ready(x) /\ r.queue["L2"] = Append(q, x)
        BY <3>2
      <4>2. LastJoins(q, 0, x, r.queue["L2"], a)
        BY <4>1, LastKeeps
      <4>3. ~Is(x, "writeback", a)
        BY <4>1 DEF Is, IsWrite
      <4>4. QED
        BY <4>2, <4>3 DEF LastJoins
    <3>3. QED
      BY <1>5, <1>6, <3>1, <3>2
  <2>6. InOrder2(r, 0)
    BY <1>4, <2>2, <2>4, <2>5 DEF InOrder2
  <2>7. \A a : ToL2(r, 0, a) = ToL2(s, 0, a) /\ ToMem(r, a) = ToMem(s, a)
    BY <1>4, <2>3, <2>4, <2>5 DEF ToL2, ToMem
  <2>8. InOrderMem(r)
    BY <2>2, <2>3 DEF InOrderMem
  <2>9. Matched(r)
    BY <1>1, <1>3, <2>2, TakenMatched
  <2>10. Owned(r, req)
    BY <1>1, <1>2, <1>3, <2>2, <2>3, TakenOwned
  <2>11. QED
    BY <2>6, <2>7, <2>8, <2>9, <2>10 DEF Arranged
<1>7. r.abort = "none" => s.abort = "none" /\ Arranged(s, 0, r, 0, req)
  BY <1>5, <1>6
<1>8. QED
  BY <1>7, ArrangedRight

\* Whether an entry takes a miss depends on its line.
LEMMA TakesLine ==
  ASSUME NEW s, NEW c, NEW a, NEW b, BlockAddress(a) = BlockAddress(b)
  PROVE  Takes(s, c, a) <=> Takes(s, c, b)
BY DEF Takes, Matching

\* A miss that could not be taken cannot be once the entry has taken one of
\* another line.
LEMMA BusyTakes ==
  ASSUME NEW s, Typed(s), NEW p \in PacketSet("L2"), NEW r, Typed(r), Alone(r),
         EntryTaken(s, "L2", 1, p, r),
         s.mshr["L2"][1].sub = <<>> \/ s.mshr["L2"][1].address = BlockAddress(p.addr),
         r.mshr["L2"][1].sub # <<>>,
         Len(s.queue["Mem"]) <= Len(r.queue["Mem"]),
         NEW a, BlockAddress(a) # BlockAddress(p.addr), ~Takes(s, "L2", a)
  PROVE  ~Takes(r, "L2", a)
<1>1. "L2" \in Caches /\ Next1("L2") = "Mem" /\ "Mem" \in Levels
  BY DEF Caches, Levels, Next1
<1>2. DOMAIN s.mshr["L2"] = 1 .. MshrEntries["L2"] /\ DOMAIN r.mshr["L2"] = 1 .. MshrEntries["L2"]
  BY <1>1 DEF Typed, MshrTyped
<1>3. /\ r.mshr["L2"][1].address = BlockAddress(p.addr)
      /\ \A k \in (1 .. MshrEntries["L2"]) \ {1} : r.mshr["L2"][k] = s.mshr["L2"][k]
  BY DEF EntryTaken
<1>4. \A k \in (1 .. MshrEntries["L2"]) \ {1} : r.mshr["L2"][k].sub = <<>>
  <2>1. (1 .. MshrEntries["L2"]) \ {1} = 2 .. MshrEntries["L2"]
    BY <1>1, Geometry
  <2>2. QED
    BY <1>1, <2>1 DEF Alone
<1>5. Matching(s, "L2", a) = {} /\ Matching(r, "L2", a) = {}
  BY <1>2, <1>3, <1>4 DEF Matching, Entries
<1>6. FreeEntries(r, "L2") \subseteq FreeEntries(s, "L2")
  BY <1>2, <1>3 DEF FreeEntries
<1>7. Refused(s, "Mem", BlockAddress(a)) => Refused(r, "Mem", BlockAddress(a))
  <2>1. Len(s.queue["Mem"]) \in Nat /\ Len(r.queue["Mem"]) \in Nat
    <3>1. s.queue["Mem"] \in Seq(PacketSet("Mem")) /\ r.queue["Mem"] \in Seq(PacketSet("Mem"))
      BY <1>1 DEF Typed, QueuesTyped
    <3>2. QED
      BY <3>1
  <2>2. QueueCap["Mem"] \in Nat
    BY <1>1, Geometry
  <2>3. HasRoom(r, "Mem") => HasRoom(s, "Mem")
    BY <2>1, <2>2 DEF HasRoom
  <2>4. QED
    BY <2>3 DEF Refused
<1>8. QED
  BY <1>1, <1>5, <1>6, <1>7 DEF Takes

\* The order of the packets of the L2's queue and entry, and its write-backs, when its
\* entry takes the i-th.
LEMMA TakenInOrder ==
  ASSUME NEW s, Typed(s), NEW i \in 1 .. Len(s.queue["L2"]), Ready(s.queue["L2"][i]),
         NEW p, p = s.queue["L2"][i], InOrder2(s, i - 1), PutOffs(s, i - 1),
         Takes(s, "L2", p.addr), NEW r, r.queue["L2"] = s.queue["L2"],
         EntryTaken(s, "L2", 1, p, r)
  PROVE  /\ InOrder2(r, i)
         /\ \A a \in Lines : ToL2(r, i, a) = ToL2(s, i - 1, a)
<1>1. "L2" \in Caches /\ "L2" \in Levels
  BY DEF Caches, Levels
<1>2. PICK q \in Seq(PacketSet("L2")) : q = s.queue["L2"]
  <2>1. s.queue["L2"] \in Seq(PacketSet("L2"))
    BY <1>1 DEF Typed, QueuesTyped
  <2>2. QED
    BY <2>1
<1>3. PICK sub \in Seq(PacketSet("L2")) : sub = s.mshr["L2"][1].sub
  <2>1. s.mshr["L2"][1].sub \in Seq(PacketSet("L2"))
    BY <1>1, SubTyped DEF EntryTaken
  <2>2. QED
    BY <2>1
<1>4. i \in 1 .. Len(q) /\ Ready(q[i]) /\ q[i] = p /\ p \in PacketSet("L2")
  BY <1>2
<1>5. PICK new : new = Append(sub, p)
  OBVIOUS
<1>6. r.mshr["L2"][1].sub = new /\ r.queue["L2"] = q
  BY <1>2, <1>3, <1>5 DEF EntryTaken
<1>7. ASSUME NEW a
      PROVE  /\ Backs(q, i - 1, a) = Backs(q, i, a)
                  \cup (IF Is(p, "writeback", a) THEN {p.data} ELSE {})
             /\ \A kind : Is(p, kind, a) => i \in LiveAt(q, i - 1, kind, a)
             /\ \A kind : Ahead(q, i - 1, kind, a) => Ahead(q, i, kind, a)
  <2>1. /\ Backs(q, i - 1, a) = Backs(q, i, a)
             \cup (IF Is(q[i], "writeback", a) THEN {q[i].data} ELSE {})
        /\ \A kind : Is(q[i], kind, a) => i \in LiveAt(q, i - 1, kind, a)
        /\ \A kind : Ahead(q, i - 1, kind, a) => Ahead(q, i, kind, a)
    BY <1>4, PassedKeeps
  <2>2. QED
    BY <1>4, <2>1
<1>8. \A a : LastJoins(sub, 0, p, new, a)
  BY <1>4, <1>5, LastKeeps
<1>9. PutLast(sub, 0, p, new)
  BY <1>4, <1>5, LastLive
<1>10. ASSUME NEW a \in Lines
       PROVE  ToL2(r, i, a) = ToL2(s, i - 1, a)
  <2>1. Backs(new, 0, a) = Backs(sub, 0, a)
                             \cup (IF Is(p, "writeback", a) THEN {p.data} ELSE {})
    BY <1>8 DEF LastJoins
  <2>2. ToL2(r, i, a) = Backs(q, i, a) \cup Backs(new, 0, a)
    BY <1>6 DEF ToL2
  <2>3. ToL2(s, i - 1, a) = Backs(q, i - 1, a) \cup Backs(sub, 0, a)
    BY <1>2, <1>3 DEF ToL2
  <2>4. Backs(q, i - 1, a) = Backs(q, i, a)
          \cup (IF Is(p, "writeback", a) THEN {p.data} ELSE {})
    BY <1>7
  <2>5. QED
    BY <2>1, <2>2, <2>3, <2>4
<1>11. ASSUME NEW a \in Lines
       PROVE  /\ Ahead(q, i - 1, "load", a) /\ Ahead(sub, 0, "load", a)
              /\ LiveAt(sub, 0, "load", a) # {} => Backs(q, i - 1, a) = {}
  BY <1>2, <1>3 DEF InOrder2
<1>12. ASSUME NEW a \in Lines
       PROVE  Ahead(new, 0, "load", a)
  <2>1. Is(p, "writeback", a) => LiveAt(sub, 0, "load", a) = {}
    <3>1. ASSUME Is(p, "writeback", a)
          PROVE  Backs(q, i - 1, a) # {}
      BY <1>7, <3>1
    <3>2. QED
      BY <1>11, <3>1
  <2>2. QED
    BY <1>8, <1>11, <2>1 DEF LastJoins
<1>13. ASSUME NEW a \in Lines, LiveAt(new, 0, "load", a) # {}
       PROVE  Backs(q, i, a) = {}
  <2>1. CASE LiveAt(sub, 0, "load", a) # {}
    <3>1. Backs(q, i - 1, a) = {}
      BY <1>11, <2>1
    <3>2. QED
      BY <1>7, <3>1
  <2>2. CASE LiveAt(sub, 0, "load", a) = {}
    <3>1. Is(p, "load", a)
      BY <1>9, <1>13, <2>2 DEF PutLast
    <3>2. LiveAt(q, i - 1, "writeback", a) = {}
      <4>1. SUFFICES ASSUME NEW j \in LiveAt(q, i - 1, "writeback", a)
                     PROVE  FALSE
        OBVIOUS
      <4>2. j \in 1 .. Len(q) /\ (j > i - 1 \/ ~Ready(q[j])) /\ q[j].addr = a
        BY <4>1 DEF LiveAt, Is
      <4>3. j < i
        BY <1>7, <1>11, <3>1, <4>1 DEF Ahead
      <4>4. j <= i - 1 /\ ~Ready(q[j])
        BY <4>2, <4>3
      <4>5. ~Takes(s, "L2", a)
        BY <1>2, <4>2, <4>4 DEF PutOffs
      <4>6. p.addr = a
        BY <3>1 DEF Is
      <4>7. QED
        BY <4>5, <4>6
    <3>3. Backs(q, i - 1, a) = {}
      BY <3>2 DEF Backs
    <3>4. QED
      BY <1>7, <3>3
  <2>3. QED
    BY <2>1, <2>2
<1>14. InOrder2(r, i)
  <2>1. \A a \in Lines : Ahead(q, i, "load", a)
    BY <1>7, <1>11
  <2>2. QED
    BY <1>6, <1>12, <1>13, <2>1 DEF InOrder2
<1>15. QED
  BY <1>10, <1>14

\* A miss of the L2's is taken by its entry, which may ask memory.
LEMMA TakenL2Right ==
  ASSUME NEW s, Typed(s), NEW i \in 1 .. Len(s.queue["L2"]),
         Ready(s.queue["L2"][i]), NEW p, p = s.queue["L2"][i],
         s.abort = "none" => PutOffs(s, i - 1), Takes(s, "L2", p.addr),
         NEW m, NEW req, Right(s, i - 1, m, req),
         NEW r, Alone(r), r.blocks = s.blocks, r.store = s.store, r.out = s.out,
         Joined(s, "L2", p, r) \/ Issued(s, "L2", p, r)
  PROVE  Right(r, i, m, req)
<1>1. "L2" \in Caches /\ "L2" \in Levels \ {"Mem"} /\ Next1("L2") = "Mem"
      /\ "Mem" \in Levels /\ "L1D" \in Levels \ {"Mem"}
  BY DEF Caches, Levels, Next1
<1>2. p \in PacketSet("L2")
  BY <1>1, QueuedPacket
<1>3. /\ EntryTaken(s, "L2", 1, p, r)
      /\ s.mshr["L2"][1].sub = <<>> \/ s.mshr["L2"][1].address = BlockAddress(p.addr)
  BY <1>1, <1>2, FirstTakes
<1>4. PICK q \in Seq(PacketSet("Mem")) : q = s.queue["Mem"]
  <2>1. s.queue["Mem"] \in Seq(PacketSet("Mem"))
    BY <1>1 DEF Typed, QueuesTyped
  <2>2. QED
    BY <2>1
<1>5. ASSUME r.abort = "none"
      PROVE  /\ s.abort = "none"
             /\ \A d \in Levels \ {"Mem"} : r.queue[d] = s.queue[d]
             /\ \/ r.queue["Mem"] = q
                \/ \E x \in PacketSet("Mem") :
                     ~IsWrite(x) /\ ~Ready(x) /\ r.queue["Mem"] = Append(q, x)
  <2>1. CASE Joined(s, "L2", p, r)
    BY <1>4, <1>5, <2>1 DEF Joined
  <2>2. CASE Issued(s, "L2", p, r)
    <3>1. PICK x \in PacketSet("Mem") :
            /\ ~IsWrite(x) /\ x.ready = Delay["Mem"]
            /\ r.queue["Mem"] = Append(q, x) /\ r.abort = s.abort
      BY <1>1, <1>4, <1>5, <2>2 DEF Issued
    <3>2. ~Ready(x)
      BY <1>1, <3>1, Geometry DEF Ready
    <3>3. \A d \in Levels \ {"Mem"} : r.queue[d] = s.queue[d]
      BY <1>1, <2>2 DEF Issued
    <3>4. QED
      BY <1>5, <3>1, <3>2, <3>3
  <2>3. QED
    BY <2>1, <2>2
<1>6. ASSUME r.abort = "none"
      PROVE  Arranged(s, i - 1, r, i, req)
  <2>1. s.abort = "none" /\ \A d \in Levels \ {"Mem"} : r.queue[d] = s.queue[d]
    BY <1>5, <1>6
  <2>2. InOrder2(s, i - 1) /\ InOrderMem(s) /\ Matched(s) /\ Owned(s, req)
        /\ PutOffs(s, i - 1)
    BY <2>1 DEF Right, Coherent, Shaped
  <2>3. r.queue["L2"] = s.queue["L2"] /\ r.queue["L1D"] = s.queue["L1D"]
    BY <1>1, <2>1
  <2>4. /\ InOrder2(r, i) /\ \A a \in Lines : ToL2(r, i, a) = ToL2(s, i - 1, a)
    BY <1>3, <2>2, <2>3, TakenInOrder
  <2>5. ASSUME NEW a
        PROVE  /\ Backs(r.queue["Mem"], 0, a) = Backs(q, 0, a)
               /\ \A kind \in {"fetch", "load"} :
                    Ahead(q, 0, kind, a) => Ahead(r.queue["Mem"], 0, kind, a)
    <3>1. CASE r.queue["Mem"] = q
      BY <3>1
    <3>2. CASE \E x \in PacketSet("Mem") :
                 ~IsWrite(x) /\ ~Ready(x) /\ r.queue["Mem"] = Append(q, x)
      <4>1. PICK x \in PacketSet("Mem") :
                 ~IsWrite(x) /\ ~Ready(x) /\ r.queue["Mem"] = Append(q, x)
        BY <3>2
      <4>2. LastJoins(q, 0, x, r.queue["Mem"], a)
        BY <4>1, LastKeeps
      <4>3. ~Is(x, "writeback", a)
        BY <4>1 DEF Is, IsWrite
      <4>4. QED
        BY <4>2, <4>3 DEF LastJoins
    <3>3. QED
      BY <1>5, <1>6, <3>1, <3>2
  <2>6. InOrderMem(r) /\ \A a : ToMem(r, a) = ToMem(s, a)
    BY <1>4, <2>2, <2>5 DEF InOrderMem, ToMem
  <2>7. Matched(r)
    BY <1>1, <1>2, <1>3, <2>2, TakenMatched
  <2>8. Owned(r, req)
    BY <1>1, <1>3, <2>2, <2>3, TakenOwned
  <2>9. QED
    BY <2>4, <2>6, <2>7, <2>8 DEF Arranged
<1>7. r.abort = "none" => s.abort = "none" /\ Arranged(s, i - 1, r, i, req)
  BY <1>5, <1>6
<1>8. QED
  BY <1>7, ArrangedRight

\* Whether an entry takes a miss depends on the entries and the queue below.
LEMMA TakesSame ==
  ASSUME NEW s, NEW r, NEW c, r.mshr[c] = s.mshr[c],
         r.queue[Next1(c)] = s.queue[Next1(c)], NEW a
  PROVE  Takes(r, c, a) <=> Takes(s, c, a)
<1>1. Matching(r, c, a) = Matching(s, c, a) /\ FreeEntries(r, c) = FreeEntries(s, c)
  BY DEF Matching, Entries, FreeEntries
<1>2. \A j : SubentriesFull(r, c, j) <=> SubentriesFull(s, c, j)
  BY DEF SubentriesFull
<1>3. \A b : Refused(r, Next1(c), b) <=> Refused(s, Next1(c), b)
  BY DEF Refused, HasRoom
<1>4. QED
  BY <1>1, <1>2, <1>3 DEF Takes

\* What has been put off remains so, and a packet put off joins it.
LEMMA PutOffsKept ==
  ASSUME NEW s, Typed(s), NEW i \in 1 .. Len(s.queue["L2"]),
         Ready(s.queue["L2"][i]), PutOffs(s, i - 1), NEW r, Typed(r), Alone(r),
         Processed(s, "L2", i, r)
  PROVE  PutOffs(r, i)
<1>1. "L2" \in Caches /\ "L2" \in Levels \ {"Mem"} /\ Next1("L2") = "Mem"
      /\ "Mem" \in Levels \ {"L2"}
  BY DEF Caches, Levels, Next1
<1>2. PICK q \in Seq(PacketSet("L2")) : q = s.queue["L2"]
  <2>1. s.queue["L2"] \in Seq(PacketSet("L2"))
    BY <1>1 DEF Typed, QueuesTyped
  <2>2. QED
    BY <2>1
<1>3. PICK p \in PacketSet("L2") : p = q[i]
  BY <1>2
<1>4. i \in 1 .. Len(q) /\ Len(q) \in Nat
  BY <1>2
<1>5. \A j \in 1 .. Len(q) : j <= i - 1 /\ ~Ready(q[j]) =>
        Holding(s, "L2", q[j].addr) = {} /\ ~Takes(s, "L2", q[j].addr)
  BY <1>2 DEF PutOffs
<1>6. \A j \in 1 .. Len(q) : q[j].addr \in Addresses
  BY <1>1, <1>2, PacketFacts
<1>7. CASE HitDone(s, "L2", p, r)
  <2>1. /\ r.mshr["L2"] = s.mshr["L2"] /\ r.queue["Mem"] = s.queue["Mem"]
        /\ \A a \in Addresses : Holding(r, "L2", a) = Holding(s, "L2", a)
        /\ \A j \in 1 .. Len(q) : r.queue["L2"][j] = q[j]
    <3>1. CASE IsWrite(p)
      BY <1>2, <1>7, <3>1 DEF HitDone
    <3>2. CASE ~IsWrite(p)
      <4>1. /\ PrevOf(p) \in {"L1I", "L1D"}
            /\ \A d \in Levels \ {"L2"} : r.queue[d] = s.queue[d]
            /\ Grown("L2", s.queue["L2"], r.queue["L2"])
            /\ \A d \in Caches \ {PrevOf(p)} : r.mshr[d] = s.mshr[d]
            /\ \A a \in Addresses : Holding(r, "L2", a) = Holding(s, "L2", a)
        BY <1>7, <3>2 DEF HitDone
      <4>2. QED
        BY <1>1, <1>2, <4>1 DEF Grown
    <3>3. QED
      BY <3>1, <3>2
  <2>2. \A a : Takes(r, "L2", a) <=> Takes(s, "L2", a)
    BY <1>1, <2>1, TakesSame
  <2>3. SUFFICES ASSUME NEW j \in 1 .. Len(r.queue["L2"]), j <= i, ~Ready(r.queue["L2"][j])
                 PROVE  /\ Holding(r, "L2", r.queue["L2"][j].addr) = {}
                        /\ ~Takes(r, "L2", r.queue["L2"][j].addr)
    BY DEF PutOffs
  <2>4. j \in 1 .. Len(q) /\ r.queue["L2"][j] = q[j]
    BY <1>4, <2>1, <2>3
  <2>5. j # i
    BY <1>2, <2>3, <2>4
  <2>6. j <= i - 1
    BY <1>4, <2>3, <2>4, <2>5
  <2>7. QED
    BY <1>5, <1>6, <2>1, <2>2, <2>3, <2>4, <2>6
<1>8. CASE Holding(s, "L2", p.addr) = {} /\ Missed(s, "L2", i, r)
  <2>1. \A a : Holding(r, "L2", a) = Holding(s, "L2", a)
    BY <1>8 DEF Missed, Holding
  <2>2. CASE PutOff(s, "L2", i, r) /\ ~Takes(s, "L2", p.addr)
    <3>1. /\ r.mshr = s.mshr /\ r.queue["Mem"] = s.queue["Mem"]
          /\ Len(r.queue["L2"]) = Len(q)
          /\ \A j \in (1 .. Len(q)) \ {i} : r.queue["L2"][j] = q[j]
          /\ r.queue["L2"][i].addr = p.addr
      <4>1. r.queue["L2"][i] = [p EXCEPT !.ready = 1]
        BY <1>2, <1>3, <2>2 DEF PutOff
      <4>2. r.queue["L2"][i].addr = p.addr
        BY <1>1, <4>1, PutOffTyped
      <4>3. QED
        BY <1>1, <1>2, <2>2, <4>2 DEF PutOff
    <3>2. \A a : Takes(r, "L2", a) <=> Takes(s, "L2", a)
      BY <1>1, <3>1, TakesSame
    <3>3. SUFFICES ASSUME NEW j \in 1 .. Len(q), j <= i, ~Ready(r.queue["L2"][j])
                   PROVE  /\ Holding(r, "L2", r.queue["L2"][j].addr) = {}
                          /\ ~Takes(r, "L2", r.queue["L2"][j].addr)
      BY <3>1 DEF PutOffs
    <3>4. CASE j = i
      BY <1>8, <2>1, <2>2, <3>1, <3>2, <3>4
    <3>5. CASE j # i
      <4>1. r.queue["L2"][j] = q[j] /\ j <= i - 1
        BY <1>4, <3>1, <3>3, <3>5
      <4>2. QED
        BY <1>5, <2>1, <3>2, <3>3, <4>1
    <3>6. QED
      BY <3>4, <3>5
  <2>3. CASE /\ Joined(s, "L2", p, r) \/ Issued(s, "L2", p, r)
             /\ Takes(s, "L2", p.addr)
    <3>1. r.queue["L2"] = q
      BY <1>1, <1>2, <2>3 DEF Joined, Issued
    <3>2. /\ EntryTaken(s, "L2", 1, p, r)
          /\ s.mshr["L2"][1].sub = <<>> \/ s.mshr["L2"][1].address = BlockAddress(p.addr)
      BY <1>1, <1>3, <2>3, FirstTakes
    <3>a. Len(s.queue["Mem"]) <= Len(r.queue["Mem"])
      <4>1. PICK down \in Seq(PacketSet("Mem")) : down = s.queue["Mem"]
        <5>1. s.queue["Mem"] \in Seq(PacketSet("Mem"))
          BY <1>1 DEF Typed, QueuesTyped, Levels
        <5>2. QED
          BY <5>1
      <4>2. r.queue["Mem"] = down \/ \E x \in PacketSet("Mem") : r.queue["Mem"] = Append(down, x)
        BY <1>1, <2>3, <4>1 DEF Joined, Issued
      <4>3. \A x \in PacketSet("Mem") : Len(Append(down, x)) = Len(down) + 1
        OBVIOUS
      <4>4. Len(down) \in Nat
        OBVIOUS
      <4>5. QED
        BY <4>1, <4>2, <4>3, <4>4
    <3>3. r.mshr["L2"][1].sub # <<>> /\ r.mshr["L2"][1].address = BlockAddress(p.addr)
      <4>1. s.mshr["L2"][1].sub \in Seq(PacketSet("L2"))
        BY <1>1, <3>2, SubTyped DEF EntryTaken
      <4>2. r.mshr["L2"][1].sub = Append(s.mshr["L2"][1].sub, p)
        BY <3>2 DEF EntryTaken
      <4>3. QED
        BY <3>2, <4>1, <4>2, AppendFills DEF EntryTaken
    <3>4. SUFFICES ASSUME NEW j \in 1 .. Len(q), j <= i, ~Ready(q[j])
                   PROVE  /\ Holding(r, "L2", q[j].addr) = {}
                          /\ ~Takes(r, "L2", q[j].addr)
      BY <3>1 DEF PutOffs
    <3>5. j # i
      BY <1>2, <3>4
    <3>6. j <= i - 1
      BY <1>4, <3>4, <3>5
    <3>7. Holding(s, "L2", q[j].addr) = {} /\ ~Takes(s, "L2", q[j].addr)
      BY <1>5, <3>4, <3>6
    <3>8. BlockAddress(q[j].addr) # BlockAddress(p.addr)
      BY <2>3, <3>7, TakesLine
    <3>9. ~Takes(r, "L2", q[j].addr)
      BY <1>3, <3>2, <3>3, <3>7, <3>8, <3>a, BusyTakes
    <3>10. QED
      BY <2>1, <3>7, <3>9
  <2>4. QED
    BY <1>2, <1>3, <1>8, <2>2, <2>3 DEF Missed
<1>9. QED
  BY <1>2, <1>3, <1>7, <1>8 DEF Processed

\* A miss.
LEMMA MissRight ==
  ASSUME NEW s, Typed(s), NEW c \in Caches, NEW i \in 1 .. Len(s.queue[c]),
         Ready(s.queue[c][i]), c = "L2" /\ s.abort = "none" => PutOffs(s, i - 1),
         NEW m, NEW req, Right(s, Passes(c, i - 1), m, req),
         NEW r, Alone(r), Missed(s, c, i, r)
  PROVE  Right(r, Passes(c, i), m, req)
<1>1. PICK p : p = s.queue[c][i]
  OBVIOUS
<1>2. r.store = s.store /\ r.blocks = s.blocks /\ r.out = s.out
  BY DEF Missed
<1>3. CASE PutOff(s, c, i, r)
  BY <1>2, <1>3, PutOffRight
<1>4. CASE Takes(s, c, p.addr) /\ (Joined(s, c, p, r) \/ Issued(s, c, p, r))
  <2>1. CASE c = "L2"
    <3>1. Right(s, i - 1, m, req) /\ Passes(c, i) = i
      BY <2>1 DEF Passes
    <3>2. /\ i \in 1 .. Len(s.queue["L2"]) /\ Ready(s.queue["L2"][i]) /\ p = s.queue["L2"][i]
          /\ s.abort = "none" => PutOffs(s, i - 1)
          /\ Takes(s, "L2", p.addr) /\ (Joined(s, "L2", p, r) \/ Issued(s, "L2", p, r))
      BY <1>1, <1>4, <2>1
    <3>3. Right(r, i, m, req)
      BY <1>2, <3>1, <3>2, TakenL2Right
    <3>4. QED
      BY <3>1, <3>3
  <2>2. CASE c # "L2"
    <3>1. c \in {"L1I", "L1D"} /\ Right(s, 0, m, req) /\ Passes(c, i) = 0
      BY <2>2 DEF Passes, Caches
    <3>2. Right(r, 0, m, req)
      BY <1>1, <1>2, <1>4, <3>1, TakenL1Right
    <3>3. QED
      BY <3>1, <3>2
  <2>3. QED
    BY <2>1, <2>2
<1>5. QED
  BY <1>1, <1>3, <1>4 DEF Missed

\* The body of the loop of a cache's Tick.
LEMMA ProcessRight ==
  ASSUME NEW s, Typed(s), NEW c \in Caches, NEW i \in 1 .. Len(s.queue[c]),
         Ready(s.queue[c][i]), Sound(s, Passes(c, i - 1)),
         c = "L2" /\ s.abort = "none" => PutOffs(s, i - 1),
         NEW victim, Evicts(victim), NEW m \in [Addresses -> Values], NEW req,
         Right(s, Passes(c, i - 1), m, req), NEW n, NEW r,
         r = Process(s, c, n, victim, i), Alone(r)
  PROVE  Right(r, Passes(c, i), m, req)
<1>1. PICK p \in PacketSet(c) : p = s.queue[c][i]
  BY QueuedPacket
<1>2. PICK done : done = IF Holding(s, c, p.addr) # {} THEN Hit(s, c, p, victim)
                         ELSE Miss(s, c, i)
  OBVIOUS
<1>3. Typed(done)
  <2>1. CASE Holding(s, c, p.addr) # {}
    BY <1>1, <1>2, <2>1, HitEffect DEF HitDone
  <2>2. CASE Holding(s, c, p.addr) = {}
    BY <1>2, <2>2, MissEffect DEF Missed
  <2>3. QED
    BY <2>1, <2>2
<1>4. PICK v : r = [done EXCEPT !.reused = v]
  BY <1>1, <1>2, <1>3 DEF Process, Typed
<1>5. /\ r.queue = done.queue /\ r.blocks = done.blocks /\ r.mshr = done.mshr
      /\ r.store = done.store /\ r.abort = done.abort /\ r.out = done.out
  BY <1>3, <1>4 DEF Typed
<1>a. Alone(done)
  BY <1>5 DEF Alone
<1>6. Right(done, Passes(c, i), m, req)
  <2>1. CASE Holding(s, c, p.addr) = {}
    BY <1>2, <1>a, <2>1, MissEffect, MissRight
  <2>2. CASE Holding(s, c, p.addr) # {} /\ c # "L2"
    <3>1. c \in {"L1I", "L1D"} /\ Right(s, 0, m, req) /\ Passes(c, i) = 0
      BY <2>2 DEF Passes, Caches
    <3>2. Right(done, 0, m, req)
      BY <1>1, <1>2, <2>2, <3>1, HitL1Right
    <3>3. QED
      BY <3>1, <3>2
  <2>3. CASE Holding(s, c, p.addr) # {} /\ c = "L2"
    <3>1. Right(s, i - 1, m, req) /\ Passes(c, i) = i /\ Sound(s, i - 1)
      BY <2>3 DEF Passes
    <3>2. s.abort = "none" => WholeExact(s, i - 1) /\ PutOffs(s, i - 1)
      BY <2>3, <3>1 DEF Sound
    <3>3. /\ i \in 1 .. Len(s.queue["L2"]) /\ Ready(s.queue["L2"][i]) /\ p = s.queue["L2"][i]
          /\ Holding(s, "L2", p.addr) # {} /\ done = Hit(s, "L2", p, victim)
      BY <1>1, <1>2, <2>3
    <3>4. CASE ~IsWrite(p)
      <4>1. Right(done, i, m, req)
        BY <3>1, <3>2, <3>3, <3>4, HitReadRight
      <4>2. QED
        BY <3>1, <4>1
    <3>5. CASE IsWrite(p)
      <4>1. p.type = "writeback"
        BY <1>1, <2>3, <3>5 DEF IsWrite, PacketSet, Reads, WriteBacksOf
      <4>2. Right(done, i, m, req)
        BY <3>1, <3>3, <4>1, HitBackRight
      <4>3. QED
        BY <3>1, <4>2
    <3>6. QED
      BY <3>4, <3>5
  <2>4. QED
    BY <2>1, <2>2, <2>3
<1>7. QED
  BY <1>5, <1>6, SameRight

-------------------------------------------------------------------------------
(* The loop of a cache's Tick.                                               *)

\* The loop, once it has processed k packets of the queue.
RightTick(ctx, k, x) ==
  /\ TickingExact(ctx.tick, k, x)
  /\ Alone(x) => /\ Right(x, Passes(ctx.tick.c, k), ctx.m, ctx.req)
                 /\ ctx.tick.c = "L2" /\ x.abort = "none" => PutOffs(x, k)

\* It is a fold.
RightTickFold == INSTANCE FoldInduction WITH
                   op <- LAMBDA c, n, victim, x, i : Process(x, c, n, victim, i),
                   J <- RightTick

\* One packet more is processed.
LEMMA RightTickStep ==
  ASSUME NEW c \in Caches, NEW from, Typed(from), NEW ctx,
         ctx.tick = [c |-> c, from |-> from], ctx.m \in [Addresses -> Values],
         NEW n, NEW victim, Evicts(victim),
         NEW k \in 1 .. Len(from.queue[c]), from.queue[c][k].ready = 0,
         NEW x, RightTick(ctx, k - 1, x)
  PROVE  RightTick(ctx, k, Process(x, c, n, victim, k))
<1>1. PICK tick : tick = ctx.tick
  OBVIOUS
<1>2. tick = [c |-> c, from |-> from] /\ tick.c = c /\ tick.from = from /\ c \in Levels
  BY <1>1 DEF Levels
<1>3. /\ TickingExact(tick, k - 1, x)
      /\ Alone(x) => /\ Right(x, Passes(c, k - 1), ctx.m, ctx.req)
                     /\ c = "L2" /\ x.abort = "none" => PutOffs(x, k - 1)
  BY <1>1, <1>2 DEF RightTick
<1>4. Ticking(tick, k - 1, x) /\ (Alone(x) => Sound(x, Passes(c, k - 1)))
  BY <1>2, <1>3 DEF TickingExact
<1>5. Typed(x) /\ TickedQueue(c, k - 1, from.queue[c], x.queue[c])
  BY <1>2, <1>4 DEF Ticking
<1>6. from.queue[c] \in Seq(PacketSet(c)) /\ x.queue[c] \in Seq(PacketSet(c))
  BY <1>2, <1>5 DEF Typed, QueuesTyped
<1>7. k \in 1 .. Len(x.queue[c])
  BY <1>5, <1>6 DEF TickedQueue
<1>8. Ready(x.queue[c][k])
  <2>1. k \in Nat /\ ~(k <= k - 1)
    OBVIOUS
  <2>2. x.queue[c][k] = from.queue[c][k]
    BY <1>5, <2>1 DEF TickedQueue
  <2>3. QED
    BY <2>2 DEF Ready
<1>9. PICK r : r = Process(x, c, n, victim, k)
  OBVIOUS
<1>10. Processed(x, c, k, r)
  BY <1>5, <1>7, <1>9, ProcessEffect
<1>11. TickingExact(tick, k, r)
  BY <1>2, <1>3, <1>9, TickExactStep
<1>12. Typed(r)
  BY <1>2, <1>11 DEF TickingExact, Ticking
<1>a. Alone(r) => Alone(x)
  BY <1>5, <1>7, <1>10, ProcessedAlone
<1>13. ASSUME Alone(r) PROVE Right(r, Passes(c, k), ctx.m, ctx.req)
  BY <1>3, <1>4, <1>5, <1>7, <1>8, <1>9, <1>13, <1>a, ProcessRight
<1>14. ASSUME Alone(r), c = "L2", r.abort = "none" PROVE PutOffs(r, k)
  <2>1. May(x, r, Failures)
    BY <1>5, <1>7, <1>10, ProcessedQueues
  <2>2. x.abort = "none"
    BY <1>14, <2>1 DEF May
  <2>3. /\ PutOffs(x, k - 1) /\ Ready(x.queue["L2"][k]) /\ k \in 1 .. Len(x.queue["L2"])
        /\ Processed(x, "L2", k, r)
    BY <1>3, <1>7, <1>8, <1>10, <1>14, <1>a, <2>2
  <2>4. QED
    BY <1>5, <1>12, <1>14, <2>3, PutOffsKept
<1>15. QED
  BY <1>1, <1>2, <1>9, <1>11, <1>13, <1>14 DEF RightTick

\* The loop leaves the hierarchy right.
LEMMA AllProcessedRight ==
  ASSUME NEW s, Typed(s), NEW c \in Caches, NEW q, NEW n, NEW victim,
         Evicts(victim), DueFirst(c, q, n, s.queue[c]), Sound(s, 0),
         NEW m \in [Addresses -> Values], NEW req, Right(s, 0, m, req),
         NEW seq, seq = [i \in 1 .. n |-> i]
  PROVE  LET r == AllProcessed(s, c, n, victim, seq)
         IN Alone(r) => Right(r, Passes(c, n), m, req)
<1>1. PICK tick : tick = [c |-> c, from |-> s]
  OBVIOUS
<1>2. PICK ctx : ctx = [tick |-> tick, m |-> m, req |-> req]
  OBVIOUS
<1>3. /\ ctx.tick = [c |-> c, from |-> s] /\ ctx.tick.c = c /\ ctx.tick.from = s
      /\ ctx.m = m /\ ctx.req = req /\ c \in Levels
  BY <1>1, <1>2 DEF Levels
<1>4. \A d \in Levels : s.queue[d] \in Seq(PacketSet(d)) /\ Len(s.queue[d]) \in Nat
  BY DEF Typed, QueuesTyped
<1>5. n \in Nat /\ n <= Len(s.queue[c]) /\ \A i \in 1 .. n : s.queue[c][i].ready = 0
  BY DEF DueFirst
<1>6. seq \in Seq(Nat) /\ Len(seq) = n /\ \A k \in 1 .. n : seq[k] = k
  BY <1>5
<1>7. RightTick(ctx, 0, s)
  <2>1. \A d \in Levels : Extended(d, s.queue[d], s.queue[d])
    BY <1>4 DEF Extended
  <2>2. TickedQueue(c, 0, s.queue[c], s.queue[c])
    BY <1>3, <1>4 DEF TickedQueue
  <2>3. Counting(s, c, 0, s)
    BY DEF Counting
  <2>4. Ticking(ctx.tick, 0, s)
    BY <1>3, <2>1, <2>2, <2>3 DEF Ticking, May
  <2>5. Passes(c, 0) = 0
    BY DEF Passes
  <2>6. TickingExact(ctx.tick, 0, s)
    BY <1>3, <2>4, <2>5 DEF TickingExact
  <2>7. PutOffs(s, 0)
    BY DEF PutOffs
  <2>8. QED
    BY <1>3, <2>5, <2>6, <2>7 DEF RightTick
<1>8. \A k \in 1 .. Len(seq) : \A x :
        RightTick(ctx, k - 1, x) => RightTick(ctx, k, Process(x, c, n, victim, seq[k]))
  <2> TAKE k \in 1 .. Len(seq)
  <2> TAKE x
  <2> HAVE RightTick(ctx, k - 1, x)
  <2>1. k \in 1 .. Len(s.queue[c]) /\ s.queue[c][k].ready = 0 /\ seq[k] = k
    BY <1>3, <1>4, <1>5, <1>6
  <2>2. RightTick(ctx, k, Process(x, c, n, victim, k))
    BY <1>3, <2>1, RightTickStep
  <2>3. QED
    BY <2>1, <2>2
<1>9. PICK r : r = RightTickFold!Fold(c, n, victim, s, seq)
  OBVIOUS
<1>10. r = AllProcessed(s, c, n, victim, seq)
  BY <1>9, Zenon DEF AllProcessed, RightTickFold!Fold, FoldLeft, MapThenFoldSet, Max,
                     RightTickFold!FoldLeft, RightTickFold!MapThenFoldSet,
                     RightTickFold!Max
<1>11. RightTick(ctx, Len(seq), r)
  BY <1>6, <1>7, <1>8, <1>9, RightTickFold!FoldInvariant
<1>12. QED
  BY <1>3, <1>6, <1>10, <1>11 DEF RightTick

-------------------------------------------------------------------------------
(* The passes over a queue before and after the loop.                        *)

\* They keep the packets that are left, in their order.
Rearranges(q, j, r) ==
  \E f : /\ Embeds(q, j, r, 0, f)
         /\ \A i \in LivePlaces(q, j) : \E l \in LivePlaces(r, 0) : f[l] = i
         /\ \A i, l \in LivePlaces(r, 0) : f[i] = f[l] => i = l

\* std::partition does, as the ready packets of a sorted queue come first.
LEMMA FirstRearranges ==
  ASSUME NEW c \in Levels, NEW q \in Seq(PacketSet(c)), Sorted(q)
  PROVE  Rearranges(q, 0, ReadyFirst(q))
<1>0. TRUE \in BOOLEAN /\ FALSE \in BOOLEAN
  OBVIOUS
<1>1. PICK a \in Seq(PacketSet(c)) : a = Select(q, TRUE)
  BY <1>0, SelectEffect
<1>2. PICK b \in Seq(PacketSet(c)) : b = Select(q, FALSE)
  BY <1>0, SelectEffect
<1>3. PICK f : IsSelection(q, TRUE, Len(q), a, f)
  BY <1>0, <1>1, SelectEffect
<1>4. PICK g : IsSelection(q, FALSE, Len(q), b, g)
  BY <1>0, <1>2, SelectEffect
<1>5. PICK r \in Seq(PacketSet(c)) : r = a \o b
  <2>1. a \o b \in Seq(PacketSet(c))
    OBVIOUS
  <2>2. QED
    BY <2>1
<1>6. PICK n \in Nat : n = Len(a)
  <2>1. Len(a) \in Nat
    OBVIOUS
  <2>2. QED
    BY <2>1
<1>7. /\ Len(r) = n + Len(b) /\ Len(b) \in Nat /\ Len(q) \in Nat
      /\ \A i \in 1 .. n : r[i] = a[i]
      /\ \A i \in (n + 1) .. Len(r) : r[i] = b[i - n] /\ i - n \in 1 .. Len(b)
  BY <1>5, <1>6
<1>8. PICK F : F = [i \in 1 .. Len(r) |-> IF i <= n THEN f[i] ELSE g[i - n]]
  OBVIOUS
<1>9. ASSUME NEW i \in 1 .. Len(r)
      PROVE  /\ F[i] \in 1 .. Len(q) /\ r[i] = q[F[i]]
             /\ i <= n => i \in 1 .. n /\ F[i] = f[i] /\ Ready(q[F[i]])
             /\ ~(i <= n) => i - n \in 1 .. Len(b) /\ F[i] = g[i - n] /\ ~Ready(q[F[i]])
  <2>1. CASE i <= n
    <3>1. i \in 1 .. n /\ F[i] = f[i] /\ r[i] = a[i]
      BY <1>7, <1>8, <2>1
    <3>2. f[i] \in 1 .. Len(q) /\ a[i] = q[f[i]] /\ Ready(a[i])
      BY <1>3, <1>6, <3>1 DEF IsSelection
    <3>3. QED
      BY <2>1, <3>1, <3>2
  <2>2. CASE ~(i <= n)
    <3>1. i \in (n + 1) .. Len(r)
      BY <1>7, <2>2
    <3>2. i - n \in 1 .. Len(b) /\ F[i] = g[i - n] /\ r[i] = b[i - n]
      BY <1>7, <1>8, <2>2, <3>1
    <3>3. g[i - n] \in 1 .. Len(q) /\ b[i - n] = q[g[i - n]] /\ ~Ready(b[i - n])
      BY <1>4, <3>2 DEF IsSelection
    <3>4. QED
      BY <2>2, <3>2, <3>3
  <2>3. QED
    BY <2>1, <2>2
<1>10. ASSUME NEW i \in 1 .. Len(r), NEW l \in 1 .. Len(r), F[i] < F[l]
       PROVE  i < l
  <2>1. CASE i <= n /\ l <= n
    <3>1. i \in 1 .. n /\ l \in 1 .. n /\ f[i] < f[l]
      BY <1>9, <1>10, <2>1
    <3>2. f[i] \in 1 .. Len(q) /\ f[l] \in 1 .. Len(q) /\ (l < i => f[l] < f[i])
      BY <1>3, <1>6, <3>1 DEF IsSelection
    <3>3. QED
      BY <1>7, <3>1, <3>2
  <2>2. CASE i <= n /\ ~(l <= n)
    BY <2>2
  <2>3. CASE ~(i <= n) /\ l <= n
    <3>1. /\ F[i] \in 1 .. Len(q) /\ F[l] \in 1 .. Len(q)
          /\ ~Ready(q[F[i]]) /\ Ready(q[F[l]])
      BY <1>9, <2>3
    <3>2. q[F[i]].ready <= q[F[l]].ready
      BY <1>10, <3>1 DEF Sorted
    <3>3. q[F[i]] \in PacketSet(c) /\ q[F[l]] \in PacketSet(c)
      BY <3>1
    <3>4. /\ q[F[i]].ready \in Nat /\ q[F[l]].ready = 0 /\ ~(q[F[i]].ready = 0)
      BY <3>1, <3>3, ReadyTimes
    <3>5. QED
      BY <3>2, <3>4
  <2>4. CASE ~(i <= n) /\ ~(l <= n)
    <3>1. PICK u \in 1 .. Len(b) : u = i - n
      BY <1>9, <2>4
    <3>2. PICK v \in 1 .. Len(b) : v = l - n
      BY <1>9, <2>4
    <3>3. g[u] < g[v]
      BY <1>9, <1>10, <2>4, <3>1, <3>2
    <3>4. g[u] \in 1 .. Len(q) /\ g[v] \in 1 .. Len(q) /\ (v < u => g[v] < g[u])
      BY <1>4 DEF IsSelection
    <3>5. ~(v < u) /\ u # v
      BY <1>7, <3>3, <3>4
    <3>6. QED
      BY <1>7, <3>1, <3>2, <3>5
  <2>5. QED
    BY <2>1, <2>2, <2>3, <2>4
<1>11. LivePlaces(q, 0) = 1 .. Len(q) /\ LivePlaces(r, 0) = 1 .. Len(r)
  BY DEF LivePlaces
<1>12. Embeds(q, 0, r, 0, F)
  BY <1>9, <1>10, <1>11 DEF Embeds, SamePacket
<1>13. ASSUME NEW i \in 1 .. Len(q)
       PROVE  \E l \in 1 .. Len(r) : F[l] = i
  <2>1. CASE Ready(q[i])
    <3>1. PICK l \in 1 .. n : f[l] = i
      BY <1>3, <1>6, <2>1 DEF IsSelection
    <3>2. l \in 1 .. Len(r) /\ F[l] = f[l]
      BY <1>7, <1>8
    <3>3. QED
      BY <3>1, <3>2
  <2>2. CASE ~Ready(q[i])
    <3>1. PICK l \in 1 .. Len(b) : g[l] = i
      BY <1>4, <2>2 DEF IsSelection
    <3>2. /\ l + n \in 1 .. Len(r) /\ ~(l + n <= n) /\ (l + n) - n = l
      BY <1>7
    <3>3. F[l + n] = g[l]
      BY <1>8, <3>2
    <3>4. QED
      BY <3>1, <3>2, <3>3
  <2>3. QED
    BY <2>1, <2>2
<1>14. ASSUME NEW i \in 1 .. Len(r), NEW l \in 1 .. Len(r), F[i] = F[l]
       PROVE  i = l
  <2>1. i <= n <=> l <= n
    BY <1>9, <1>14
  <2>2. CASE i <= n
    <3>1. i \in 1 .. n /\ l \in 1 .. n /\ f[i] = f[l]
      BY <1>9, <1>14, <2>1, <2>2
    <3>2. f[i] \in Nat /\ (i < l => f[i] < f[l]) /\ (l < i => f[l] < f[i])
      <4>1. n = Len(a)
        BY <1>6
      <4>2. i \in 1 .. Len(a) /\ l \in 1 .. Len(a)
        BY <3>1, <4>1
      <4>3. QED
        BY <1>3, <4>2 DEF IsSelection
    <3>3. ~(i < l) /\ ~(l < i)
      BY <3>1, <3>2
    <3>4. QED
      BY <1>6, <3>1, <3>3
  <2>3. CASE ~(i <= n)
    <3>1. PICK u \in 1 .. Len(b) : u = i - n
      BY <1>9, <2>3
    <3>2. PICK v \in 1 .. Len(b) : v = l - n
      BY <1>9, <2>1, <2>3
    <3>3. g[u] = g[v]
      BY <1>9, <1>14, <2>1, <2>3, <3>1, <3>2
    <3>4. g[u] \in 1 .. Len(q) /\ ~(u < v) /\ ~(v < u)
      BY <1>4, <3>3 DEF IsSelection
    <3>5. QED
      BY <1>7, <3>1, <3>2, <3>4
  <2>4. QED
    BY <2>2, <2>3
<1>15. Rearranges(q, 0, r)
  BY <1>11, <1>12, <1>13, <1>14 DEF Rearranges
<1>16. QED
  BY <1>1, <1>2, <1>5, <1>15 DEF ReadyFirst

\* std::remove_if does.
LEMMA LastRearranges ==
  ASSUME NEW S, NEW q \in Seq(S), NEW n \in Nat, AllDone(q, n)
  PROVE  Rearranges(q, n, Select(q, FALSE))
<1>0. FALSE \in BOOLEAN
  OBVIOUS
<1>1. PICK r \in Seq(S) : r = Select(q, FALSE)
  BY <1>0, SelectEffect
<1>2. PICK f : IsSelection(q, FALSE, Len(q), r, f)
  BY <1>0, <1>1, SelectEffect
<1>3. /\ LivePlaces(r, 0) = 1 .. Len(r)
      /\ LivePlaces(q, n) = {i \in 1 .. Len(q) : ~Ready(q[i])}
  BY DEF LivePlaces, AllDone
<1>4. Len(q) \in Nat /\ Len(r) \in Nat
  OBVIOUS
<1>5. ASSUME NEW i \in 1 .. Len(r)
      PROVE  f[i] \in LivePlaces(q, n) /\ r[i] = q[f[i]]
  BY <1>2, <1>3 DEF IsSelection
<1>6. ASSUME NEW i \in 1 .. Len(r), NEW l \in 1 .. Len(r), f[i] < f[l]
      PROVE  i < l
  <2>1. f[i] \in 1 .. Len(q) /\ f[l] \in 1 .. Len(q) /\ (l < i => f[l] < f[i])
    BY <1>2 DEF IsSelection
  <2>2. ~(l < i) /\ l # i
    BY <1>4, <1>6, <2>1
  <2>3. QED
    BY <1>4, <2>2
<1>7. Embeds(q, n, r, 0, f)
  BY <1>3, <1>5, <1>6 DEF Embeds, SamePacket
<1>8. \A i \in LivePlaces(q, n) : \E l \in LivePlaces(r, 0) : f[l] = i
  BY <1>2, <1>3 DEF IsSelection
<1>9. ASSUME NEW i \in 1 .. Len(r), NEW l \in 1 .. Len(r), f[i] = f[l]
      PROVE  i = l
  <2>1. f[i] \in 1 .. Len(q) /\ ~(i < l) /\ ~(l < i)
    BY <1>2, <1>9 DEF IsSelection
  <2>2. QED
    BY <1>4, <2>1
<1>10. QED
  BY <1>1, <1>3, <1>7, <1>8, <1>9 DEF Rearranges

\* So the write-backs are those there were, ahead of the reads they were ahead of.
LEMMA RearrangesKeeps ==
  ASSUME NEW q, NEW j, NEW r, Rearranges(q, j, r), NEW a
  PROVE  /\ Backs(r, 0, a) = Backs(q, j, a)
         /\ \A kind : LiveAt(r, 0, kind, a) # {} => LiveAt(q, j, kind, a) # {}
         /\ \A kind : Ahead(q, j, kind, a) => Ahead(r, 0, kind, a)
<1>1. PICK f : /\ Embeds(q, j, r, 0, f)
               /\ \A i \in LivePlaces(q, j) : \E l \in LivePlaces(r, 0) : f[l] = i
  BY DEF Rearranges
<1>2. \A i \in LiveAt(q, j, "writeback", a) : \E l \in LivePlaces(r, 0) : f[l] = i
  BY <1>1 DEF LiveAt, LivePlaces
<1>3. Backs(r, 0, a) = Backs(q, j, a)
  BY <1>1, <1>2, EmbedsAll
<1>4. /\ \A kind : LiveAt(r, 0, kind, a) # {} => LiveAt(q, j, kind, a) # {}
      /\ \A kind : Ahead(q, j, kind, a) => Ahead(r, 0, kind, a)
  BY <1>1, EmbedsKeeps
<1>5. QED
  BY <1>3, <1>4

\* Such a pass changes only the queue.
Rearranged(s, c, j, r) ==
  /\ Rearranges(s.queue[c], j, r.queue[c])
  /\ \A d \in Levels \ {c} : r.queue[d] = s.queue[d]
  /\ r.mshr = s.mshr /\ r.blocks = s.blocks /\ r.store = s.store
  /\ r.out = s.out /\ r.abort = s.abort

\* It leaves the hierarchy right.
LEMMA RearrangedRight ==
  ASSUME NEW s, NEW c \in Caches, NEW j \in Nat, NEW m, NEW req,
         Right(s, Passes(c, j), m, req), NEW r, Rearranged(s, c, j, r)
  PROVE  Right(r, 0, m, req)
<1>1. c \in Levels /\ "L2" \in Levels /\ "L1D" \in Levels /\ "Mem" \in Levels \ {c}
  BY DEF Caches, Levels
<1>2. PICK q : q = s.queue[c]
  OBVIOUS
<1>3. PICK t : t = r.queue[c]
  OBVIOUS
<1>4. /\ r.mshr = s.mshr /\ r.blocks = s.blocks /\ r.store = s.store
      /\ r.out = s.out /\ r.abort = s.abort
      /\ \A d \in Levels \ {c} : r.queue[d] = s.queue[d]
      /\ Rearranges(q, j, t)
  BY <1>2, <1>3 DEF Rearranged
<1>5. ASSUME NEW a
      PROVE  /\ Backs(r.queue["L2"], 0, a) = Backs(s.queue["L2"], Passes(c, j), a)
             /\ Ahead(s.queue["L2"], Passes(c, j), "load", a)
                  => Ahead(r.queue["L2"], 0, "load", a)
  <2>1. CASE c = "L2"
    <3>1. /\ Backs(t, 0, a) = Backs(q, j, a)
          /\ \A kind : Ahead(q, j, kind, a) => Ahead(t, 0, kind, a)
      BY <1>4, RearrangesKeeps
    <3>2. QED
      BY <1>2, <1>3, <2>1, <3>1 DEF Passes
  <2>2. CASE c # "L2"
    <3>1. r.queue["L2"] = s.queue["L2"] /\ Passes(c, j) = 0
      BY <1>1, <1>4, <2>2 DEF Passes
    <3>2. QED
      BY <3>1
  <2>3. QED
    BY <2>1, <2>2
<1>6. ASSUME s.abort = "none"
      PROVE  Arranged(s, Passes(c, j), r, 0, req)
  <2>1. /\ InOrder2(s, Passes(c, j)) /\ InOrderMem(s) /\ Matched(s) /\ Owned(s, req)
    BY <1>6 DEF Right, Coherent, Shaped
  <2>2. r.queue["Mem"] = s.queue["Mem"]
    BY <1>1, <1>4
  <2>3. InOrderMem(r) /\ Matched(r) /\ \A a : ToMem(r, a) = ToMem(s, a)
    BY <1>4, <2>1, <2>2 DEF InOrderMem, Matched, ToMem
  <2>4. InOrder2(r, 0)
    BY <1>4, <1>5, <2>1 DEF InOrder2
  <2>5. \A a : ToL2(r, 0, a) = ToL2(s, Passes(c, j), a)
    BY <1>4, <1>5 DEF ToL2
  <2>6. Owned(r, req)
    <3>1. CASE c = "L1D"
      <4>1. \A i \in 1 .. Len(q) : Mine(q[i], req)
        BY <1>2, <2>1, <3>1 DEF Owned
      <4>2. PICK f : Embeds(q, j, t, 0, f)
        BY <1>4 DEF Rearranges
      <4>3. ASSUME NEW i \in 1 .. Len(t)
            PROVE  Mine(t[i], req)
        <5>1. i \in LivePlaces(t, 0)
          BY DEF LivePlaces
        <5>2. f[i] \in 1 .. Len(q) /\ SamePacket(t[i], q[f[i]])
          BY <4>2, <5>1 DEF Embeds, LivePlaces
        <5>3. QED
          BY <4>1, <5>2 DEF Mine, SamePacket
      <4>4. QED
        BY <1>3, <1>4, <2>1, <3>1, <4>3 DEF Owned
    <3>2. CASE c # "L1D"
      <4>1. r.queue["L1D"] = s.queue["L1D"]
        BY <1>1, <1>4, <3>2
      <4>2. QED
        BY <1>4, <2>1, <4>1 DEF Owned
    <3>3. QED
      BY <3>1, <3>2
  <2>7. QED
    BY <2>3, <2>4, <2>5, <2>6 DEF Arranged
<1>7. r.abort = "none" => s.abort = "none" /\ Arranged(s, Passes(c, j), r, 0, req)
  BY <1>4, <1>6
<1>8. QED
  BY <1>4, <1>7, ArrangedRight

\* The two passes over a cache's queue, and the loop between them.
TwoPasses(s, c, victim, n, start, x) ==
  /\ n \in Nat /\ Typed(start) /\ Typed(x) /\ Sound(start, 0)
  /\ Rearranged(s, c, 0, start) /\ DueFirst(c, s.queue[c], n, start.queue[c])
  /\ x = AllProcessed(start, c, n, victim, [i \in 1 .. n |-> i])
  /\ Rearranged(x, c, n, CacheTick(s, c, victim))

\* They are a cache's Tick.
LEMMA CacheTickPasses ==
  ASSUME NEW s, Typed(s), NEW c \in Caches, Sorted(s.queue[c]),
         NEW victim, Evicts(victim), Sound(s, 0)
  PROVE  \E n, start, x : TwoPasses(s, c, victim, n, start, x)
<1>1. c \in Levels /\ s.queue[c] \in Seq(PacketSet(c)) /\ 0 \in Nat
  BY DEF Levels, Typed, QueuesTyped
<1>2. PICK n : n = Len(Select(s.queue[c], TRUE))
  OBVIOUS
<1>3. PICK first : first = ReadyFirst(s.queue[c])
  OBVIOUS
<1>4. DueFirst(c, s.queue[c], n, first)
  BY <1>1, <1>2, <1>3, ReadyFirstEffect
<1>5. first \in Seq(PacketSet(c)) /\ n \in Nat
  BY <1>4 DEF DueFirst
<1>6. PICK start : start = [s EXCEPT !.queue[c] = ReadyFirst(@)]
  OBVIOUS
<1>7. start = WithQueue(s, c, first)
  BY <1>3, <1>6 DEF WithQueue
<1>8. PICK seq : seq = [i \in 1 .. n |-> i]
  OBVIOUS
<1>9. PICK x : x = AllProcessed(start, c, n, victim, seq)
  OBVIOUS
<1>10. PICK r : r = [x EXCEPT !.queue[c] = Select(@, FALSE)]
  OBVIOUS
<1>11. CacheTick(s, c, victim) = r
  <2>1. CacheTick(s, c, victim) =
          [AllProcessed([s EXCEPT !.queue[c] = ReadyFirst(@)], c,
                        Len(Select(s.queue[c], TRUE)), victim,
                        [i \in 1 .. Len(Select(s.queue[c], TRUE)) |-> i])
             EXCEPT !.queue[c] = Select(@, FALSE)]
    BY Zenon DEF CacheTick, AllProcessed
  <2>2. AllProcessed([s EXCEPT !.queue[c] = ReadyFirst(@)], c,
                     Len(Select(s.queue[c], TRUE)), victim,
                     [i \in 1 .. Len(Select(s.queue[c], TRUE)) |-> i]) = x
    BY <1>2, <1>6, <1>8, <1>9, Zenon
  <2>3. QED
    BY <1>10, <2>1, <2>2, Zenon
<1>12. /\ Typed(start) /\ start.abort = s.abort /\ start.blocks = s.blocks
       /\ start.queue[c] = first /\ QueueSet(s, c, ReadyFirst(s.queue[c]), start)
       /\ Rearranged(s, c, 0, start)
  <2>1. /\ Typed(start) /\ start.blocks = s.blocks /\ start.mshr = s.mshr
        /\ start.abort = s.abort /\ start.out = s.out /\ start.store = s.store
        /\ \A d \in Levels \ {c} : start.queue[d] = s.queue[d]
        /\ start.queue[c] = first
    BY <1>1, <1>5, <1>7, QueueChange
  <2>2. Rearranges(s.queue[c], 0, ReadyFirst(s.queue[c]))
    BY <1>1, FirstRearranges
  <2>3. Rearranged(s, c, 0, start)
    BY <1>3, <2>1, <2>2 DEF Rearranged
  <2>4. QED
    BY <1>3, <2>1, <2>3 DEF QueueSet
<1>13. Sound(start, 0)
  <2>1. Requeued(s, c, 0, start, 0)
    BY <1>1, <1>5, <1>12, FirstPass
  <2>2. Passes(c, 0) = 0
    BY DEF Passes
  <2>3. QED
    BY <2>1, <2>2, RequeuedExact
<1>14. DueFirst(c, s.queue[c], n, start.queue[c])
  BY <1>4, <1>12
<1>15. TickingExact([c |-> c, from |-> start], n, x)
  BY <1>8, <1>9, <1>12, <1>13, <1>14, AllProcessedExact
<1>17. /\ Typed(x) /\ TickedQueue(c, n, first, x.queue[c])
  BY <1>12, <1>15 DEF TickingExact, Ticking
<1>18. x.queue[c] \in Seq(PacketSet(c))
  BY <1>1, <1>17 DEF Typed, QueuesTyped
<1>19. PICK y \in Seq(PacketSet(c)) : y = Select(x.queue[c], FALSE)
  <2>1. FALSE \in BOOLEAN
    OBVIOUS
  <2>2. Select(x.queue[c], FALSE) \in Seq(PacketSet(c))
    BY <1>1, <1>18, <2>1, SelectOrder
  <2>3. QED
    BY <2>2
<1>20. Rearranged(x, c, n, r)
  <2>1. r = WithQueue(x, c, y)
    BY <1>10, <1>19 DEF WithQueue
  <2>2. Typed(x) /\ y \in Seq(PacketSet(c)) /\ c \in Levels
    BY <1>1, <1>17, <1>19
  <2>3. /\ r.blocks = x.blocks /\ r.mshr = x.mshr
        /\ r.abort = x.abort /\ r.out = x.out /\ r.store = x.store
        /\ \A d \in Levels \ {c} : r.queue[d] = x.queue[d]
        /\ r.queue[c] = y
    BY <2>1, <2>2, QueueChange
  <2>4. AllDone(x.queue[c], n)
    BY <1>1, <1>4, <1>17, <1>18, LaterReady
  <2>5. Rearranges(x.queue[c], n, Select(x.queue[c], FALSE))
    BY <1>5, <1>18, <2>4, LastRearranges
  <2>6. Rearranges(x.queue[c], n, y)
    BY <1>19, <2>5
  <2>7. QED
    BY <2>3, <2>6 DEF Rearranged
<1>21. TwoPasses(s, c, victim, n, start, x)
  BY <1>5, <1>8, <1>9, <1>11, <1>12, <1>13, <1>14, <1>17, <1>20 DEF TwoPasses
<1>22. QED
  BY <1>21

\* A Tick of a cache leaves the hierarchy right.
LEMMA CacheTickRight ==
  ASSUME NEW s, Typed(s), NEW c \in Caches, Sorted(s.queue[c]),
         NEW victim, Evicts(victim), Sound(s, 0),
         NEW m \in [Addresses -> Values], NEW req, Right(s, 0, m, req)
  PROVE  LET r == CacheTick(s, c, victim) IN Alone(r) => Right(r, 0, m, req)
<1> DEFINE r == CacheTick(s, c, victim)
<1> SUFFICES ASSUME Alone(r) PROVE Right(r, 0, m, req)
  OBVIOUS
<1> HIDE DEF r
<1>1. PICK n, start, x : TwoPasses(s, c, victim, n, start, x)
  BY CacheTickPasses
<1>2. PICK seq : seq = [i \in 1 .. n |-> i]
  OBVIOUS
<1>3. /\ n \in Nat /\ Typed(start) /\ Sound(start, 0)
      /\ Rearranged(s, c, 0, start) /\ DueFirst(c, s.queue[c], n, start.queue[c])
      /\ x = AllProcessed(start, c, n, victim, seq)
      /\ Typed(x) /\ Rearranged(x, c, n, r)
  BY <1>1, <1>2 DEF TwoPasses, r
<1>4. Right(start, 0, m, req)
  <2>1. Passes(c, 0) = 0 /\ 0 \in Nat
    BY DEF Passes
  <2>2. QED
    BY <1>3, <2>1, RearrangedRight
<1>a. Alone(x)
  BY <1>3 DEF Rearranged, Alone
<1>5. Right(x, Passes(c, n), m, req)
  BY <1>2, <1>3, <1>4, <1>a, AllProcessedRight
<1>6. QED
  BY <1>3, <1>5, RearrangedRight

-------------------------------------------------------------------------------
(* The latest values are the image.                                          *)

\* A set of places that is not empty has a last one.
LEMMA LastPlace ==
  ASSUME NEW n \in Nat, NEW S \in SUBSET (1 .. n), S # {}
  PROVE  Max(S) \in S
<1>1. PICK T : T = {n - i : i \in S}
  OBVIOUS
<1>2. \A i \in S : i \in Nat /\ i <= n
  OBVIOUS
<1>3. T \in SUBSET Nat /\ T # {}
  <2>1. \A i \in S : n - i \in Nat
    BY <1>2
  <2>2. QED
    BY <1>1, <2>1, Zenon
<1>4. PICK t \in T : \A u \in T : t <= u
  BY <1>3, L1Fold!Least
<1>5. PICK i \in S : t = n - i
  BY <1>1, <1>4
<1>6. \A j \in S : i >= j
  BY <1>1, <1>2, <1>4, <1>5
<1>7. QED
  BY <1>6, Zenon DEF Max

\* The write-backs of a line that are on their way to a level.
LEMMA SentBelow ==
  ASSUME Alone(State), Typed(State), NEW a \in Addresses
  PROVE  /\ ToL2(State, 0, BlockAddress(a)) = {p.data : p \in WriteBacks("L2", a)}
         /\ ToMem(State, BlockAddress(a)) = {p.data : p \in WriteBacks("Mem", a)}
<1>1. "L2" \in Levels /\ "Mem" \in Levels /\ "L2" \in Caches /\ "Mem" \notin Caches
  BY DEF Levels, Caches
<1>2. PICK line : line = BlockAddress(a)
  OBVIOUS
<1>3. State.queue = queue /\ State.mshr = mshr
  BY DEF State
<1>4. PICK q \in Seq(PacketSet("L2")) : q = queue["L2"]
  <2>1. queue["L2"] \in Seq(PacketSet("L2"))
    BY <1>1, <1>3 DEF Typed, QueuesTyped
  <2>2. QED
    BY <2>1
<1>5. PICK down \in Seq(PacketSet("Mem")) : down = queue["Mem"]
  <2>1. queue["Mem"] \in Seq(PacketSet("Mem"))
    BY <1>1, <1>3 DEF Typed, QueuesTyped
  <2>2. QED
    BY <2>1
<1>6. /\ mshr["L2"][1].sub \in Seq(PacketSet("L2")) /\ 1 \in DOMAIN mshr["L2"]
      /\ \A i \in DOMAIN mshr["L2"] : i # 1 => mshr["L2"][i].sub = <<>>
  <2>1. /\ 1 \in 1 .. MshrEntries["L2"]
        /\ \A i \in 1 .. MshrEntries["L2"] : i # 1 => i \in 2 .. MshrEntries["L2"]
    BY <1>1, Geometry
  <2>2. mshr["L2"] \in [1 .. MshrEntries["L2"] -> EntrySet("L2")]
    BY <1>1, <1>3 DEF Typed, MshrTyped
  <2>3. mshr["L2"][1] \in EntrySet("L2")
    BY <2>1, <2>2
  <2>4. \A i \in 1 .. MshrEntries["L2"] : i # 1 => mshr["L2"][i].sub = <<>>
    BY <1>1, <1>3, <2>1 DEF Alone
  <2>5. QED
    BY <2>1, <2>2, <2>3, <2>4 DEF EntrySet
<1>7. PICK sub \in Seq(PacketSet("L2")) : sub = mshr["L2"][1].sub
  BY <1>6
<1>8. ASSUME NEW S, NEW t \in Seq(S)
      PROVE  Backs(t, 0, line) =
               {p.data : p \in {x \in Range(t) : x.type = "writeback" /\ x.addr = line}}
  <2>1. DOMAIN t = 1 .. Len(t) /\ \A i \in 1 .. Len(t) : i > 0
    OBVIOUS
  <2>2. LiveAt(t, 0, "writeback", line) =
          {i \in DOMAIN t : t[i].type = "writeback" /\ t[i].addr = line}
    BY <2>1 DEF LiveAt, Is
  <2>3. QED
    BY <2>2 DEF Backs, Range
<1>9. /\ WriteBacks("L2", a) = {p \in Range(q) \cup Range(sub) :
                                   p.type = "writeback" /\ p.addr = line}
      /\ WriteBacks("Mem", a) = {p \in Range(down) :
                                   p.type = "writeback" /\ p.addr = line}
  <2>1. Packets("L2") = Range(q) \cup Range(sub)
    <3>1. Range(<<>>) = {}
      BY DEF Range
    <3>2. UNION {Range(mshr["L2"][i].sub) : i \in DOMAIN mshr["L2"]} = Range(sub)
      BY <1>6, <1>7, <3>1
    <3>3. QED
      BY <1>1, <1>4, <3>2 DEF Packets
  <2>2. Packets("Mem") = Range(down)
    BY <1>1, <1>5 DEF Packets
  <2>3. QED
    BY <1>2, <2>1, <2>2 DEF WriteBacks
<1>10. Backs(q, 0, line) =
         {p.data : p \in {x \in Range(q) : x.type = "writeback" /\ x.addr = line}}
  BY <1>8
<1>11. Backs(sub, 0, line) =
         {p.data : p \in {x \in Range(sub) : x.type = "writeback" /\ x.addr = line}}
  BY <1>8
<1>12. Backs(down, 0, line) =
         {p.data : p \in {x \in Range(down) : x.type = "writeback" /\ x.addr = line}}
  BY <1>8
<1>13. ToL2(State, 0, line) = {p.data : p \in WriteBacks("L2", a)}
  BY <1>3, <1>4, <1>7, <1>9, <1>10, <1>11 DEF ToL2
<1>14. ToMem(State, line) = {p.data : p \in WriteBacks("Mem", a)}
  BY <1>3, <1>5, <1>9, <1>12 DEF ToMem
<1>15. QED
  BY <1>2, <1>13, <1>14

\* The last one sent is one of them.
LEMMA NewestSent ==
  ASSUME Typed(State), NEW c \in Levels, NEW a, WriteBacks(c, a) # {}
  PROVE  Newest(c, a) \in WriteBacks(c, a)
<1>1. queue[c] \in Seq(PacketSet(c))
  BY DEF Typed, QueuesTyped, State
<1>2. DOMAIN queue[c] = 1 .. Len(queue[c]) /\ Len(queue[c]) \in Nat
  BY <1>1
<1>3. PICK queued : queued = {i \in DOMAIN queue[c] : queue[c][i] \in WriteBacks(c, a)}
  OBVIOUS
<1>4. CASE queued # {}
  <2>1. Newest(c, a) = queue[c][Max(queued)]
    BY <1>3, <1>4, Zenon DEF Newest
  <2>2. Max(queued) \in queued
    BY <1>2, <1>3, <1>4, LastPlace
  <2>3. QED
    BY <1>3, <2>1, <2>2
<1>5. CASE queued = {}
  <2>1. Newest(c, a) = CHOOSE p \in WriteBacks(c, a) : TRUE
    BY <1>3, <1>5, Zenon DEF Newest
  <2>2. QED
    BY <2>1
<1>6. QED
  BY <1>4, <1>5

\* The image of memory: the latest value of each word.
Memory == [a \in Addresses |-> Latest(a)]

\* A word's latest value is the image's.
LEMMA LatestIs ==
  ASSUME Alone(State), Typed(State), NEW m \in [Addresses -> Values], Coherent(State, 0, m),
         NEW a \in Addresses
  PROVE  Latest(a) = m[a]
<1>1. PICK line \in Lines : line = BlockAddress(a)
  BY LineOf
<1>2. PICK o \in Offsets : o = a % BlkSize
  BY LineOf
<1>3. line + o = a
  BY <1>1, <1>2, LineOf
<1>4. PICK image : image = Image(m, line)
  OBVIOUS
<1>5. image[o] = m[a]
  BY <1>2, <1>3, <1>4 DEF Image
<1>6. Unique(State) /\ AgreeAt(State, 0, line, image)
  BY <1>4 DEF Coherent, Covered, Shaped
<1>7. PICK i, d, back, copies, down, stored :
        /\ i = Copies(State, "L1I", line) /\ d = Copies(State, "L1D", line)
        /\ back = ToL2(State, 0, line) /\ copies = Copies(State, "L2", line)
        /\ down = ToMem(State, line) /\ stored = Image(State.store, line)
  OBVIOUS
<1>8. Agree(i, d, back, copies, down, stored, image)
  BY <1>6, <1>7 DEF AgreeAt
<1>9. /\ \A c \in Caches : Has(c, a) =>
           /\ Copies(State, c, line) = {BlockAt(State, c, a)}
           /\ WordIn(c, a) = BlockAt(State, c, a).data[o]
      /\ \A c \in Caches : ~Has(c, a) => Copies(State, c, line) = {}
  <2> SUFFICES ASSUME NEW c \in Caches
               PROVE  /\ Has(c, a) =>
                           /\ Copies(State, c, line) = {BlockAt(State, c, a)}
                           /\ WordIn(c, a) = BlockAt(State, c, a).data[o]
                      /\ ~Has(c, a) => Copies(State, c, line) = {}
    OBVIOUS
  <2>1. CASE Has(c, a)
    <3>1. Holding(State, c, a) # {}
      BY <2>1 DEF Has
    <3>2. Copies(State, c, line) = {BlockAt(State, c, a)}
      BY <1>1, <1>6, <3>1, OneCopy
    <3>3. WordIn(c, a) = BlockAt(State, c, a).data[o]
      BY <1>2 DEF WordIn, BlockAt, Way, State
    <3>4. QED
      BY <2>1, <3>2, <3>3
  <2>2. CASE ~Has(c, a)
    <3>1. Holding(State, c, a) = {}
      BY <2>2 DEF Has
    <3>2. Holding(State, c, line) = {}
      BY <1>1, <3>1, SamePlace DEF Holding
    <3>3. QED
      BY <2>2, <3>2 DEF Copies
  <2>3. QED
    BY <2>1, <2>2
<1>10. /\ back = {p.data : p \in WriteBacks("L2", a)}
       /\ down = {p.data : p \in WriteBacks("Mem", a)}
  BY <1>1, <1>7, SentBelow
<1>11. "L1D" \in Caches /\ "L2" \in Caches /\ "L2" \in Levels /\ "Mem" \in Levels
  BY DEF Caches, Levels
<1>12. CASE Has("L1D", a)
  <2>1. d = {BlockAt(State, "L1D", a)} /\ WordIn("L1D", a) = BlockAt(State, "L1D", a).data[o]
    BY <1>7, <1>9, <1>11, <1>12
  <2>2. BlockAt(State, "L1D", a).data = image
    BY <1>8, <2>1 DEF Agree
  <2>3. Latest(a) = WordIn("L1D", a)
    BY <1>12 DEF Latest
  <2>4. QED
    BY <1>5, <2>1, <2>2, <2>3
<1>13. CASE ~Has("L1D", a) /\ WriteBacks("L2", a) # {}
  <2>1. Newest("L2", a) \in WriteBacks("L2", a)
    BY <1>11, <1>13, NewestSent
  <2>2. Newest("L2", a).data \in back
    BY <1>10, <2>1
  <2>3. Newest("L2", a).data = image
    BY <1>8, <2>2 DEF Agree
  <2>4. Latest(a) = Newest("L2", a).data[o]
    BY <1>2, <1>13 DEF Latest
  <2>5. QED
    BY <1>5, <2>3, <2>4
<1>14. CASE ~Has("L1D", a) /\ WriteBacks("L2", a) = {}
  <2>1. d = {} /\ back = {}
    BY <1>7, <1>9, <1>10, <1>11, <1>14
  <2>2. ~Behind(d, back)
    BY <2>1 DEF Behind
  <2>3. CASE Has("L2", a)
    <3>1. /\ copies = {BlockAt(State, "L2", a)}
          /\ WordIn("L2", a) = BlockAt(State, "L2", a).data[o]
      BY <1>7, <1>9, <1>11, <2>3
    <3>2. BlockAt(State, "L2", a).data = image
      BY <1>8, <2>2, <3>1 DEF Agree
    <3>3. Latest(a) = WordIn("L2", a)
      BY <1>14, <2>3 DEF Latest
    <3>4. QED
      BY <1>5, <3>1, <3>2, <3>3
  <2>4. CASE ~Has("L2", a) /\ WriteBacks("Mem", a) # {}
    <3>1. Newest("Mem", a) \in WriteBacks("Mem", a)
      BY <1>11, <2>4, NewestSent
    <3>2. Newest("Mem", a).data \in down
      BY <1>10, <3>1
    <3>3. Newest("Mem", a).data = image
      BY <1>8, <2>2, <3>2 DEF Agree
    <3>4. Latest(a) = Newest("Mem", a).data[o]
      BY <1>2, <1>14, <2>4 DEF Latest
    <3>5. QED
      BY <1>5, <3>3, <3>4
  <2>5. CASE ~Has("L2", a) /\ WriteBacks("Mem", a) = {}
    <3>1. copies = {} /\ down = {}
      BY <1>7, <1>9, <1>10, <1>11, <2>5
    <3>2. stored = image
      BY <1>8, <2>2, <3>1 DEF Agree
    <3>3. stored[o] = store[a]
      BY <1>3, <1>7 DEF Image, State
    <3>4. Latest(a) = store[a]
      BY <1>14, <2>5 DEF Latest
    <3>5. QED
      BY <1>5, <3>2, <3>3, <3>4
  <2>6. QED
    BY <2>3, <2>4, <2>5
<1>15. QED
  BY <1>12, <1>13, <1>14

\* The latest values are those of the image that the copies agree with.
MemoryIs ==
  Alone(State) /\ Typed(State) =>
    \A m \in [Addresses -> Values] : Coherent(State, 0, m) => Memory = m

\* They are.
LEMMA OneMemory == MemoryIs
<1> SUFFICES ASSUME Alone(State), Typed(State), NEW m \in [Addresses -> Values],
                    Coherent(State, 0, m)
             PROVE  Memory = m
  BY DEF MemoryIs
<1>1. \A a \in Addresses : Latest(a) = m[a]
  BY LatestIs
<1>2. QED
  BY <1>1 DEF Memory

\* And will be.
LEMMA OneMemoryNext == MemoryIs'
BY OneMemory, PTL

-------------------------------------------------------------------------------
(* The steps.                                                                *)

\* Until misses overlap, the copies agree with an image of memory, and the L1D's
\* packets are the core's request.
CoherentInv ==
  Alone(State) => \E m \in [Addresses -> Values] : Right(State, 0, m, dataReq)

\* Between Ticks no answer is on its way.
LEMMA RestRight ==
  ASSUME NEW s, s.out = <<>>, NEW k, NEW m, NEW req
  PROVE  Right(s, k, m, req) <=>
           (s.abort = "none" => Coherent(s, k, m) /\ Owned(s, req))
<1>1. Len(s.out) = 0
  OBVIOUS
<1>2. \A i : ~(i \in 1 .. Len(s.out))
  BY <1>1
<1>3. After(m, s.out, req) = m /\ Answered(m, s.out, req)
  BY <1>2 DEF After, Answered
<1>4. QED
  BY <1>3 DEF Right

\* The L1D has no packet, of whichever request of the core's.
LEMMA NoneOwned ==
  ASSUME NEW s, Typed(s),
         \A kind \in {"load", "store"}, a \in DataWords : InLevel1(s, kind, a) = 0
  PROVE  \A req : Owned(s, req)
<1>1. "L1D" \in Levels /\ "L1D" \in Caches
  BY DEF Levels, Caches
<1>2. PICK q \in Seq(PacketSet("L1D")) : q = s.queue["L1D"]
  <2>1. s.queue["L1D"] \in Seq(PacketSet("L1D"))
    BY <1>1 DEF Typed, QueuesTyped
  <2>2. QED
    BY <2>1
<1>3. /\ s.mshr["L1D"][1].sub \in Seq(PacketSet("L1D"))
      /\ Len(s.mshr["L1D"][1].sub) <= MshrSubentries["L1D"]
      /\ 1 \in 1 .. MshrEntries["L1D"]
  <2>1. 1 \in 1 .. MshrEntries["L1D"]
    BY <1>1, Geometry
  <2>2. s.mshr["L1D"] \in [1 .. MshrEntries["L1D"] -> EntrySet("L1D")]
    BY <1>1 DEF Typed, MshrTyped
  <2>3. s.mshr["L1D"][1] \in EntrySet("L1D")
    BY <2>1, <2>2
  <2>4. QED
    BY <2>1, <2>3 DEF EntrySet
<1>4. PICK sub \in Seq(PacketSet("L1D")) : sub = s.mshr["L1D"][1].sub
  BY <1>3
<1>5. ASSUME NEW p \in PacketSet("L1D")
      PROVE  /\ p.type \in {"load", "store"} /\ p.addr \in DataWords
             /\ CacheOf(p.type) = "L1D" /\ Is(p, p.type, p.addr)
  BY DEF PacketSet, Reads, Stores, CacheOf, Is
<1>6. ASSUME NEW kind \in {"load", "store"}, NEW a \in DataWords
      PROVE  Num(q, kind, a) = 0 /\ WaitNum(s, "L1D", kind, a) = 0
  <2>1. InLevel1(s, kind, a) = 0 /\ CacheOf(kind) = "L1D"
    BY DEF CacheOf
  <2>2. /\ InLevel1(s, kind, a) =
             Num(s.queue[CacheOf(kind)], kind, a) + WaitNum(s, CacheOf(kind), kind, a)
        /\ Num(s.queue[CacheOf(kind)], kind, a) \in Nat
        /\ WaitNum(s, CacheOf(kind), kind, a) \in Nat
    BY InLevel1Is
  <2>3. QED
    BY <1>2, <2>1, <2>2
<1>7. \A i : ~(i \in 1 .. Len(q))
  <2> SUFFICES ASSUME NEW i \in 1 .. Len(q) PROVE FALSE
    OBVIOUS
  <2>1. PICK p \in PacketSet("L1D") : p = q[i]
    OBVIOUS
  <2>2. PICK kind \in {"load", "store"}, a \in DataWords : Is(q[i], kind, a)
    BY <1>5, <2>1
  <2>3. Live(q, 0, kind, a) = 0
    BY <1>6, LiveFirst
  <2>4. IsFiniteSet(LiveAt(q, 0, kind, a))
    BY LiveType
  <2>5. LiveAt(q, 0, kind, a) = {}
    BY <2>3, <2>4, FS_EmptySet DEF Live
  <2>6. i > 0
    OBVIOUS
  <2>7. QED
    BY <2>2, <2>5, <2>6 DEF LiveAt
<1>8. \A i : ~(i \in 1 .. Len(sub))
  <2> SUFFICES ASSUME NEW i \in 1 .. Len(sub) PROVE FALSE
    OBVIOUS
  <2>1. PICK p \in PacketSet("L1D") : p = sub[i]
    OBVIOUS
  <2>2. PICK kind \in {"load", "store"}, a \in DataWords : Is(sub[i], kind, a)
    BY <1>5, <2>1
  <2>3. WaitNum(s, "L1D", kind, a) = 0
    BY <1>6
  <2>4. IsFiniteSet(Waiting(s, "L1D", kind, a))
    BY <1>1, WaitType
  <2>5. Waiting(s, "L1D", kind, a) = {}
    BY <2>3, <2>4, FS_EmptySet DEF WaitNum
  <2>6. PICK w : w = <<1, i>>
    OBVIOUS
  <2>7. MshrSubentries["L1D"] \in Nat /\ Len(sub) \in Nat /\ Len(sub) <= MshrSubentries["L1D"]
    BY <1>1, <1>3, <1>4, Geometry
  <2>8. i \in 1 .. MshrSubentries["L1D"] /\ i <= Len(sub)
    BY <2>7
  <2>9. w \in (1 .. MshrEntries["L1D"]) \X (1 .. MshrSubentries["L1D"]) /\ w[1] = 1 /\ w[2] = i
    BY <1>3, <2>6, <2>8
  <2>10. w \in Waiting(s, "L1D", kind, a)
    BY <1>4, <2>2, <2>8, <2>9 DEF Waiting
  <2>11. QED
    BY <2>5, <2>10
<1>9. QED
  BY <1>2, <1>4, <1>7, <1>8 DEF Owned

\* The clock leaves the packets in their order.
LEMMA ElapsedRearranges ==
  ASSUME NEW queues, QueuesTyped(queues), NEW c \in Levels
  PROVE  /\ Rearranges(queues[c], 0, Elapsed(queues)[c])
         /\ Len(Elapsed(queues)[c]) = Len(queues[c])
         /\ \A i \in 1 .. Len(queues[c]) : SamePacket(Elapsed(queues)[c][i], queues[c][i])
<1>1. PICK q \in Seq(PacketSet(c)) : q = queues[c]
  BY DEF QueuesTyped
<1>2. PICK r : r = [i \in DOMAIN q |-> [q[i] EXCEPT !.ready = @ - 1]]
  OBVIOUS
<1>3. Elapsed(queues)[c] = r
  BY <1>1, <1>2 DEF Elapsed
<1>4. DOMAIN q = 1 .. Len(q) /\ Len(q) \in Nat
  OBVIOUS
<1>5. Len(r) = Len(q)
  BY <1>2, <1>4
<1>6. \A i \in 1 .. Len(q) : SamePacket(r[i], q[i])
  <2> TAKE i \in 1 .. Len(q)
  <2>1. q[i] \in PacketSet(c)
    OBVIOUS
  <2>2. {"type", "addr", "data", "ready"} \subseteq DOMAIN q[i]
    BY <2>1 DEF PacketSet, Reads, Stores, WriteBacksOf
  <2>3. r[i] = [q[i] EXCEPT !.ready = @ - 1]
    BY <1>2, <1>4
  <2>4. r[i].type = q[i].type /\ r[i].addr = q[i].addr /\ r[i].data = q[i].data
    BY <2>2, <2>3
  <2>5. QED
    BY <2>4 DEF SamePacket
<1>7. PICK f : f = [i \in 1 .. Len(q) |-> i]
  OBVIOUS
<1>8. LivePlaces(q, 0) = 1 .. Len(q) /\ LivePlaces(r, 0) = 1 .. Len(q)
  BY <1>4, <1>5 DEF LivePlaces
<1>9. \A i \in 1 .. Len(q) : f[i] = i
  BY <1>7
<1>10. Embeds(q, 0, r, 0, f)
  BY <1>6, <1>8, <1>9 DEF Embeds
<1>11. Rearranges(q, 0, r)
  BY <1>8, <1>9, <1>10 DEF Rearranges
<1>12. QED
  BY <1>1, <1>3, <1>5, <1>6, <1>11

\* A request of the core's is put in the L1D's queue.
LEMMA RequestedOwned ==
  ASSUME TimingInv, Owned(State, dataReq), NEW data \in DataRequests \cup {NULL},
         data # NULL => dataReq = NULL, NEW fetch \in TextWords \cup {NULL}, NEW s1, NEW s2,
         Requested(data, fetch, s1, s2), NEW req, req = IF data = NULL THEN dataReq ELSE data
  PROVE  /\ Owned(State, req)
         /\ \A i \in 1 .. Len(s2.queue["L1D"]) : Mine(s2.queue["L1D"][i], req)
<1>1. "L1D" \in Levels /\ "L1D" \in Levels \ {"L1I"} /\ Typed(State) /\ State.queue = queue
  BY DEF Levels, Caches, TimingInv, State
<1>2. PICK own \in Seq(PacketSet("L1D")) : own = queue["L1D"]
  <2>1. queue["L1D"] \in Seq(PacketSet("L1D"))
    BY <1>1 DEF Typed, QueuesTyped
  <2>2. QED
    BY <2>1
<1>3. Owned(State, req)
  <2>1. CASE data = NULL
    BY <2>1
  <2>2. CASE data # NULL
    BY <2>2 DEF Owned, Mine
  <2>3. QED
    BY <2>1, <2>2
<1>4. \A i \in 1 .. Len(own) : Mine(own[i], req)
  BY <1>1, <1>2, <1>3 DEF Owned
<1>5. /\ Typed(s1)
      /\ \A i \in 1 .. Len(s1.queue["L1D"]) : Mine(s1.queue["L1D"][i], req)
  <2>1. CASE data = NULL
    BY <1>1, <1>2, <1>4, <2>1 DEF Requested
  <2>2. CASE data # NULL
    <3>1. PICK q \in PacketSet("L1D") : q = [RequestPacket(data) EXCEPT !.ready = Delay["L1D"]]
      BY <2>2, RequestTyped
    <3>2. s1 = recvReq(State, "L1D", RequestPacket(data))
      BY <2>2 DEF Requested
    <3>3. Asked(State, "L1D", q, s1)
      BY <1>1, <3>1, <3>2, AskEffect
    <3>4. Mine(q, req)
      BY <2>2, <3>1 DEF RequestPacket, Packet, Mine
    <3>5. PICK t : t = Append(own, q)
      OBVIOUS
    <3>6. Typed(s1) /\ s1.queue["L1D"] = t
      BY <1>1, <1>2, <3>3, <3>5 DEF Asked
    <3>7. Len(t) = Len(own) + 1 /\ Len(own) \in Nat
      BY <3>5
    <3>8. \A i \in 1 .. Len(t) : IF i = Len(own) + 1 THEN t[i] = q ELSE i \in 1 .. Len(own) /\ t[i] = own[i]
      BY <3>5, <3>7
    <3>9. \A i \in 1 .. Len(t) : Mine(t[i], req)
      BY <1>4, <3>4, <3>8
    <3>10. QED
      BY <3>6, <3>9
  <2>3. QED
    BY <2>1, <2>2
<1>6. s2.queue["L1D"] = s1.queue["L1D"]
  <2>1. CASE fetch = NULL
    BY <2>1 DEF Requested
  <2>2. CASE fetch # NULL
    <3>1. PICK q \in PacketSet("L1I") :
            q = [Packet("fetch", fetch, <<>>) EXCEPT !.ready = Delay["L1I"]]
      BY <2>2, RequestTyped
    <3>2. s2 = recvReq(s1, "L1I", Packet("fetch", fetch, <<>>))
      BY <2>2 DEF Requested
    <3>3. Asked(s1, "L1I", q, s2)
      BY <1>5, <3>1, <3>2, AskEffect
    <3>4. QED
      BY <1>1, <3>3 DEF Asked
  <2>3. QED
    BY <2>1, <2>2
<1>7. QED
  BY <1>3, <1>5, <1>6

\* The core's cycle leaves the image as it was.
LEMMA CoreRight ==
  ASSUME TimingInv, NEW m, Right(State, 0, m, dataReq), CoreCycle
  PROVE  Right(State, 0, m, dataReq)'
<1>1. PICK data \in DataRequests \cup {NULL}, fetch \in TextWords \cup {NULL} :
        Core(data, fetch)
  BY DEF CoreCycle
<1>2. /\ data # NULL => dataReq = NULL
      /\ dataReq' = (IF data = NULL THEN dataReq ELSE data)
      /\ blocks' = blocks /\ mshr' = mshr /\ store' = store /\ abort' = abort
      /\ abort = "none"
  BY <1>1 DEF Core
<1>3. PICK s1, s2 : Requested(data, fetch, s1, s2) /\ queue' = Elapsed(s2.queue)
  BY <1>1, CoreRequests
<1>4. PICK s : s = State
  OBVIOUS
<1>5. PICK r : r = State'
  OBVIOUS
<1>6. PICK req : req = dataReq'
  OBVIOUS
<1>7. /\ s.queue = queue /\ s.mshr = mshr /\ s.blocks = blocks /\ s.store = store
      /\ s.abort = abort /\ s.out = <<>>
      /\ r.queue = queue' /\ r.mshr = mshr /\ r.blocks = blocks /\ r.store = store
      /\ r.abort = abort /\ r.out = <<>>
  BY <1>2, <1>4, <1>5 DEF State
<1>8. Coherent(s, 0, m) /\ Owned(State, dataReq)
  BY <1>2, <1>4, <1>7, RestRight
<1>9. req = (IF data = NULL THEN dataReq ELSE data)
  BY <1>2, <1>6
<1>10. /\ Owned(State, req)
       /\ \A i \in 1 .. Len(s2.queue["L1D"]) : Mine(s2.queue["L1D"][i], req)
  BY <1>2, <1>3, <1>8, <1>9, RequestedOwned
<1>11. Right(s, 0, m, req)
  BY <1>4, <1>7, <1>8, <1>10, RestRight
<1>12. Typed(s2) /\ s2.queue["L2"] = queue["L2"] /\ s2.queue["Mem"] = queue["Mem"]
  BY <1>3, RequestedTyped, RequestedBelow
<1>13. "L2" \in Levels /\ "Mem" \in Levels /\ "L1D" \in Levels /\ QueuesTyped(s2.queue)
  BY <1>12 DEF Levels, Caches, Typed
<1>14. /\ Rearranges(s.queue["L2"], 0, r.queue["L2"])
       /\ Rearranges(s.queue["Mem"], 0, r.queue["Mem"])
  <2>1. Rearranges(s2.queue["L2"], 0, Elapsed(s2.queue)["L2"])
    BY <1>13, ElapsedRearranges
  <2>2. Rearranges(s2.queue["Mem"], 0, Elapsed(s2.queue)["Mem"])
    BY <1>13, ElapsedRearranges
  <2>3. QED
    BY <1>3, <1>7, <1>12, <2>1, <2>2
<1>15. Owned(r, req)
  <2>1. PICK q : q = s2.queue["L1D"]
    OBVIOUS
  <2>2. PICK t : t = r.queue["L1D"]
    OBVIOUS
  <2>3. Elapsed(s2.queue)["L1D"] = t
    BY <1>3, <1>7, <2>2
  <2>4. Len(t) = Len(q) /\ \A i \in 1 .. Len(q) : SamePacket(t[i], q[i])
    BY <1>13, <2>1, <2>3, ElapsedRearranges
  <2>5. \A i \in 1 .. Len(q) : Mine(q[i], req)
    BY <1>10, <2>1
  <2>6. \A i \in 1 .. Len(t) : Mine(t[i], req)
    BY <2>4, <2>5 DEF Mine, SamePacket
  <2>7. Owned(s, req)
    BY <1>4, <1>10
  <2>8. QED
    BY <1>7, <2>2, <2>6, <2>7 DEF Owned
<1>16. Arranged(s, 0, r, 0, req)
  <2>1. InOrder2(s, 0) /\ InOrderMem(s) /\ Matched(s)
    BY <1>8 DEF Coherent, Shaped
  <2>2. ASSUME NEW a
        PROVE  /\ Backs(r.queue["L2"], 0, a) = Backs(s.queue["L2"], 0, a)
               /\ \A kind : Ahead(s.queue["L2"], 0, kind, a) => Ahead(r.queue["L2"], 0, kind, a)
    BY <1>14, RearrangesKeeps
  <2>3. ASSUME NEW a
        PROVE  /\ Backs(r.queue["Mem"], 0, a) = Backs(s.queue["Mem"], 0, a)
               /\ \A kind : Ahead(s.queue["Mem"], 0, kind, a) => Ahead(r.queue["Mem"], 0, kind, a)
    BY <1>14, RearrangesKeeps
  <2>4. r.mshr = s.mshr
    BY <1>7
  <2>5. \A a \in Lines : ToL2(r, 0, a) = ToL2(s, 0, a) /\ ToMem(r, a) = ToMem(s, a)
    BY <2>2, <2>3, <2>4 DEF ToL2, ToMem
  <2>6. InOrder2(r, 0)
    BY <2>1, <2>2, <2>4 DEF InOrder2
  <2>7. InOrderMem(r)
    BY <2>1, <2>3 DEF InOrderMem
  <2>8. Matched(r)
    BY <2>1, <2>4 DEF Matched
  <2>9. QED
    BY <1>15, <2>5, <2>6, <2>7, <2>8 DEF Arranged
<1>17. Right(r, 0, m, req)
  <2>1. /\ r.blocks = s.blocks /\ r.store = s.store /\ r.out = s.out
        /\ r.abort = "none" => s.abort = "none" /\ Arranged(s, 0, r, 0, req)
    BY <1>7, <1>16
  <2>2. QED
    BY <1>11, <2>1, ArrangedRight
<1>18. QED
  BY <1>5, <1>6, <1>17

\* A Tick's result is right.
LEMMA TickRight ==
  ASSUME Alone(State), TimingInv, ExactInv, NEW m \in [Addresses -> Values],
         Right(State, 0, m, dataReq), Tick
  PROVE  \E r : Becomes(r) /\ (Alone(r) => Right(r, 0, m, dataReq))
<1>1. Typed(State) /\ Sound(State, 0)
  BY DEF TimingInv, ExactInv
<1>2. PICK s : s = State
  OBVIOUS
<1>3. PICK req : req = dataReq
  OBVIOUS
<1>4. /\ Typed(s) /\ Sound(s, 0) /\ Right(s, 0, m, req)
      /\ \A c \in Caches : Sorted(s.queue[c])
  <2>1. s.queue = queue /\ \A c \in Caches : c \in Levels
    BY <1>2 DEF State, Levels
  <2>2. QED
    BY <1>1, <1>2, <1>3, <2>1 DEF TimingInv, Timely
<1>5. CASE TickMem
  <2>1. PICK b \in BOOLEAN : b = (\E i \in DOMAIN queue["Mem"] : Ready(queue["Mem"][i]))
    OBVIOUS
  <2>2. PICK v \in Victims(b) : Becomes(MemTick(State, v))
    BY <1>5, <2>1 DEF TickMem
  <2>3. Evicts(v)
    BY VictimsEvict
  <2>4. Right(MemTick(s, v), 0, m, req)
    BY <1>4, <2>3, MemTickRight
  <2>5. QED
    BY <1>2, <1>3, <2>2, <2>4
<1>6. ASSUME NEW c \in Caches, \E v \in Victims(FALSE) : Becomes(CacheTick(State, c, v))
      PROVE  \E r : Becomes(r) /\ (Alone(r) => Right(r, 0, m, dataReq))
  <2>1. PICK v \in Victims(FALSE) : Becomes(CacheTick(State, c, v))
    BY <1>6
  <2>2. Evicts(v)
    <3>1. FALSE \in BOOLEAN
      OBVIOUS
    <3>2. QED
      BY <3>1, VictimsEvict
  <2>3. Sorted(s.queue[c])
    BY <1>4
  <2>4. Alone(CacheTick(s, c, v)) => Right(CacheTick(s, c, v), 0, m, req)
    BY <1>4, <2>2, <2>3, CacheTickRight
  <2>5. QED
    BY <1>2, <1>3, <2>1, <2>4
<1>7. "L2" \in Caches /\ "L1I" \in Caches /\ "L1D" \in Caches
  BY DEF Caches
<1>8. QED
  BY <1>5, <1>6, <1>7 DEF Tick, TickL2, TickL1I, TickL1D

\* What the answers make of the image.
LEMMA AfterEffect ==
  ASSUME NEW out \in Seq(Answers), NEW m \in [Addresses -> Values],
         NEW req \in DataRequests \cup {NULL}, Answered(m, out, req)
  PROVE  /\ After(m, out, req) \in [Addresses -> Values]
         /\ IF \E i \in DOMAIN out : out[i].type # "fetch"
            THEN /\ req # NULL
                 /\ After(m, out, req) =
                      IF req.type = "store" THEN [m EXCEPT ![req.addr] = req.value] ELSE m
            ELSE After(m, out, req) = m
<1>1. DOMAIN out = 1 .. Len(out)
  OBVIOUS
<1>2. \A i \in 1 .. Len(out) : Fair(out[i], m, req)
  BY DEF Answered
<1>3. CASE \E i \in DOMAIN out : out[i].type # "fetch"
  <2>1. PICK i \in 1 .. Len(out) : out[i].type # "fetch"
    BY <1>1, <1>3
  <2>2. req # NULL /\ out[i].type = req.type
    BY <1>2, <2>1 DEF Fair
  <2>3. req \in DataRequests
    BY <2>2
  <2>4. /\ req.type = "store" => req.addr \in DataWords /\ req.value \in Values
        /\ req.type = "load" \/ req.type = "store"
    BY <2>3 DEF DataRequests
  <2>5. DataWords \subseteq Addresses
    BY WordsAreAddresses
  <2>6. CASE req.type = "store"
    <3>1. After(m, out, req) = [m EXCEPT ![req.addr] = req.value]
      BY <2>1, <2>2, <2>6 DEF After
    <3>2. [m EXCEPT ![req.addr] = req.value] \in [Addresses -> Values]
      BY <2>4, <2>5, <2>6
    <3>3. QED
      BY <1>3, <2>2, <2>6, <3>1, <3>2
  <2>7. CASE req.type # "store"
    <3>1. ~\E l \in 1 .. Len(out) : out[l].type = "store"
      BY <1>2, <2>7 DEF Fair
    <3>2. After(m, out, req) = m
      BY <3>1 DEF After
    <3>3. QED
      BY <1>3, <2>2, <2>7, <3>2
  <2>8. QED
    BY <2>6, <2>7
<1>4. CASE ~\E i \in DOMAIN out : out[i].type # "fetch"
  <2>1. ~\E l \in 1 .. Len(out) : out[l].type = "store"
    BY <1>1, <1>4
  <2>2. After(m, out, req) = m
    BY <2>1 DEF After
  <2>3. QED
    BY <1>4, <2>2
<1>5. QED
  BY <1>3, <1>4

\* So a Tick leaves the hierarchy, with the image that its answers make.
LEMMA TickLeaves ==
  ASSUME Alone(State), Alone(State'), TimingInv, RequestsInv, ExactInv, NEW m \in [Addresses -> Values],
         Right(State, 0, m, dataReq), Tick, abort' = "none"
  PROVE  /\ Answered(m, answers', dataReq)
         /\ After(m, answers', dataReq) \in [Addresses -> Values]
         /\ Right(State', 0, After(m, answers', dataReq), dataReq')
<1>1. PICK r : Becomes(r) /\ Right(r, 0, m, dataReq)
  <2>1. PICK u : Becomes(u) /\ (Alone(u) => Right(u, 0, m, dataReq))
    BY TickRight
  <2>2. PICK next : next = State'
    OBVIOUS
  <2>3. next.mshr = u.mshr /\ Alone(next)
    BY <2>1, <2>2 DEF Becomes, State
  <2>4. Alone(u)
    BY <2>3 DEF Alone
  <2>5. QED
    BY <2>1, <2>4
<1>2. PICK req : req = dataReq
  OBVIOUS
<1>3. PICK next : next = dataReq'
  OBVIOUS
<1>4. PICK s : s = State'
  OBVIOUS
<1>5. PICK out : out = answers'
  OBVIOUS
<1>6. /\ s.queue = r.queue /\ s.blocks = r.blocks /\ s.mshr = r.mshr /\ s.store = r.store
      /\ s.out = <<>> /\ out = r.out /\ r.abort = "none" /\ s.abort = "none"
      /\ next = IF \E i \in DOMAIN out : out[i].type # "fetch" THEN NULL ELSE req
  BY <1>1, <1>2, <1>3, <1>4, <1>5 DEF Becomes, State
<1>7. Coherent(r, 0, After(m, out, req)) /\ Answered(m, out, req) /\ Owned(r, req)
  BY <1>1, <1>2, <1>6 DEF Right
<1>8. PICK image : image = After(m, out, req)
  OBVIOUS
<1>9. out \in Seq(Answers)
  <2>1. PICK u : Typed(u) /\ Becomes(u)
    BY TickRequests
  <2>2. QED
    BY <1>5, <2>1 DEF Typed, Becomes
<1>10. req \in DataRequests \cup {NULL}
  BY <1>2 DEF TimingInv
<1>11. image \in [Addresses -> Values]
  BY <1>7, <1>8, <1>9, <1>10, AfterEffect
<1>12. Coherent(s, 0, image)
  <2>1. \A c, a : Copies(s, c, a) = Copies(r, c, a) /\ Holding(s, c, a) = Holding(r, c, a)
    BY <1>6 DEF Copies, Holding
  <2>2. \A a : /\ ToL2(s, 0, a) = ToL2(r, 0, a) /\ ToMem(s, a) = ToMem(r, a)
               /\ Image(s.store, a) = Image(r.store, a)
    BY <1>6 DEF ToL2, ToMem
  <2>3. Covered(r, 0, image) /\ Shaped(r, 0)
    BY <1>7, <1>8 DEF Coherent
  <2>4. Covered(s, 0, image)
    BY <2>1, <2>2, <2>3 DEF Covered, AgreeAt
  <2>5. Shaped(s, 0)
    BY <1>6, <2>1, <2>3, ShapedSame
  <2>6. QED
    BY <2>4, <2>5 DEF Coherent
<1>13. Owned(s, next)
  <2>1. CASE next = req
    BY <1>6, <1>7, <2>1 DEF Owned
  <2>2. CASE next = NULL
    <3>1. RequestsInv' /\ TimingInv'
      BY TickHolds, Ticks
    <3>2. ASSUME NEW kind \in {"load", "store"}, NEW a \in DataWords
          PROVE  InLevel1(s, kind, a) = 0
      <4>1. Pending(State', "L1D", kind, a) = OneIf(dataReq' # NULL /\ Is(dataReq', kind, a))
        BY <3>1 DEF RequestsInv, RequestsHeld
      <4>2. OneIf(dataReq' # NULL /\ Is(dataReq', kind, a)) = 0
        BY <1>3, <2>2 DEF OneIf
      <4>3. CacheOf(kind) = "L1D"
        BY DEF CacheOf
      <4>4. QED
        BY <1>4, <4>1, <4>2, <4>3 DEF InLevel1
    <3>3. Typed(s)
      BY <1>4, <3>1 DEF TimingInv
    <3>4. QED
      BY <3>2, <3>3, NoneOwned
  <2>3. QED
    BY <1>6, <2>1, <2>2
<1>14. Right(s, 0, image, next)
  BY <1>6, <1>12, <1>13, RestRight
<1>15. Answered(m, answers', dataReq)
  BY <1>2, <1>5, <1>7
<1>16. After(m, answers', dataReq) = image
  BY <1>2, <1>5, <1>8
<1>17. Right(State', 0, After(m, answers', dataReq), dataReq')
  BY <1>3, <1>4, <1>14, <1>16
<1>18. QED
  BY <1>11, <1>15, <1>16, <1>17

-------------------------------------------------------------------------------
(* The theorem.                                                              *)

\* The core's load or store is answered once.
LEMMA DataAnsweredOnce ==
  ASSUME TimingInv, RequestsInv, Tick, NEW m, Answered(m, answers', dataReq),
         NEW out, out = answers', \E i \in DOMAIN out : out[i].type # "fetch"
  PROVE  Cardinality({i \in DOMAIN out : out[i].type # "fetch"}) = 1
<1>1. PICK r : Typed(r) /\ Becomes(r) /\ RequestsKept(State, r)
  BY TickRequests
<1>2. PICK req \in DataRequests \cup {NULL} : req = dataReq
  BY DEF TimingInv
<1>3. r.out = out /\ out \in Seq(Answers)
  BY <1>1 DEF Becomes, Typed
<1>4. DOMAIN out = 1 .. Len(out)
  BY <1>3
<1>5. \A i \in DOMAIN out : Fair(out[i], m, req)
  BY <1>2, <1>4 DEF Answered
<1>6. PICK i \in DOMAIN out : out[i].type # "fetch"
  OBVIOUS
<1>7. req # NULL /\ out[i].type = req.type /\ out[i].addr = req.addr
  BY <1>5, <1>6 DEF Fair
<1>8. req \in DataRequests
  BY <1>7
<1>9. PICK kind \in {"load", "store"}, a \in DataWords : kind = req.type /\ a = req.addr
  BY <1>8 DEF DataRequests
<1>10. {l \in DOMAIN out : out[l].type # "fetch"} = {l \in DOMAIN out : Is(out[l], kind, a)}
  <2>1. \A l \in DOMAIN out : out[l].type # "fetch" => Is(out[l], kind, a)
    BY <1>5, <1>9 DEF Fair, Is
  <2>2. \A l \in DOMAIN out : Is(out[l], kind, a) => out[l].type # "fetch"
    BY DEF Is
  <2>3. QED
    BY <2>1, <2>2
<1>11. a \in Addresses /\ kind \in Kinds
  BY WordsAreAddresses DEF Kinds
<1>12. /\ InLevel1(State, kind, a)' + Num(r.out, kind, a) = InLevel1(State, kind, a)
       /\ Num(r.out, kind, a) \in Nat /\ InLevel1(State, kind, a)' \in Nat
       /\ InLevel1(State, kind, a) \in Nat
  BY <1>1, <1>11, AnsweredOnce
<1>13. InLevel1(State, kind, a) = OneIf(dataReq # NULL /\ Is(dataReq, kind, a))
  BY HeldIs DEF RequestsInv
<1>14. Num(r.out, r.out[i].type, r.out[i].addr) >= 1
  BY <1>1, <1>3, <1>6, AnswerCounts
<1>15. Num(out, kind, a) >= 1
  BY <1>3, <1>7, <1>9, <1>14
<1>16. Num(out, kind, a) = 1
  BY <1>3, <1>12, <1>13, <1>15 DEF OneIf
<1>17. QED
  BY <1>10, <1>16 DEF Num

\* The port counts as its instance does.
LEMMA SameCardinality ==
  \A S : Port!Cardinality(S) = Cardinality(S)
BY Zenon DEF Port!Cardinality, Cardinality

\* A Tick answers as one memory does.
LEMMA TickAnswers ==
  ASSUME TimingInv, RequestsInv, NEW m, Memory = m,
         Tick, Answered(m, answers', dataReq), Memory' = After(m, answers', dataReq),
         m \in [Addresses -> Values]
  PROVE  Port!PortNext
<1>1. PICK u : Typed(u) /\ Becomes(u) /\ RequestsKept(State, u)
  BY TickRequests
<1>2. PICK req \in DataRequests \cup {NULL} : req = dataReq
  BY DEF TimingInv
<1>3. PICK out \in Seq(Answers) : out = answers'
  BY <1>1 DEF Becomes, Typed
<1>4. u.out = out /\ DOMAIN out = 1 .. Len(out)
  BY <1>1, <1>3 DEF Becomes
<1>5. PICK next : next = Memory'
  OBVIOUS
<1>6. next = After(m, out, req) /\ Answered(m, out, req)
  BY <1>2, <1>3, <1>5
<1>7. \A i \in DOMAIN out :
        IF out[i].type = "fetch" THEN out[i].value = m[out[i].addr]
        ELSE /\ req # NULL /\ out[i].type = req.type /\ out[i].addr = req.addr
             /\ out[i].type = "load" => out[i].value = m[out[i].addr]
  BY <1>4, <1>6 DEF Answered, Fair
<1>8. \A a \in DOMAIN fetches :
        fetches[a] = fetches'[a]
          + Cardinality({i \in DOMAIN out : out[i].type = "fetch" /\ out[i].addr = a})
  <2> TAKE a \in DOMAIN fetches
  <2>1. PICK n : n = Cardinality({i \in DOMAIN out : out[i].type = "fetch" /\ out[i].addr = a})
    OBVIOUS
  <2>2. fetches' = [x \in DOMAIN fetches |->
                      fetches[x] - Cardinality({i \in DOMAIN u.out :
                                     u.out[i].type = "fetch" /\ u.out[i].addr = x})]
    BY <1>1 DEF Becomes
  <2>3. fetches'[a] = fetches[a] - n
    BY <1>4, <2>1, <2>2
  <2>4. fetches[a] \in Int
    BY DEF TimingInv
  <2>5. n \in Nat
    <3>1. IsFiniteSet(1 .. Len(out)) /\ Len(out) \in Nat
      BY FS_Interval
    <3>2. {i \in DOMAIN out : out[i].type = "fetch" /\ out[i].addr = a} \subseteq 1 .. Len(out)
      BY <1>4
    <3>3. QED
      BY <2>1, <3>1, <3>2, FS_Subset, FS_CardinalityType
  <2>6. QED
    BY <2>1, <2>3, <2>4, <2>5
<1>9. IF {i \in DOMAIN out : out[i].type # "fetch"} = {} THEN dataReq' = req /\ next = m
      ELSE /\ Cardinality({i \in DOMAIN out : out[i].type # "fetch"}) = 1
           /\ dataReq' = NULL
           /\ next = IF req.type = "store" THEN [m EXCEPT ![req.addr] = req.value] ELSE m
  <2>1. dataReq' = IF \E i \in DOMAIN out : out[i].type # "fetch" THEN NULL ELSE req
    BY <1>1, <1>2, <1>4 DEF Becomes
  <2>2. IF \E i \in DOMAIN out : out[i].type # "fetch"
        THEN /\ req # NULL
             /\ next = IF req.type = "store" THEN [m EXCEPT ![req.addr] = req.value] ELSE m
        ELSE next = m
    BY <1>6, AfterEffect
  <2>3. CASE \E i \in DOMAIN out : out[i].type # "fetch"
    <3>1. Cardinality({i \in DOMAIN out : out[i].type # "fetch"}) = 1
      BY <1>3, <2>3, DataAnsweredOnce
    <3>2. {i \in DOMAIN out : out[i].type # "fetch"} # {}
      BY <2>3
    <3>3. QED
      BY <2>1, <2>2, <2>3, <3>1, <3>2
  <2>4. CASE ~\E i \in DOMAIN out : out[i].type # "fetch"
    BY <2>1, <2>2, <2>4
  <2>5. QED
    BY <2>3, <2>4
<1>10. Port!Answer
  <2>1. [a \in Addresses |-> Latest(a)] = m /\ [a \in Addresses |-> Latest(a)]' = next
    BY <1>5 DEF Memory
  <2>2. answers' = out /\ dataReq = req
    BY <1>2, <1>3
  <2>3. \A a : Port!Count(a) = Cardinality({i \in DOMAIN out :
                                  out[i].type = "fetch" /\ out[i].addr = a})
    BY <2>2, SameCardinality, Zenon DEF Port!Count
  <2>4. /\ Port!DataAnswers = {i \in DOMAIN out : out[i].type # "fetch"}
        /\ Port!Cardinality(Port!DataAnswers) = Cardinality(Port!DataAnswers)
    BY <2>2, SameCardinality, Zenon DEF Port!DataAnswers
  <2>5. QED
    BY <1>7, <1>8, <1>9, <2>1, <2>2, <2>3, <2>4, Zenon DEF Port!Answer
<1>11. QED
  BY <1>10 DEF Port!PortNext

\* The core's cycle asks as one memory is asked.
LEMMA CoreIssues ==
  ASSUME TimingInv, CoreCycle, Memory' = Memory
  PROVE  Port!PortNext
<1>1. PICK data \in DataRequests \cup {NULL}, fetch \in TextWords \cup {NULL} :
        Core(data, fetch)
  BY DEF CoreCycle
<1>2. answers' = <<>> /\ (dataReq' = dataReq \/ dataReq = NULL)
  BY <1>1 DEF Core
<1>3. \A a \in DOMAIN fetches : fetches'[a] >= fetches[a]
  <2>1. fetches \in [TextWords -> Int]
    BY DEF TimingInv
  <2>2. fetches' = IF fetch = NULL THEN fetches ELSE [fetches EXCEPT ![fetch] = @ + 1]
    BY <1>1 DEF Core
  <2>3. CASE fetch = NULL
    BY <2>1, <2>2, <2>3
  <2>4. CASE fetch # NULL
    BY <2>1, <2>2, <2>4
  <2>5. QED
    BY <2>3, <2>4
<1>4. Port!Issue
  <2>1. UNCHANGED [a \in Addresses |-> Latest(a)]
    BY DEF Memory
  <2>2. QED
    BY <1>2, <1>3, <2>1, Zenon DEF Port!Issue
<1>5. QED
  BY <1>4 DEF Port!PortNext

\* The hierarchy starts with the memory that the loader left.
LEMMA CoherentInit ==
  Init => CoherentInv
<1> SUFFICES ASSUME Init PROVE CoherentInv
  OBVIOUS
<1>1. PICK s : s = State
  OBVIOUS
<1>2. Typed(s)
  BY <1>1, TimingInit DEF TimingInv
<1>3. PICK m \in [Addresses -> Values] : m = s.store
  BY <1>2 DEF Typed
<1>4. PICK req : req = dataReq
  OBVIOUS
<1>5. /\ \A c \in Levels : s.queue[c] = <<>>
      /\ s.mshr = [c \in Caches |-> [i \in 1 .. MshrEntries[c] |-> EmptyEntry]]
      /\ s.blocks = [c \in Caches |->
                       [set \in 0 .. (NumSets[c] - 1) |-> [w \in Ways(c) |-> EmptyBlock]]]
      /\ s.out = <<>>
  BY <1>1 DEF Init, Constructed, State
<1>6. "L2" \in Levels /\ "Mem" \in Levels /\ "L1D" \in Levels /\ {"L1I", "L1D", "L2"} = Caches
  BY DEF Levels, Caches
<1>7. \A c \in Caches : s.mshr[c][1].sub = <<>>
  <2>1. \A c \in Caches : 1 \in 1 .. MshrEntries[c]
    BY Geometry
  <2>2. QED
    BY <1>5, <2>1 DEF EmptyEntry
<1>8. /\ Len(<<>>) = 0 /\ \A i : ~(i \in 1 .. Len(<<>>))
      /\ \A k, kind, a : LiveAt(<<>>, k, kind, a) = {}
  <2>1. Len(<<>>) = 0
    OBVIOUS
  <2>2. 1 .. 0 = {}
    OBVIOUS
  <2>3. QED
    BY <2>1, <2>2 DEF LiveAt
<1>9. ASSUME NEW c \in Caches, NEW a \in Lines
      PROVE  Holding(s, c, a) = {} /\ Copies(s, c, a) = {}
  <2>1. a \in Addresses
    BY LineFacts
  <2>2. getLocation(c, a).set \in 0 .. (NumSets[c] - 1)
    BY <2>1, Location DEF Sets
  <2>3. \A w \in Ways(c) : ~s.blocks[c][getLocation(c, a).set][w].valid
    BY <1>5, <2>2 DEF EmptyBlock
  <2>4. Holding(s, c, a) = {}
    BY <2>3 DEF Holding
  <2>5. QED
    BY <2>4 DEF Copies
<1>10. ASSUME NEW a
       PROVE  ToL2(s, 0, a) = {} /\ ToMem(s, a) = {}
  BY <1>5, <1>6, <1>7, <1>8 DEF ToL2, ToMem, Backs
<1>11. Covered(s, 0, m)
  <2> SUFFICES ASSUME NEW a \in Lines PROVE AgreeAt(s, 0, a, Image(m, a))
    BY DEF Covered
  <2>1. Copies(s, "L1I", a) = {} /\ Copies(s, "L1D", a) = {} /\ Copies(s, "L2", a) = {}
    BY <1>6, <1>9
  <2>2. Agree({}, {}, {}, {}, {}, Image(s.store, a), Image(m, a))
    BY <1>3 DEF Agree
  <2>3. QED
    BY <1>10, <2>1, <2>2 DEF AgreeAt
<1>12. Shaped(s, 0)
  <2>1. Unique(s)
    BY <1>9 DEF Unique
  <2>2. InOrder2(s, 0)
    BY <1>5, <1>6, <1>7, <1>8 DEF InOrder2, Ahead
  <2>3. InOrderMem(s)
    BY <1>5, <1>6, <1>8 DEF InOrderMem, Ahead
  <2>4. Matched(s)
    BY <1>7, <1>8 DEF Matched
  <2>5. QED
    BY <2>1, <2>2, <2>3, <2>4 DEF Shaped
<1>13. Owned(s, req)
  BY <1>5, <1>6, <1>7, <1>8 DEF Owned
<1>14. Right(s, 0, m, req)
  BY <1>5, <1>11, <1>12, <1>13, RestRight DEF Coherent
<1>15. QED
  BY <1>1, <1>4, <1>14 DEF CoherentInv

\* What a step does to the port.
Serves == abort' # "none" \/ Overlapped' \/ Port!PortNext

\* Misses that have overlapped stay so.
LEMMA OverlappedStays ==
  ASSUME TimingInv, Next \/ UNCHANGED hvars, Alone(State')
  PROVE  Alone(State)
<1>1. PICK s : s = State
  OBVIOUS
<1>2. PICK t : t = State'
  OBVIOUS
<1>3. s.mshr = mshr /\ t.mshr = mshr' /\ Alone(t)
  BY <1>1, <1>2 DEF State
<1>4. CASE Tick
  <2>1. PICK r : Becomes(r) /\ RequestsKept(State, r)
    BY <1>4, TickRequests
  <2>2. r.mshr = t.mshr
    BY <1>3, <2>1 DEF Becomes
  <2>3. Alone(r)
    BY <1>3, <2>2 DEF Alone
  <2>4. QED
    BY <2>1, <2>3 DEF RequestsKept
<1>5. CASE CoreCycle \/ Aborted \/ UNCHANGED hvars
  <2>1. mshr' = mshr
    BY <1>5 DEF CoreCycle, Core, Aborted, hvars, hierarchy
  <2>2. Alone(s)
    BY <1>3, <2>1 DEF Alone
  <2>3. QED
    BY <1>1, <2>2
<1>6. QED
  BY <1>4, <1>5 DEF Next

\* The image of a state that is coherent, with no answer on its way.
LEMMA ImageIs ==
  ASSUME NEW s, s.abort = "none", s.out = <<>>, NEW m, NEW req, Right(s, 0, m, req)
  PROVE  Coherent(s, 0, m)
BY RestRight

\* A Tick.
LEMMA CoherentTick ==
  ASSUME Alone(State), Alone(State'), TimingInv, RequestsInv, ExactInv, CoherentInv, Tick
  PROVE  CoherentInv' /\ Serves
<1>1. PICK m \in [Addresses -> Values] : Right(State, 0, m, dataReq)
  BY DEF CoherentInv
<1>2. CASE abort' # "none"
  <2>1. State'.abort = abort'
    BY DEF State
  <2>2. Right(State', 0, m, dataReq')
    BY <1>2, <2>1 DEF Right
  <2>3. CoherentInv'
    BY <2>2 DEF CoherentInv
  <2>4. QED
    BY <1>2, <2>3 DEF Serves
<1>3. CASE abort' = "none"
  <2>1. abort = "none"
    BY DEF Tick, TickMem, TickL2, TickL1I, TickL1D
  <2>2. /\ Answered(m, answers', dataReq)
        /\ After(m, answers', dataReq) \in [Addresses -> Values]
        /\ Right(State', 0, After(m, answers', dataReq), dataReq')
    BY <1>1, <1>3, TickLeaves
  <2>3. PICK next \in [Addresses -> Values] : next = After(m, answers', dataReq)
    BY <2>2
  <2>4. Right(State', 0, next, dataReq')
    BY <2>2, <2>3
  <2>5. CoherentInv'
    BY <2>4 DEF CoherentInv
  <2>6. /\ State.abort = "none" /\ State'.abort = "none"
        /\ State.out = <<>> /\ State'.out = <<>>
    BY <1>3, <2>1 DEF State
  <2>7. Coherent(State, 0, m) /\ Coherent(State', 0, next)
    BY <1>1, <2>4, <2>6, ImageIs
  <2>8. Typed(State) /\ Typed(State')
    BY Ticks DEF TimingInv
  <2>9. Memory = m
    BY <2>7, <2>8, OneMemory DEF MemoryIs
  <2>10. Memory' = next
    BY <2>7, <2>8, OneMemoryNext DEF MemoryIs
  <2>11. Port!PortNext
    BY <2>2, <2>3, <2>9, <2>10, TickAnswers
  <2>12. QED
    BY <2>5, <2>11 DEF Serves
<1>4. QED
  BY <1>2, <1>3

\* The core's cycle.
LEMMA CoherentCore ==
  ASSUME Alone(State), Alone(State'), TimingInv, CoherentInv, CoreCycle
  PROVE  CoherentInv' /\ Serves
<1>1. PICK m \in [Addresses -> Values] : Right(State, 0, m, dataReq)
  BY DEF CoherentInv
<1>2. Right(State', 0, m, dataReq')
  BY <1>1, CoreRight
<1>3. CoherentInv'
  BY <1>2 DEF CoherentInv
<1>4. abort = "none" /\ abort' = "none"
  BY DEF CoreCycle, Core
<1>5. /\ State.abort = "none" /\ State'.abort = "none"
      /\ State.out = <<>> /\ State'.out = <<>>
  BY <1>4 DEF State
<1>6. Coherent(State, 0, m) /\ Coherent(State', 0, m)
  BY <1>1, <1>2, <1>5, ImageIs
<1>7. Typed(State) /\ Typed(State')
  BY CoreSteps DEF TimingInv
<1>8. Memory = m
  BY <1>6, <1>7, OneMemory DEF MemoryIs
<1>9. Memory' = m
  BY <1>6, <1>7, OneMemoryNext DEF MemoryIs
<1>10. Port!PortNext
  BY <1>8, <1>9, CoreIssues
<1>11. QED
  BY <1>3, <1>10 DEF Serves

(***************************************************************************)
(* A step that leaves every variable alone, the one of a process that has  *)
(* stopped on a failed assertion among them, serves nothing and loses      *)
(* nothing.                                                                *)
(***************************************************************************)
LEMMA CoherentStill ==
  ASSUME Alone(State), Alone(State'), TimingInv, CoherentInv, UNCHANGED hvars
  PROVE  CoherentInv' /\ [Serves]_(Port!portVars)
<1>1. PICK m \in [Addresses -> Values] : Right(State, 0, m, dataReq)
  BY DEF CoherentInv
<1>2. State' = State /\ dataReq' = dataReq /\ abort' = abort
  BY DEF hvars, hierarchy, State
<1>3. CoherentInv'
  BY <1>1, <1>2 DEF CoherentInv
<1>4. CASE abort # "none"
  BY <1>2, <1>3, <1>4 DEF Serves
<1>5. CASE abort = "none"
  <2>1. State.abort = "none" /\ State.out = <<>>
    BY <1>5 DEF State
  <2>2. Coherent(State, 0, m)
    BY <1>1, <2>1, RestRight
  <2>3. Coherent(State', 0, m)
    BY <1>2, <2>2
  <2>4. Typed(State)
    BY DEF TimingInv
  <2>5. Typed(State')
    BY <1>2, <2>4
  <2>6. Memory = m
    BY <2>2, <2>4, OneMemory DEF MemoryIs
  <2>7. Memory' = m
    BY <2>3, <2>5, OneMemoryNext DEF MemoryIs
  <2>8. fetches' = fetches /\ answers' = answers
    BY DEF hvars, hierarchy
  <2>9. UNCHANGED (Port!portVars)
    <3>1. Memory' = Memory
      BY <2>6, <2>7
    <3>2. UNCHANGED [a \in Addresses |-> Latest(a)]
      BY <3>1 DEF Memory
    <3>3. QED
      BY <1>2, <2>8, <3>2 DEF Port!portVars
  <2>10. QED
    BY <1>3, <2>9
<1>6. QED
  BY <1>4, <1>5

(* Every step, whichever it is, keeps the coherence and serves as memory.  *)
LEMMA CoherentStep ==
  ASSUME TimingInv, RequestsInv, ExactInv, CoherentInv, [Next]_hvars
  PROVE  CoherentInv' /\ [Serves]_(Port!portVars)
<1>1. CASE ~Alone(State')
  <2>1. Overlapped'
    BY <1>1 DEF Overlapped
  <2>2. CoherentInv'
    BY <1>1 DEF CoherentInv
  <2>3. QED
    BY <2>1, <2>2 DEF Serves
<1>2. CASE Alone(State')
  <2>1. Alone(State)
    BY <1>2, OverlappedStays
  <2>2. CASE Tick
    BY <1>2, <2>1, <2>2, CoherentTick
  <2>3. CASE CoreCycle
    BY <1>2, <2>1, <2>3, CoherentCore
  <2>4. CASE Aborted \/ UNCHANGED hvars
    <3>1. UNCHANGED hvars
      BY <2>4 DEF Aborted
    <3>2. QED
      BY <1>2, <2>1, <3>1, CoherentStill
  <2>5. QED
    BY <2>2, <2>3, <2>4 DEF Next
<1>3. QED
  BY <1>1, <1>2

(***************************************************************************)
(* Until two misses of a cache's overlap the caches are coherent, in every *)
(* state that a behaviour reaches.                                         *)
(***************************************************************************)
LEMMA CoherentAlways ==
  Spec => []CoherentInv
<1>1. TimingInv /\ RequestsInv /\ ExactInv /\ CoherentInv /\ [Next]_hvars
        => CoherentInv'
  BY CoherentStep
<1>2. QED
  BY <1>1, CoherentInit, TimingAlways, RequestsAlways, ExactAlways, PTL DEF Spec

(***************************************************************************)
(* What the two caches of level one, the L2 and the main memory promise    *)
(* together, with any number of MSHR entries: until a cache has two misses *)
(* outstanding, when recvResp may take the entry of the one for the other, *)
(* every load is answered with the value last stored at its address, every *)
(* fetch with the value at its pc and every request once, or an assertion  *)
(* fails.  The copies of a block that Cache::recvReq, Cache::recvResp and  *)
(* Cache::writeBack leave in the L2 and in main memory may be old, with    *)
(* the new one in the L1D or on its way down; no read is served from them  *)
(* before it has arrived.                                                  *)
(***************************************************************************)
THEOREM BehavesAsOneMemory == Spec => BehavesAsMemory
<1>1. TimingInv /\ RequestsInv /\ ExactInv /\ CoherentInv /\ [Next]_hvars
        => [abort' # "none" \/ Overlapped' \/ Port!PortNext]_(Port!portVars)
  BY CoherentStep DEF Serves
<1>2. QED
  BY <1>1, CoherentAlways, TimingAlways, RequestsAlways, ExactAlways, PTL
     DEF Spec, BehavesAsMemory
================================================================================
