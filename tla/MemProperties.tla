----------------------------- MODULE MemProperties -----------------------------
(***************************************************************************)
(* What MemHierarchy must satisfy.                                         *)
(***************************************************************************)
EXTENDS MemHierarchy

TextBlocks == {BlockOf(a) : a \in TextWords}
DataBlocks == {BlockOf(a) : a \in DataWords}
Starts(bs) == {b * BlkSize : b \in bs}

\* What each level is sent: fetches of text to the L1I, loads and stores to the
\* L1D; below, block reads and write-backs.  The L1I never writes back.
Reads(type, addrs, c) ==
  [type : {type}, addr : addrs, data : {<<>>}, ready : 0 .. Delay[c]]
Stores(c) ==
  {p \in [type : {"store"}, addr : DataWords,
          data : UNION {[{o} -> Values] : o \in Offsets}, ready : 0 .. Delay[c]] :
     DOMAIN p.data = {p.addr % BlkSize}}
WriteBacksOf(bs, c) ==
  [type : {"writeback"}, addr : Starts(bs), data : [Offsets -> Values],
   ready : 0 .. Delay[c]]

PacketSet(c) ==
  IF c = "L1I" THEN Reads("fetch", TextWords, c)
  ELSE IF c = "L1D" THEN Reads("load", DataWords, c) \cup Stores(c)
  ELSE Reads("fetch", Starts(TextBlocks), c) \cup Reads("load", Starts(DataBlocks), c)
         \cup WriteBacksOf(IF c = "L2" THEN DataBlocks ELSE Blocks, c)

\* The blocks each cache may hold.
Held(c) == IF c = "L1I" THEN TextBlocks ELSE IF c = "L1D" THEN DataBlocks ELSE Blocks

BlockSet(c, set) ==
  {b \in [valid : BOOLEAN, dirty : BOOLEAN, tag : Nat,
          data : [Offsets -> Values \cup {NULL}]] :
     /\ b.dirty => c # "L1I"
     /\ b.valid => /\ b.tag * NumSets[c] + set \in Held(c)
                   /\ b.data \in [Offsets -> Values]}

Sets(c) == 0 .. (NumSets[c] - 1)

Answers ==
  [type : {"fetch"}, addr : TextWords, value : Values]
    \cup [type : {"load", "store"}, addr : DataWords, value : Values]

QueuesTyped(queues) ==
  /\ DOMAIN queues = Levels
  /\ \A c \in Levels : queues[c] \in Seq(PacketSet(c))

EntrySet(c) ==
  {e \in [address : Starts(Blocks) \cup {0}, sub : Seq(PacketSet(c))] :
     Len(e.sub) <= MshrSubentries[c]}

MshrTyped(entries) ==
  /\ DOMAIN entries = Caches
  /\ \A c \in Caches : entries[c] \in [1 .. MshrEntries[c] -> EntrySet(c)]

BlocksTyped(table) ==
  /\ DOMAIN table = Caches
  /\ \A c \in Caches :
       /\ DOMAIN table[c] = Sets(c)
       /\ \A set \in Sets(c) : table[c][set] \in [Ways(c) -> BlockSet(c, set)]

\* The types of a state, at rest or within a Tick.
Typed(s) ==
  /\ DOMAIN s = {"queue", "blocks", "mshr", "store", "abort", "out", "freed", "reused"}
  /\ QueuesTyped(s.queue) /\ MshrTyped(s.mshr) /\ BlocksTyped(s.blocks)
  /\ s.store \in [Addresses -> Values]
  /\ s.abort \in Aborts \cup {"none"}
  /\ s.out \in Seq(Answers)
  /\ s.freed \in BOOLEAN /\ s.reused \in BOOLEAN

MemTypeOK ==
  /\ Typed(State)
  /\ phase \in Levels \cup {"core"}
  /\ dataReq \in DataRequests \cup {NULL}
  /\ fetches \in [TextWords -> Nat]

-------------------------------------------------------------------------------
(* Line 303 of cache.cpp serves the first MSHR entry, whichever block has    *)
(* arrived.  Each cache is alone with a miss while no other entry has been   *)
(* taken; one that has is never served, so misses that overlap stay so.      *)

Alone(s) == \A c \in Caches : \A i \in 2 .. MshrEntries[c] : s.mshr[c][i].sub = <<>>

Overlapped == ~Alone(State)

-------------------------------------------------------------------------------
(* The latest value of a word, wherever it is: the L1D; a write-back the L1D *)
(* has sent and the L2 not applied; the L2; a write-back the L2 has sent;    *)
(* memory.                                                                   *)

WriteBacks(c, addr) ==
  {p \in Packets(c) : p.type = "writeback" /\ p.addr = BlockAddress(addr)}

\* The last one sent.
Newest(c, addr) ==
  LET queued == {i \in DOMAIN queue[c] : queue[c][i] \in WriteBacks(c, addr)}
  IN IF queued # {} THEN queue[c][Max(queued)]
     ELSE CHOOSE p \in WriteBacks(c, addr) : TRUE

Has(c, addr) == Holding(State, c, addr) # {}
WordIn(c, addr) ==
  blocks[c][getLocation(c, addr).set][Lowest(Holding(State, c, addr))]
    .data[addr % BlkSize]

Latest(addr) ==
  IF Has("L1D", addr) THEN WordIn("L1D", addr)
  ELSE IF WriteBacks("L2", addr) # {} THEN Newest("L2", addr).data[addr % BlkSize]
  ELSE IF Has("L2", addr) THEN WordIn("L2", addr)
  ELSE IF WriteBacks("Mem", addr) # {} THEN Newest("Mem", addr).data[addr % BlkSize]
  ELSE store[addr]

\* The hierarchy behaves as one memory: every load and fetch brings the last
\* value stored, a store changes nothing else, evictions and write-backs in
\* flight lose nothing, and each request is answered once, until a cache has two
\* misses outstanding.
Port == INSTANCE MemPort WITH mem <- [a \in Addresses |-> Latest(a)]

BehavesAsMemory ==
  [][abort' # "none" \/ Overlapped' \/ Port!PortNext]_(Port!portVars)

-------------------------------------------------------------------------------
(* The assertions of the code, and its use of a deleted packet.              *)

\* cache.cpp, recvResp: assert(false && "no MSHR entry found").
MshrEntryFound == abort # "noentry"

\* It fails only when misses have overlapped.
LookupFailsOverlapped == abort = "noentry" => Overlapped

\* cache.cpp, writeBack: the next level takes a write-back.
WriteBackAccepted == abort # "refused"

\* cache.cpp, Tick: "Remove the packets that were serviced".
ServicedRemoved == abort # "useafterfree"

\* base_memory.h: getMemRegion "for the given address and size will return the
\* corresponding memory region": where RegionsCover, no fill and no write-back,
\* whose address is rebuilt from tag and set, ever leaves the regions.
RegionsRespected == abort # "unallocated"

\* While the core stays clear of a region's last block: every block has a region.
RegionsCover == \A b \in Blocks : getMemRegion(b * BlkSize) # {}

\* The L2 evicts nothing: it has a way for each block of every set of its.
L2HoldsAll ==
  \A set \in 0 .. (NumSets["L2"] - 1) :
    LET mapped == {b \in Blocks : SetIndex["L2"][b] = set}
    IN IsFiniteSet(mapped) /\ Cardinality(mapped) <= NumWays["L2"]

\* Then, until misses overlap, its queue has at most a fetch, a load and two
\* write-backs.
Ample == L2HoldsAll /\ QueueCap["L2"] >= 4

-------------------------------------------------------------------------------
(* Structure.                                                                *)

\* base_memory.cpp: "assume that pendingRequests is sorted by ready_time", on
\* which its Tick relies, and the caches' std::partition with it: it keeps an
\* order only when there is nothing to move.
QueuesSorted ==
  \A c \in Levels : \A i, k \in DOMAIN queue[c] :
    i < k => queue[c][i].ready <= queue[c][k].ready

\* The requests of a kind for an address that are in a level: in its queue or
\* waiting in its MSHRs, where each has its place.
Is(p, kind, addr) == p.type = kind /\ p.addr = addr

Num(q, kind, addr) == Cardinality({i \in DOMAIN q : Is(q[i], kind, addr)})

Waiting(s, c, kind, addr) ==
  {w \in (1 .. MshrEntries[c]) \X (1 .. MshrSubentries[c]) :
     /\ w[2] <= Len(s.mshr[c][w[1]].sub)
     /\ Is(s.mshr[c][w[1]].sub[w[2]], kind, addr)}

Pending(s, c, kind, addr) ==
  Num(s.queue[c], kind, addr)
    + (IF c = "Mem" THEN 0 ELSE Cardinality(Waiting(s, c, kind, addr)))

\* A request of the core's is in one place of its level 1 cache until it is
\* answered: no Tick loses it, puts it twice or answers it twice.
OneIf(b) == IF b THEN 1 ELSE 0

RequestsHeld ==
  /\ \A a \in TextWords : Pending(State, "L1I", "fetch", a) = fetches[a]
  /\ \A kind \in {"load", "store"}, a \in DataWords :
       Pending(State, "L1D", kind, a) = OneIf(dataReq # NULL /\ Is(dataReq, kind, a))

\* Misses of a block share an MSHR entry, however many are outstanding.
OneEntryPerBlock ==
  \A c \in Caches, b \in Blocks : Cardinality(Entries(State, c, b * BlkSize)) <= 1

\* A block that an MSHR entry waits for is not in the cache, until misses overlap.
MshrExact == abort = "none" /\ ~Overlapped =>
  \A c \in Caches, a \in Addresses :
    Has(c, a) => Entries(State, c, BlockAddress(a)) = {}

\* The reads of a cache's that are in the level below are those of its MSHR
\* entries: none is lost, asked twice or left over, until misses overlap.
ReadsBelow(s, c, addr) ==
  CASE c = "L1I" -> Pending(s, "L2", "fetch", addr)
    [] c = "L1D" -> Pending(s, "L2", "load", addr)
    [] c = "L2" -> Pending(s, "Mem", "fetch", addr) + Pending(s, "Mem", "load", addr)

RequestPerEntry == abort = "none" /\ ~Overlapped =>
  \A c \in Caches, b \in Blocks :
    ReadsBelow(State, c, b * BlkSize) = Cardinality(Entries(State, c, b * BlkSize))

\* readme.md: "inclusive policy (all blocks in higher level cache are also in
\* lower level cache)".
Inclusive ==
  \A c \in {"L1I", "L1D"}, a \in Addresses : Has(c, a) => Has("L2", a)

\* abstract_memory.h: after the run "the memdump function will retrieve the
\* latest value".  Simulator::readMemForDump overlays memory, L2, L1I, L1D.
DumpRead(addr) ==
  IF Has("L1D", addr) THEN WordIn("L1D", addr)
  ELSE IF Has("L1I", addr) THEN WordIn("L1I", addr)
  ELSE IF Has("L2", addr) THEN WordIn("L2", addr)
  ELSE store[addr]

DumpIsLatest ==
  phase = "Mem" /\ dataReq = NULL =>
    \A a \in Addresses : DumpRead(a) = Latest(a)

-------------------------------------------------------------------------------
\* Every load, store and fetch is answered, although a level 1 miss may wait
\* for an MSHR entry that other misses keep taking.
DataAnswered == dataReq # NULL ~> (dataReq = NULL \/ abort # "none")

FetchesAnswered ==
  \A a \in TextWords :
    fetches[a] > 0 ~>
      \/ \E i \in DOMAIN answers : answers[i].type = "fetch" /\ answers[i].addr = a
      \/ abort # "none"
===============================================================================
