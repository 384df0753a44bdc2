------------------------------ MODULE MemHierarchy ------------------------------
(***************************************************************************)
(* The memory hierarchy: L1ICache, L1DCache and L2Cache (src/src/cache.cpp) *)
(* over BaseMemory (src/src/base_memory.cpp), connected as Simulator's      *)
(* constructor connects them and driven by Simulator::cycle: one action per *)
(* Tick, in the order of the calls, then the core's requests and the clock. *)
(*                                                                         *)
(* recvReq only queues; recvResp runs at once and may call the level above  *)
(* and, to write a victim back, the level below.  A Tick is therefore one   *)
(* action over the whole state, built from operators that take the state    *)
(* and return it, one per function of the code.                             *)
(*                                                                         *)
(* A failed assertion ends the program: `abort` says which one.  Ready      *)
(* times are relative to the clock.  An address is a word address.          *)
(***************************************************************************)
EXTENDS Integers, SequencesExt

CONSTANTS
  BlkSize,           \* words in a block
  TextWords, DataWords,  \* what the core fetches, and loads and stores
  Values,            \* what a word can hold
  InitWord(_),       \* the word the loader leaves at an address
  BitAnd(_, _),      \* the bitwise and of two numbers
  NumSets, NumWays,  \* per cache
  Policy,            \* per cache: "Random", "LRU" or "PLRU"
  MshrEntries, MshrSubentries,  \* per cache
  Delay,             \* access delay of each cache and of memory
  Regions,           \* MEM_REGIONS: where memory is allocated
  QueueCap,          \* reqQueueCapacity of each level: 100 in the program
  MaxFetches,        \* bound on the fetches in flight: abandoned ones and one live
  NULL

Caches == {"L1I", "L1D", "L2"}
Levels == Caches \cup {"Mem"}
BlockOf(addr) == addr \div BlkSize
Blocks == {BlockOf(a) : a \in TextWords \cup DataWords}
Offsets == 0 .. (BlkSize - 1)
Addresses == {b * BlkSize + o : b \in Blocks, o \in Offsets}

ASSUME HierarchyAssumption ==
  /\ BlkSize \in Nat \ {0} /\ MaxFetches \in Nat \ {0}
  /\ TextWords \subseteq Nat /\ DataWords \subseteq Nat
  /\ \A a \in TextWords, b \in DataWords : BlockOf(a) # BlockOf(b)
  /\ \A c \in Caches : {NumSets[c], NumWays[c], MshrEntries[c],
                        MshrSubentries[c]} \subseteq Nat \ {0}
  /\ \A c \in Caches : Policy[c] \in {"Random", "LRU", "PLRU"}
  /\ Regions \subseteq [start : Nat, size : Nat]
  /\ \A c \in Levels : {Delay[c], QueueCap[c]} \subseteq Nat \ {0}
  /\ \A a \in Addresses : InitWord(a) \in Values

\* The set of a block in each cache: a mask, when the tag is a quotient.  They
\* identify a block only when the number of sets is a power of two, which
\* nothing checks.
SetIndex == [c \in Caches |-> [b \in Blocks |-> BitAnd(NumSets[c] - 1, b)]]

ASSUME MaskAssumption ==
  \A c \in Caches, b \in Blocks : SetIndex[c][b] = b % NumSets[c]

VARIABLES
  queue,             \* pendingPackets of each level
  blocks,            \* blocks[cache][set][way]
  mshr,              \* mshr[cache]: its entries, in order
  store,             \* the words of BaseMemory
  abort,             \* the assertion that failed, or "none"
  phase,             \* what Simulator::cycle calls next
  dataReq, fetches, answers  \* the core's side: see MemPort

hierarchy == <<queue, blocks, mshr, store, abort>>
hvars == <<hierarchy, phase, dataReq, fetches, answers>>

-------------------------------------------------------------------------------
(* Packets, blocks and addresses.                                            *)

\* A packet writes the offsets in the domain of data: one word for a store, a
\* whole block for a write-back, none for a read.
Packet(type, addr, data) ==
  [type |-> type, addr |-> addr, data |-> data, ready |-> 0]

\* isWrite, which every constructed packet has as its type says.
IsWrite(p) == p.type \in {"store", "writeback"}

BlockAddress(addr) == BlockOf(addr) * BlkSize

getLocation(c, addr) ==
  [tag |-> BlockOf(addr) \div NumSets[c], set |-> SetIndex[c][BlockOf(addr)],
   offset |-> addr % BlkSize]

\* Mutant: the set is forgotten.
getAddressOfTag(c, loc) == loc.tag * NumSets[c] * BlkSize + loc.offset

getAddress(c, loc) == (loc.tag * NumSets[c] + loc.set) * BlkSize + loc.offset

\* Block's constructor leaves the data as malloc gave it.
EmptyBlock == [valid |-> FALSE, dirty |-> FALSE, tag |-> 0,
               data |-> [o \in Offsets |-> NULL]]

EmptyEntry == [address |-> 0, sub |-> <<>>]

Ways(c) == 0 .. (NumWays[c] - 1)

\* The ways of its set that hold a block; getWay takes the first.
Holding(s, c, addr) ==
  LET loc == getLocation(c, addr)
  IN {w \in Ways(c) : s.blocks[c][loc.set][w].valid
                      /\ s.blocks[c][loc.set][w].tag = loc.tag}

Lowest(S) == CHOOSE x \in S : \A y \in S : x <= y

Way(s, c, addr) == Lowest(Holding(s, c, addr))
BlockAt(s, c, addr) == s.blocks[c][getLocation(c, addr).set][Way(s, c, addr)]

Next1(c) == IF c = "L2" THEN "Mem" ELSE "L2"

\* L2Cache::getPrev.  No prefetch is ever sent.
\* Mutant: everything is answered to the data cache.
PrevOfData(p) == "L1D"

PrevOf(p) == IF p.type = "fetch" THEN "L1I" ELSE "L1D"

-------------------------------------------------------------------------------
(* recvReq, and what it takes: a new Packet on the heap for what a cache     *)
(* sends on.  s.freed says that this Tick has deleted a packet that its      *)
(* queue still points to; one allocated after that may get its memory.       *)

\* Mutant: full one packet too early.
HasRoomEarly(s, c) == Len(s.queue[c]) < QueueCap[c] - 1

HasRoom(s, c) == Len(s.queue[c]) < QueueCap[c]

\* assert: the first one to fail ends the program: recvReq's "Access to a
\* unallocated region of memory", writeBack's "Next cache stage cannot accomodate
\* req", recvResp's "no MSHR entry found" and "Received write packet from higher
\* memory".  The last is no assertion, but what may happen to the heap.
Aborts == {"unallocated", "refused", "noentry", "writeanswer", "useafterfree"}

Fails(s, why) == IF s.abort = "none" THEN [s EXCEPT !.abort = why] ELSE s

\* The region of a block; the strict comparison excludes a region's last one.
getMemRegion(addr) ==
  {r \in Regions : r.start <= addr /\ addr + BlkSize < r.start + r.size}

\* A full queue refuses; memory looks at the region first.
Refused(s, c, addr) == ~HasRoom(s, c) /\ (c = "Mem" => getMemRegion(addr) # {})

\* Mutant: the newest request first.
recvReqFirst(s, c, p) ==
  [s EXCEPT !.queue[c] = <<[p EXCEPT !.ready = Delay[c]]>> \o @,
            !.reused = @ \/ s.freed]

recvReq(s, c, p) ==
  IF c = "Mem" /\ getMemRegion(p.addr) = {}
  THEN Fails(s, "unallocated")
  ELSE [s EXCEPT !.queue[c] = Append(@, [p EXCEPT !.ready = Delay[c]]),
                 !.reused = @ \/ s.freed]

\* Mutant: one subentry too many.
SubentriesFullLate(s, c, i) == Len(s.mshr[c][i].sub) > MshrSubentries[c]

SubentriesFull(s, c, i) == Len(s.mshr[c][i].sub) = MshrSubentries[c]

\* An entry is valid, and its request issued, exactly while it has subentries.
Entries(s, c, address) ==
  {i \in DOMAIN s.mshr[c] : s.mshr[c][i].sub # <<>> /\ s.mshr[c][i].address = address}

\* Mutant: the word is looked up, not its block.
MatchingWord(s, c, addr) == Entries(s, c, addr)

\* The entry that other requests for the block wait in.
Matching(s, c, addr) == Entries(s, c, BlockAddress(addr))

FreeEntries(s, c) == {i \in DOMAIN s.mshr[c] : s.mshr[c][i].sub = <<>>}

\* Cache::processCacheMiss returns true.
Takes(s, c, addr) ==
  LET matching == Matching(s, c, addr)
  IN IF matching # {} THEN ~SubentriesFull(s, c, Lowest(matching))
     ELSE FreeEntries(s, c) # {} /\ ~Refused(s, Next1(c), BlockAddress(addr))

\* What it does then: the packet waits, and a new entry asks the next level.
processCacheMiss(s, c, p) ==
  LET block == BlockAddress(p.addr)
      matching == Matching(s, c, p.addr)
      i == Lowest(IF matching # {} THEN matching ELSE FreeEntries(s, c))
      added == [s EXCEPT !.mshr[c][i] =
                  [address |-> block, sub |-> Append(@.sub, p)]]
      onward == Packet(IF IsWrite(p) THEN "load" ELSE p.type, block, <<>>)
  IN IF matching # {} THEN added ELSE recvReq(added, Next1(c), onward)

\* Cache::writeBack of the block in a way: a dirty one goes to the next level.
writeBack(s, c, set, way) ==
  LET b == s.blocks[c][set][way]
      addr == getAddress(c, [tag |-> b.tag, set |-> set, offset |-> 0])
      packet == Packet("writeback", addr, b.data)
  IN IF ~(b.valid /\ b.dirty) THEN s
     ELSE IF Refused(s, Next1(c), addr)
     THEN Fails(s, "refused")
     ELSE recvReq(s, Next1(c), packet)

Overwritten(new, old) ==
  [o \in Offsets |-> IF o \in DOMAIN new THEN new[o] ELSE old[o]]

\* Mutant: the block is written and stays clean.
AppliedClean(p, b) ==
  IF IsWrite(p) THEN [b EXCEPT !.data = Overwritten(p.data, @)] ELSE b

\* Cache::applyPacketToCacheBlock, to the block that holds an address.
Applied(p, b) ==
  IF IsWrite(p) THEN [b EXCEPT !.data = Overwritten(p.data, @), !.dirty = TRUE]
  ELSE b

Apply(s, c, addr, p) ==
  [s EXCEPT !.blocks[c][getLocation(c, addr).set][Way(s, c, addr)] = Applied(p, @)]

\* PipeState::recvResp: the core is handed the word.
ToCore(s, p, b) ==
  [s EXCEPT !.out = Append(@, [type |-> p.type, addr |-> p.addr,
                               value |-> b.data[p.addr % BlkSize]])]

-------------------------------------------------------------------------------
(* Cache::recvResp for a block of data.  The FIRST MSHR entry is served: the *)
(* search's predicate assigns (entry.address = packet->addr) and is true of  *)
(* any entry (of none for byte address 0, which no program here uses).       *)

\* An invalid way, else the policy's victim.
WayFor(s, c, addr, victim) ==
  LET invalid == {w \in Ways(c) : ~s.blocks[c][getLocation(c, addr).set][w].valid}
  IN IF invalid # {} THEN Lowest(invalid) ELSE victim[c][BlockOf(addr)]

\* The block put in its own way, or in one for which another makes room.
Placed(s, c, addr, data, victim) ==
  LET loc == getLocation(c, addr)
      way == WayFor(s, c, addr, victim)
  IN IF Holding(s, c, addr) # {}
     THEN [s EXCEPT !.blocks[c][loc.set][Way(s, c, addr)].data = data]
     ELSE [writeBack(s, c, loc.set, way) EXCEPT !.blocks[c][loc.set][way] =
             [valid |-> TRUE, dirty |-> FALSE, tag |-> loc.tag, data |-> data]]

\* Mutant: a subentry stays valid.
LeaveKept(s, c) == s

\* The first waiting packet has been served.
Leave(s, c) == [s EXCEPT !.mshr[c][1].sub = Tail(@)]

\* The waiting packets are served in turn and the entry is released; one
\* without waiting packets is not valid.
ServeL1(s, c, addr, p) ==
  LET applied == Apply(s, c, addr, p)
  IN Leave(ToCore(applied, p, BlockAt(applied, c, addr)), c)

\* Mutant: the entry is served and not released.
FillL1Kept(s, c, addr, data, victim) ==
  LET placed == Placed(s, c, addr, data, victim)
      served == FoldLeft(LAMBDA st, p : ServeL1(st, c, addr, p), placed,
                         s.mshr[c][1].sub)
  IN IF s.mshr[c][1].sub = <<>> THEN Fails(placed, "noentry")
     ELSE [served EXCEPT !.mshr = s.mshr]

FillL1(s, c, addr, data, victim) ==
  LET placed == Placed(s, c, addr, data, victim)
      served == FoldLeft(LAMBDA st, p : ServeL1(st, c, addr, p), placed,
                         s.mshr[c][1].sub)
  IN IF s.mshr[c][1].sub = <<>> THEN Fails(placed, "noentry")
     ELSE [served EXCEPT !.mshr[c][1].address = 0]

\* In the L2, a waiting packet is a level 1 cache's; a write-back that waited
\* here is "answered" to the L1D, which does not accept it.
ServeL2(s, addr, p, victim) ==
  LET applied == Apply(s, "L2", addr, p)
  IN Leave(IF IsWrite(p)
           THEN Fails(applied, "writeanswer")
           ELSE FillL1(applied, PrevOf(p), p.addr,
                       BlockAt(applied, "L2", addr).data, victim), "L2")

FillL2(s, addr, data, victim) ==
  LET placed == Placed(s, "L2", addr, data, victim)
      served == FoldLeft(LAMBDA st, p : ServeL2(st, addr, p, victim), placed,
                         s.mshr["L2"][1].sub)
  IN IF s.mshr["L2"][1].sub = <<>> THEN Fails(placed, "noentry")
     ELSE [served EXCEPT !.mshr["L2"][1].address = 0]

-------------------------------------------------------------------------------
(* Cache::Tick.                                                              *)

\* A hit is applied and answered, and the packet deleted.
Hit(s, c, p, victim) ==
  LET applied == Apply(s, c, p.addr, p)
      b == BlockAt(applied, c, p.addr)
      answered == IF p.type = "writeback" THEN applied
                  ELSE IF c = "L2" THEN FillL1(applied, PrevOf(p), p.addr, b.data, victim)
                  ELSE ToCore(applied, p, b)
  IN [answered EXCEPT !.freed = TRUE]

\* Mutant: a packet no MSHR takes is not put off, and is removed with the rest.
MissOnce(s, c, i) ==
  LET p == s.queue[c][i]
  IN IF Takes(s, c, p.addr) THEN processCacheMiss(s, c, p) ELSE s

\* A miss goes to an MSHR or waits for the next Tick.
Miss(s, c, i) ==
  LET p == s.queue[c][i]
  IN IF Takes(s, c, p.addr) THEN processCacheMiss(s, c, p)
     ELSE [s EXCEPT !.queue[c][i].ready = 1]

Ready(p) == p.ready <= 0

\* The i-th packet of the n ready ones.  A write-back that comes back to this
\* queue before the last of them may move the array that for_each reads.
Process(s, c, n, victim, i) ==
  LET p == s.queue[c][i]
      done == IF Holding(s, c, p.addr) # {} THEN Hit(s, c, p, victim) ELSE Miss(s, c, i)
      moved == i < n /\ Len(s.queue[c]) < Len(done.queue[c])
  IN [done EXCEPT !.reused = @ \/ moved]

\* The packets of a queue that are ready, or that are not, in their order.
Select(q, ready) ==
  FoldLeft(LAMBDA kept, p : IF Ready(p) <=> ready THEN Append(kept, p) ELSE kept,
           <<>>, q)

\* std::partition and std::remove_if.
ReadyFirst(q) == Select(q, TRUE) \o Select(q, FALSE)

\* The ready packets first (they are: see QueuesSorted), each processed, and
\* at the end whatever is still marked ready removed.
CacheTick(s, c, victim) ==
  LET n == Len(Select(s.queue[c], TRUE))
      ticked == FoldLeft(LAMBDA st, i : Process(st, c, n, victim, i),
                         [s EXCEPT !.queue[c] = ReadyFirst(@)], [i \in 1 .. n |-> i])
  IN [ticked EXCEPT !.queue[c] = Select(@, FALSE)]

\* BaseMemory::Tick: from the front, until a packet that is not ready.
ServeMem(s, p, victim) ==
  LET words == {p.addr + o : o \in Offsets}
      popped == [s EXCEPT !.queue["Mem"] = Tail(@)]
  IN IF IsWrite(p)
     THEN [popped EXCEPT !.store =
             [a \in Addresses |-> IF a \in words THEN p.data[a - p.addr] ELSE @[a]]]
     ELSE FillL2(popped, p.addr, [o \in Offsets |-> s.store[p.addr + o]], victim)

\* How many at the front of a queue are ready.
Due(q) ==
  CHOOSE n \in 0 .. Len(q) :
    /\ \A i \in 1 .. n : Ready(q[i])
    /\ n = Len(q) \/ ~Ready(q[n + 1])

MemTick(s, victim) ==
  LET q == s.queue["Mem"]
  IN FoldLeft(LAMBDA st, p : ServeMem(st, p, victim), s, SubSeq(q, 1, Due(q)))

-------------------------------------------------------------------------------
(* The actions.                                                              *)

\* What the constructors make: no block valid, nothing pending.
Constructed ==
  /\ queue = [c \in Levels |-> <<>>]
  /\ blocks = [c \in Caches |->
                 [set \in 0 .. (NumSets[c] - 1) |-> [w \in Ways(c) |-> EmptyBlock]]]
  /\ mshr = [c \in Caches |-> [i \in 1 .. MshrEntries[c] |-> EmptyEntry]]
  /\ abort = "none"
  /\ phase = "Mem"
  /\ dataReq = NULL
  /\ fetches = [a \in TextWords |-> 0]
  /\ answers = <<>>

Init == Constructed /\ store = [a \in Addresses |-> InitWord(a)]

State == [queue |-> queue, blocks |-> blocks, mshr |-> mshr, store |-> store,
          abort |-> abort, out |-> <<>>, freed |-> FALSE, reused |-> FALSE]

\* A Tick's result, with the answers it gave the core.  If a packet was put
\* where a deleted one was, the queue's last pass reads the new one's ready
\* time through the old pointer and keeps it: from there the heap is corrupt,
\* as it is when for_each reads an array that has moved.
Becomes(s) ==
  /\ queue' = s.queue /\ blocks' = s.blocks /\ mshr' = s.mshr
  /\ store' = s.store
  /\ abort' \in {s.abort} \cup (IF s.reused THEN {"useafterfree"} ELSE {})
  /\ answers' = s.out
  /\ dataReq' = IF \E i \in DOMAIN s.out : s.out[i].type # "fetch"
                THEN NULL ELSE dataReq
  /\ fetches' = [a \in DOMAIN fetches |->
                   fetches[a] - Cardinality({i \in DOMAIN s.out :
                                  s.out[i].type = "fetch" /\ s.out[i].addr = a})]

\* LRURepl keeps an order of the ways per set, the oldest first.  getVictim and
\* update rotate a copy of it, so it stays as the constructor made it.
Ordering(c) == [i \in 1 .. NumWays[c] |-> i - 1]

\* The way a policy evicts from a full set.  PLRURepl's trees are constructed
\* empty, so its walk ends at once, at index 0.
getVictim(c) ==
  CASE Policy[c] = "Random" -> Ways(c)
    [] Policy[c] = "LRU" -> {Head(Ordering(c))}
    [] Policy[c] = "PLRU" -> {0}

\* The packets in a level: in its queue or waiting in its MSHRs.
Packets(c) == Range(queue[c]) \cup
              (IF c \in Caches
               THEN UNION {Range(mshr[c][i].sub) : i \in DOMAIN mshr[c]} ELSE {})

\* The way each cache would evict for each block that the level below may answer
\* it with (0 for other blocks, never used).  Only an answer of memory makes the
\* L2 evict.
Victims(memoryAnswers) ==
  LET evict(c) == {[b \in Blocks |-> IF b \in DOMAIN chosen THEN chosen[b] ELSE 0] :
                     chosen \in [{BlockOf(p.addr) : p \in Packets(Next1(c))} ->
                       IF c # "L2" \/ memoryAnswers THEN getVictim(c) ELSE {0}]}
  IN [L1I : evict("L1I"), L1D : evict("L1D"), L2 : evict("L2")]

TickMem ==
  /\ phase = "Mem" /\ abort = "none"
  /\ \E v \in Victims(\E i \in DOMAIN queue["Mem"] : Ready(queue["Mem"][i])) :
       Becomes(MemTick(State, v))
  /\ phase' = "L2"

TickL2 ==
  /\ phase = "L2" /\ abort = "none"
  /\ \E v \in Victims(FALSE) : Becomes(CacheTick(State, "L2", v))
  /\ phase' = "L1I"

TickL1I ==
  /\ phase = "L1I" /\ abort = "none"
  /\ \E v \in Victims(FALSE) : Becomes(CacheTick(State, "L1I", v))
  /\ phase' = "L1D"

TickL1D ==
  /\ phase = "L1D" /\ abort = "none"
  /\ \E v \in Victims(FALSE) : Becomes(CacheTick(State, "L1D", v))
  /\ phase' = "core"

\* The core, as PipeState uses the hierarchy: at most one load or store in
\* flight, a fetch at any time (the one before may have been flushed), a cache
\* whose queue is full refusing.  Then currCycle++.
DataRequests ==
  [type : {"load"}, addr : DataWords, value : {0}]
    \cup [type : {"store"}, addr : DataWords, value : Values]

RequestPacket(r) ==
  Packet(r.type, r.addr,
         IF r.type = "store" THEN [o \in {r.addr % BlkSize} |-> r.value] ELSE <<>>)

InFlight == FoldFunction(+, 0, fetches)

\* currCycle++
Elapsed(queues) ==
  [c \in Levels |-> [i \in DOMAIN queues[c] |-> [queues[c][i] EXCEPT !.ready = @ - 1]]]

Core(data, fetch) ==
  /\ phase = "core" /\ abort = "none"
  /\ data # NULL => dataReq = NULL /\ HasRoom(State, "L1D")
  /\ fetch # NULL => InFlight < MaxFetches /\ HasRoom(State, "L1I")
  /\ LET s1 == IF data = NULL THEN State
               ELSE recvReq(State, "L1D", RequestPacket(data))
         s2 == IF fetch = NULL THEN s1
               ELSE recvReq(s1, "L1I", Packet("fetch", fetch, <<>>))
     IN queue' = Elapsed(s2.queue)
  /\ dataReq' = IF data = NULL THEN dataReq ELSE data
  /\ fetches' = IF fetch = NULL THEN fetches ELSE [fetches EXCEPT ![fetch] = @ + 1]
  /\ answers' = <<>>
  /\ phase' = "Mem"
  /\ UNCHANGED <<blocks, mshr, store, abort>>

CoreCycle ==
  \E data \in DataRequests \cup {NULL},
     fetch \in TextWords \cup {NULL} : Core(data, fetch)

Aborted == abort # "none" /\ UNCHANGED hvars

Tick == TickMem \/ TickL2 \/ TickL1I \/ TickL1D

Next == Tick \/ CoreCycle \/ Aborted

Spec == Init /\ [][Next]_hvars

\* Simulator::go calls cycle again and again.  Until it aborts Next is always
\* enabled and always moves phase, so this is the weak fairness of Next.
Running ==
  /\ []<>(phase = "Mem" \/ abort # "none")
  /\ []<>(phase # "Mem" \/ abort # "none")

FairSpec == Spec /\ Running
===============================================================================
