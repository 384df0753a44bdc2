------------------------------- MODULE MemProofs -------------------------------
(***************************************************************************)
(* Invariants of the memory hierarchy, from what its operators do.         *)
(***************************************************************************)
EXTENDS MemEffects

-------------------------------------------------------------------------------
(* Types, and the times of the packets.                                      *)

\* The levels whose Tick has run in this cycle.
Passed(p) ==
  CASE p = "Mem" -> {}
    [] p = "L2" -> {"Mem"}
    [] p = "L1I" -> {"Mem", "L2"}
    [] p = "L1D" -> {"Mem", "L2", "L1I"}
    [] OTHER -> Levels

\* Every queue is sorted, and what a Tick has left in one is for a later cycle.
Timely(queues, p) ==
  \A c \in Levels : Sorted(queues[c]) /\ (c \in Passed(p) => Later(queues[c]))

\* The inductive invariant.
TimingInv ==
  /\ Typed(State)
  /\ phase \in Levels \cup {"core"}
  /\ dataReq \in DataRequests \cup {NULL}
  /\ fetches \in [TextWords -> Int]
  /\ Timely(queue, phase)

\* A Tick chooses a way of each set.
LEMMA VictimsEvict ==
  ASSUME NEW b \in BOOLEAN, NEW v \in Victims(b)
  PROVE  Evicts(v)
<1>1. \A c \in Caches : NumWays[c] \in Nat \ {0} /\ 0 \in Ways(c)
  BY Geometry DEF Ways
<1>2. \A c \in Caches : getVictim(c) \subseteq Ways(c)
  <2> TAKE c \in Caches
  <2>1. Head(Ordering(c)) = 0
    <3>1. NumWays[c] \in Nat \ {0} /\ 1 \in 1 .. NumWays[c]
      BY <1>1
    <3>2. PICK f : f = [i \in 1 .. NumWays[c] |-> i - 1]
      OBVIOUS
    <3>3. f \in Seq(Int) /\ f[1] = 0 /\ f # <<>>
      BY <3>1, <3>2
    <3>4. QED
      BY <3>2, <3>3 DEF Ordering
  <2>2. Policy[c] \in {"Random", "LRU", "PLRU"}
    BY HierarchyAssumption
  <2>3. CASE Policy[c] = "Random"
    BY <2>3 DEF getVictim
  <2>4. CASE Policy[c] = "LRU"
    BY <1>1, <2>1, <2>4 DEF getVictim
  <2>5. CASE Policy[c] = "PLRU"
    BY <1>1, <2>5 DEF getVictim
  <2>6. QED
    BY <2>2, <2>3, <2>4, <2>5
<1> DEFINE evict(c) == {[a \in Blocks |-> IF a \in DOMAIN chosen THEN chosen[a] ELSE 0] :
                          chosen \in [{BlockOf(p.addr) : p \in Packets(Next1(c))} ->
                            IF c # "L2" \/ b THEN getVictim(c) ELSE {0}]}
<1>3. ASSUME NEW c \in Caches, NEW e \in evict(c), NEW a \in Blocks
      PROVE  e[a] \in Ways(c)
  BY <1>1, <1>2, <1>3
<1>4. v \in [L1I : evict("L1I"), L1D : evict("L1D"), L2 : evict("L2")]
  BY DEF Victims
<1>5. \A c \in Caches : v[c] \in evict(c)
  BY <1>4 DEF Caches
<1>6. QED
  BY <1>3, <1>5 DEF Evicts

\* The state that a Tick leaves.
LEMMA BecomesEffect ==
  ASSUME TimingInv, NEW r, Typed(r), Becomes(r)
  PROVE  /\ Typed(State)' /\ queue' = r.queue
         /\ dataReq' \in DataRequests \cup {NULL}
         /\ fetches' \in [TextWords -> Int]
         /\ abort' = r.abort \/ abort' = "useafterfree"
<1>1. /\ queue' = r.queue /\ blocks' = r.blocks /\ mshr' = r.mshr /\ store' = r.store
      /\ abort' = r.abort \/ abort' = "useafterfree"
  BY DEF Becomes
<1>2. abort' \in Aborts \cup {"none"}
  BY <1>1 DEF Typed, Aborts
<1>3. Typed(State)'
  <2>1. <<>> \in Seq(Answers)
    OBVIOUS
  <2>2. QED
    BY <1>1, <1>2, <2>1 DEF Typed, State
<1>4. dataReq' \in DataRequests \cup {NULL}
  BY DEF Becomes, TimingInv
<1>5. fetches' \in [TextWords -> Int]
  <2>1. \A a \in TextWords :
          Cardinality({i \in DOMAIN r.out : r.out[i].type = "fetch" /\ r.out[i].addr = a}) \in Nat
    <3> TAKE a \in TextWords
    <3>1. PICK S : S = {i \in DOMAIN r.out : r.out[i].type = "fetch" /\ r.out[i].addr = a}
      OBVIOUS
    <3>2. Len(r.out) \in Nat /\ DOMAIN r.out = 1 .. Len(r.out)
      BY DEF Typed
    <3>3. IsFiniteSet(1 .. Len(r.out)) /\ S \subseteq 1 .. Len(r.out)
      BY <3>1, <3>2, FS_Interval
    <3>4. Cardinality(S) \in Nat
      BY <3>3, FS_Subset, FS_CardinalityType
    <3>5. QED
      BY <3>1, <3>4
  <2>2. fetches \in [TextWords -> Int]
    BY DEF TimingInv
  <2>3. QED
    BY <2>1, <2>2 DEF Becomes
<1>6. QED
  BY <1>1, <1>3, <1>4, <1>5

\* A queue that has only taken packets is as timely as it was.
LEMMA TimelyAfter ==
  ASSUME NEW s, Typed(s), NEW r, Typed(r), NEW c \in Levels, Extended(c, s.queue[c], r.queue[c])
  PROVE  /\ Sorted(s.queue[c]) => Sorted(r.queue[c])
         /\ Later(s.queue[c]) => Later(r.queue[c])
<1>1. s.queue[c] \in Seq(PacketSet(c)) /\ r.queue[c] \in Seq(PacketSet(c))
  BY DEF Typed, QueuesTyped
<1>2. QED
  BY <1>1, ExtendedOrder

\* The Tick of a cache.
LEMMA CacheTicks ==
  ASSUME TimingInv, NEW c \in Caches, phase = c, NEW b \in BOOLEAN, NEW v \in Victims(b),
         Becomes(CacheTick(State, c, v)), phase' \in Levels \cup {"core"},
         Passed(phase') = Passed(c) \cup {c}
  PROVE  /\ TimingInv'
         /\ \/ abort' = abort \/ abort' = "useafterfree"
            \/ abort = "none" /\ abort' \in Failures
<1>1. PICK r : r = CacheTick(State, c, v)
  OBVIOUS
<1>2. Evicts(v)
  BY VictimsEvict
<1>3. Ticked(State, c, r)
  BY <1>1, <1>2, CacheTickEffect DEF TimingInv
<1>4. /\ Typed(r) /\ May(State, r, Failures)
      /\ \A d \in Levels \ {c} : Extended(d, queue[d], r.queue[d])
      /\ Later(r.queue[c]) /\ (Sorted(queue[c]) => Sorted(r.queue[c]))
  BY <1>3 DEF Ticked, State
<1>5. /\ Typed(State)' /\ queue' = r.queue
      /\ dataReq' \in DataRequests \cup {NULL}
      /\ fetches' \in [TextWords -> Int]
      /\ abort' = r.abort \/ abort' = "useafterfree"
  BY <1>1, <1>4, BecomesEffect
<1>6. c \in Levels /\ \A d \in Levels : Sorted(queue[d])
  BY DEF TimingInv, Timely, Levels
<1>7. \A d \in Levels \ {c} : /\ Sorted(r.queue[d])
                              /\ Later(queue[d]) => Later(r.queue[d])
  <2> TAKE d \in Levels \ {c}
  <2>1. State.queue = queue
    BY DEF State
  <2>2. QED
    BY <1>4, <1>6, <2>1, TimelyAfter DEF TimingInv
<1>8. \A d \in Levels : d \in Passed(c) => Later(queue[d])
  BY DEF TimingInv, Timely
<1>9. Timely(r.queue, phase')
  BY <1>4, <1>6, <1>7, <1>8 DEF Timely
<1>10. TimingInv'
  BY <1>5, <1>9 DEF TimingInv
<1>11. abort' = abort \/ abort' = "useafterfree" \/ (abort = "none" /\ abort' \in Failures)
  BY <1>4, <1>5 DEF May, State
<1>12. QED
  BY <1>10, <1>11

\* The Tick of memory.
LEMMA MemTicks ==
  ASSUME TimingInv, TickMem
  PROVE  /\ TimingInv'
         /\ \/ abort' = abort \/ abort' = "useafterfree"
            \/ abort = "none" /\ abort' \in Failures
<1>1. PICK b \in BOOLEAN : b = (\E i \in DOMAIN queue["Mem"] : Ready(queue["Mem"][i]))
  OBVIOUS
<1>2. PICK v \in Victims(b) : Becomes(MemTick(State, v))
  BY <1>1 DEF TickMem
<1>3. PICK r : r = MemTick(State, v)
  OBVIOUS
<1>4. Evicts(v)
  BY VictimsEvict
<1>5. MemTicked(State, r)
  BY <1>3, <1>4, MemTickEffect DEF TimingInv
<1>6. /\ Typed(r) /\ May(State, r, Failures)
      /\ \A d \in {"L1I", "L1D"} : r.queue[d] = queue[d]
      /\ Extended("L2", queue["L2"], r.queue["L2"])
      /\ Sorted(queue["Mem"]) => Sorted(r.queue["Mem"]) /\ Later(r.queue["Mem"])
  BY <1>5 DEF MemTicked, State
<1>7. /\ Typed(State)' /\ queue' = r.queue
      /\ dataReq' \in DataRequests \cup {NULL}
      /\ fetches' \in [TextWords -> Int]
      /\ abort' = r.abort \/ abort' = "useafterfree"
  BY <1>2, <1>3, <1>6, BecomesEffect
<1>8. \A d \in Levels : Sorted(queue[d])
  BY DEF TimingInv, Timely
<1>9. "L2" \in Levels /\ "Mem" \in Levels /\ Levels = {"L1I", "L1D", "L2", "Mem"}
  BY DEF Levels, Caches
<1>10. Sorted(r.queue["L2"])
  <2>1. State.queue = queue
    BY DEF State
  <2>2. QED
    BY <1>6, <1>8, <1>9, <2>1, TimelyAfter DEF TimingInv
<1>11. phase' = "L2" /\ Passed("L2") = {"Mem"}
  BY DEF TickMem, Passed
<1>12. \A d \in Levels : Sorted(r.queue[d])
  BY <1>6, <1>8, <1>9, <1>10
<1>13. Timely(r.queue, phase')
  BY <1>6, <1>8, <1>9, <1>11, <1>12 DEF Timely
<1>14. TimingInv'
  BY <1>7, <1>9, <1>11, <1>13 DEF TimingInv
<1>15. abort' = abort \/ abort' = "useafterfree" \/ (abort = "none" /\ abort' \in Failures)
  BY <1>6, <1>7 DEF May, State
<1>16. QED
  BY <1>14, <1>15

\* Whichever level's it is.
LEMMA Ticks ==
  ASSUME TimingInv, Tick
  PROVE  /\ TimingInv'
         /\ \/ abort' = abort \/ abort' = "useafterfree"
            \/ abort = "none" /\ abort' \in Failures
<1>1. "L2" \in Caches /\ "L1I" \in Caches /\ "L1D" \in Caches /\ FALSE \in BOOLEAN
  BY DEF Caches
<1>2. /\ Passed("L1I") = Passed("L2") \cup {"L2"}
      /\ Passed("L1D") = Passed("L1I") \cup {"L1I"}
      /\ Passed("core") = Passed("L1D") \cup {"L1D"}
  BY DEF Passed, Levels, Caches
<1>3. {"L1I", "L1D", "L2"} \subseteq Levels
  BY DEF Levels, Caches
<1>4. CASE TickL2
  <2>1. /\ phase = "L2" /\ phase' = "L1I"
        /\ \E v \in Victims(FALSE) : Becomes(CacheTick(State, "L2", v))
    BY <1>4 DEF TickL2
  <2>2. QED
    BY <1>1, <1>2, <1>3, <2>1, CacheTicks
<1>5. CASE TickL1I
  <2>1. /\ phase = "L1I" /\ phase' = "L1D"
        /\ \E v \in Victims(FALSE) : Becomes(CacheTick(State, "L1I", v))
    BY <1>5 DEF TickL1I
  <2>2. QED
    BY <1>1, <1>2, <1>3, <2>1, CacheTicks
<1>6. CASE TickL1D
  <2>1. /\ phase = "L1D" /\ phase' = "core"
        /\ \E v \in Victims(FALSE) : Becomes(CacheTick(State, "L1D", v))
    BY <1>6 DEF TickL1D
  <2>2. QED
    BY <1>1, <1>2, <1>3, <2>1, CacheTicks
<1>7. QED
  BY <1>4, <1>5, <1>6, MemTicks DEF Tick

\* The core's requests are packets.
LEMMA RequestTyped ==
  /\ \A r \in DataRequests :
       [RequestPacket(r) EXCEPT !.ready = Delay["L1D"]] \in PacketSet("L1D")
  /\ \A a \in TextWords :
       [Packet("fetch", a, <<>>) EXCEPT !.ready = Delay["L1I"]] \in PacketSet("L1I")
<1>1. /\ Delay["L1D"] \in 0 .. Delay["L1D"] /\ Delay["L1I"] \in 0 .. Delay["L1I"]
  BY Geometry DEF Levels, Caches
<1>2. ASSUME NEW a \in TextWords
      PROVE  [Packet("fetch", a, <<>>) EXCEPT !.ready = Delay["L1I"]] \in PacketSet("L1I")
  BY <1>1 DEF Packet, PacketSet, Reads
<1>3. ASSUME NEW r \in DataRequests
      PROVE  [RequestPacket(r) EXCEPT !.ready = Delay["L1D"]] \in PacketSet("L1D")
  <2>1. PICK q : q = [RequestPacket(r) EXCEPT !.ready = Delay["L1D"]]
    OBVIOUS
  <2>2. CASE r.type = "store"
    <3>1. r.addr \in DataWords /\ r.value \in Values
      BY <2>2 DEF DataRequests
    <3>2. PICK o \in Offsets : o = r.addr % BlkSize
      BY <3>1, WordsAreAddresses, AddressParts
    <3>3. PICK f : f = [x \in {o} |-> r.value]
      OBVIOUS
    <3>4. f \in [{o} -> Values] /\ DOMAIN f = {o}
      BY <3>1, <3>3
    <3>5. q = [type |-> "store", addr |-> r.addr, data |-> f, ready |-> Delay["L1D"]]
      BY <2>1, <2>2, <3>2, <3>3 DEF RequestPacket, Packet
    <3>6. f \in UNION {[{x} -> Values] : x \in Offsets}
      BY <3>2, <3>4
    <3>7. q \in Stores("L1D")
      BY <1>1, <3>1, <3>2, <3>4, <3>5, <3>6 DEF Stores
    <3>8. QED
      BY <2>1, <3>7 DEF PacketSet
  <2>3. CASE r.type # "store"
    <3>1. r.addr \in DataWords /\ r.type = "load"
      BY <2>3 DEF DataRequests
    <3>2. q = [type |-> "load", addr |-> r.addr, data |-> <<>>, ready |-> Delay["L1D"]]
      BY <2>1, <3>1 DEF RequestPacket, Packet
    <3>3. q \in Reads("load", DataWords, "L1D")
      BY <1>1, <3>1, <3>2 DEF Reads
    <3>4. QED
      BY <2>1, <3>3 DEF PacketSet
  <2>4. QED
    BY <2>2, <2>3
<1>4. QED
  BY <1>2, <1>3

\* A request of the core's is put on its queue.
Asked(s, c, q, r) ==
  /\ Typed(r) /\ r.blocks = s.blocks /\ r.mshr = s.mshr /\ r.store = s.store
  /\ r.abort = s.abort
  /\ r.queue[c] = Append(s.queue[c], q)
  /\ \A d \in Levels \ {c} : r.queue[d] = s.queue[d]

\* recvReq of a level 1 cache takes the core's request.
LEMMA AskEffect ==
  ASSUME NEW s, Typed(s), NEW c \in {"L1I", "L1D"}, NEW p, NEW q \in PacketSet(c),
         q = [p EXCEPT !.ready = Delay[c]]
  PROVE  Asked(s, c, q, recvReq(s, c, p))
<1>1. c \in Levels /\ c # "Mem"
  BY DEF Levels, Caches
<1>2. Received(s, c, p, q, recvReq(s, c, p))
  BY <1>1, RecvEffect
<1>3. QED
  BY <1>1, <1>2 DEF Received, Asked

\* A packet that has just been sent is not ready.
LEMMA AskExtends ==
  ASSUME NEW s, Typed(s), NEW c \in {"L1I", "L1D"}, NEW q, q.ready = Delay[c],
         NEW r, Asked(s, c, q, r)
  PROVE  \A d \in Levels : Extended(d, s.queue[d], r.queue[d])
<1>1. \A d \in Levels : s.queue[d] \in Seq(PacketSet(d)) /\ Len(s.queue[d]) \in Nat
  BY DEF Typed, QueuesTyped
<1>2. c \in Levels
  BY DEF Levels, Caches
<1>3. Extended(c, s.queue[c], r.queue[c])
  <2>1. r.queue[c] = Append(s.queue[c], q)
    BY DEF Asked
  <2>2. /\ Len(Append(s.queue[c], q)) = Len(s.queue[c]) + 1
        /\ \A i \in 1 .. Len(s.queue[c]) : Append(s.queue[c], q)[i] = s.queue[c][i]
        /\ Append(s.queue[c], q)[Len(s.queue[c]) + 1] = q
    BY <1>1, <1>2
  <2>3. QED
    BY <1>1, <1>2, <2>1, <2>2 DEF Extended
<1>4. \A d \in Levels \ {c} : Extended(d, s.queue[d], r.queue[d])
  BY <1>1 DEF Asked, Extended
<1>5. QED
  BY <1>3, <1>4

\* The clock ticks: what is later is a cycle nearer.
LEMMA ElapsedEffect ==
  ASSUME NEW queues, QueuesTyped(queues), \A c \in Levels : Later(queues[c])
  PROVE  /\ QueuesTyped(Elapsed(queues))
         /\ \A c \in Levels : Sorted(queues[c]) => Sorted(Elapsed(queues)[c])
<1>1. ASSUME NEW c \in Levels
      PROVE  /\ Elapsed(queues)[c] \in Seq(PacketSet(c))
             /\ Sorted(queues[c]) => Sorted(Elapsed(queues)[c])
  <2>1. PICK q \in Seq(PacketSet(c)) : q = queues[c]
    BY DEF QueuesTyped
  <2>2. PICK r : r = [i \in 1 .. Len(q) |-> [q[i] EXCEPT !.ready = @ - 1]]
    OBVIOUS
  <2>3. Elapsed(queues)[c] = r
    BY <2>1, <2>2 DEF Elapsed
  <2>4. ASSUME NEW i \in 1 .. Len(q)
        PROVE  /\ q[i].ready \in Nat /\ r[i] \in PacketSet(c)
               /\ r[i].ready = q[i].ready - 1
    <3>1. q[i] \in PacketSet(c) /\ q[i].ready >= 1
      BY <2>1 DEF Later
    <3>2. q[i].ready \in Nat /\ q[i].ready <= Delay[c] /\ Delay[c] \in Nat
      BY <3>1, ReadyTimes, Geometry
    <3>3. PICK n \in 0 .. Delay[c] : n = q[i].ready - 1
      BY <3>1, <3>2
    <3>4. r[i] = [q[i] EXCEPT !.ready = n]
      BY <2>2, <3>3
    <3>5. r[i] \in PacketSet(c) /\ r[i].ready = n
      BY <3>1, <3>4, TimeChange
    <3>6. QED
      BY <3>2, <3>3, <3>5
  <2>5. Len(q) \in Nat
    OBVIOUS
  <2>6. r \in Seq(PacketSet(c)) /\ Len(r) = Len(q)
    BY <2>2, <2>4, <2>5
  <2>7. ASSUME Sorted(q), NEW i \in 1 .. Len(r), NEW k \in 1 .. Len(r), i < k
        PROVE  r[i].ready <= r[k].ready
    <3>1. q[i].ready <= q[k].ready
      BY <2>6, <2>7 DEF Sorted
    <3>2. QED
      BY <2>4, <2>6, <3>1
  <2>8. QED
    BY <2>1, <2>3, <2>6, <2>7 DEF Sorted
<1>2. DOMAIN Elapsed(queues) = Levels
  BY DEF Elapsed
<1>3. QED
  BY <1>1, <1>2 DEF QueuesTyped

\* What the core's cycle does to a state that is about to send its requests.
Requested(data, fetch, s1, s2) ==
  /\ IF data = NULL THEN s1 = State
     ELSE s1 = recvReq(State, "L1D", RequestPacket(data))
  /\ IF fetch = NULL THEN s2 = s1
     ELSE s2 = recvReq(s1, "L1I", Packet("fetch", fetch, <<>>))

\* The core's cycle sends its requests and then lets the clock tick.
LEMMA CoreRequests ==
  ASSUME NEW data \in DataRequests \cup {NULL}, NEW fetch \in TextWords \cup {NULL},
         Core(data, fetch)
  PROVE  \E s1, s2 : Requested(data, fetch, s1, s2) /\ queue' = Elapsed(s2.queue)
<1>1. PICK s1 : s1 = IF data = NULL THEN State
                     ELSE recvReq(State, "L1D", RequestPacket(data))
  OBVIOUS
<1>2. PICK s2 : s2 = IF fetch = NULL THEN s1
                     ELSE recvReq(s1, "L1I", Packet("fetch", fetch, <<>>))
  OBVIOUS
<1>3. queue' = Elapsed(s2.queue)
  BY <1>1, <1>2 DEF Core
<1>4. Requested(data, fetch, s1, s2)
  BY <1>1, <1>2 DEF Requested
<1>5. QED
  BY <1>3, <1>4

\* The requests are added at the end of their queues, and are not ready.
LEMMA RequestedTyped ==
  ASSUME TimingInv, NEW data \in DataRequests \cup {NULL},
         NEW fetch \in TextWords \cup {NULL}, NEW s1, NEW s2,
         Requested(data, fetch, s1, s2)
  PROVE  Typed(s2) /\ \A c \in Levels : Extended(c, queue[c], s2.queue[c])
<1>1. Typed(State) /\ State.queue = queue
  BY DEF TimingInv, State
<1>2. \A c \in Levels : queue[c] \in Seq(PacketSet(c))
  BY <1>1 DEF Typed, QueuesTyped
<1>3. Typed(s1) /\ \A c \in Levels : Extended(c, queue[c], s1.queue[c])
  <2>1. CASE data = NULL
    <3>1. s1 = State
      BY <2>1 DEF Requested
    <3>2. \A c \in Levels : Extended(c, queue[c], queue[c])
      BY <1>2 DEF Extended
    <3>3. QED
      BY <1>1, <3>1, <3>2
  <2>2. CASE data # NULL
    <3>1. PICK q \in PacketSet("L1D") : q = [RequestPacket(data) EXCEPT !.ready = Delay["L1D"]]
      BY <2>2, RequestTyped
    <3>2. s1 = recvReq(State, "L1D", RequestPacket(data))
      BY <2>2 DEF Requested
    <3>3. Asked(State, "L1D", q, s1)
      BY <1>1, <3>1, <3>2, AskEffect
    <3>4. q.ready = Delay["L1D"]
      BY <3>1 DEF RequestPacket, Packet
    <3>5. \A c \in Levels : Extended(c, State.queue[c], s1.queue[c])
      BY <1>1, <3>3, <3>4, AskExtends
    <3>6. QED
      BY <1>1, <3>3, <3>5 DEF Asked
  <2>3. QED
    BY <2>1, <2>2
<1>4. CASE fetch = NULL
  BY <1>3, <1>4 DEF Requested
<1>5. CASE fetch # NULL
  <2>1. PICK q \in PacketSet("L1I") :
          q = [Packet("fetch", fetch, <<>>) EXCEPT !.ready = Delay["L1I"]]
    BY <1>5, RequestTyped
  <2>2. s2 = recvReq(s1, "L1I", Packet("fetch", fetch, <<>>))
    BY <1>5 DEF Requested
  <2>3. Asked(s1, "L1I", q, s2)
    BY <1>3, <2>1, <2>2, AskEffect
  <2>4. q.ready = Delay["L1I"]
    BY <2>1 DEF Packet
  <2>5. Typed(s2)
    BY <2>3 DEF Asked
  <2>6. ASSUME NEW c \in Levels
        PROVE  Extended(c, queue[c], s2.queue[c])
    <3>1. Extended(c, s1.queue[c], s2.queue[c])
      BY <1>3, <2>3, <2>4, AskExtends
    <3>2. s1.queue[c] \in Seq(PacketSet(c)) /\ s2.queue[c] \in Seq(PacketSet(c))
      BY <1>3, <2>5 DEF Typed, QueuesTyped
    <3>3. Extended(c, queue[c], s1.queue[c])
      BY <1>3
    <3>4. QED
      BY <1>2, <3>1, <3>2, <3>3, ExtendedTwice
  <2>7. QED
    BY <2>5, <2>6
<1>6. QED
  BY <1>4, <1>5

\* The core's cycle.
LEMMA CoreSteps ==
  ASSUME TimingInv, CoreCycle
  PROVE  TimingInv' /\ abort' = abort
<1>1. PICK data \in DataRequests \cup {NULL}, fetch \in TextWords \cup {NULL} :
        Core(data, fetch)
  BY DEF CoreCycle
<1>2. PICK s1, s2 : Requested(data, fetch, s1, s2) /\ queue' = Elapsed(s2.queue)
  BY <1>1, CoreRequests
<1>3. Typed(s2) /\ \A c \in Levels : Extended(c, queue[c], s2.queue[c])
  BY <1>2, RequestedTyped
<1>4. phase = "core" /\ \A c \in Levels : Sorted(queue[c]) /\ Later(queue[c])
  BY <1>1 DEF Core, TimingInv, Timely, Passed
<1>5. \A c \in Levels : Sorted(s2.queue[c]) /\ Later(s2.queue[c])
  <2>1. Typed(State) /\ State.queue = queue
    BY DEF TimingInv, State
  <2>2. QED
    BY <1>3, <1>4, <2>1, TimelyAfter
<1>6. QueuesTyped(queue') /\ \A c \in Levels : Sorted(queue'[c])
  <2>1. QueuesTyped(s2.queue)
    BY <1>3 DEF Typed
  <2>2. QED
    BY <1>2, <1>5, <2>1, ElapsedEffect
<1>7. /\ blocks' = blocks /\ mshr' = mshr /\ store' = store /\ abort' = abort
      /\ phase' = "Mem"
  BY <1>1 DEF Core
<1>8. Typed(State)'
  BY <1>6, <1>7 DEF TimingInv, Typed, State
<1>9. dataReq' \in DataRequests \cup {NULL} /\ fetches' \in [TextWords -> Int]
  BY <1>1 DEF Core, TimingInv
<1>10. Timely(queue', phase')
  BY <1>6, <1>7 DEF Timely, Passed
<1>11. QED
  BY <1>7, <1>8, <1>9, <1>10 DEF TimingInv, Levels

\* The caches start empty.
LEMMA TimingInit ==
  Init => TimingInv
<1> SUFFICES ASSUME Init PROVE TimingInv
  OBVIOUS
<1>1. /\ queue = [c \in Levels |-> <<>>]
      /\ blocks = [c \in Caches |->
                     [set \in 0 .. (NumSets[c] - 1) |-> [w \in Ways(c) |-> EmptyBlock]]]
      /\ mshr = [c \in Caches |-> [i \in 1 .. MshrEntries[c] |-> EmptyEntry]]
      /\ abort = "none" /\ phase = "Mem" /\ dataReq = NULL
      /\ fetches = [a \in TextWords |-> 0]
      /\ store = [a \in Addresses |-> InitWord(a)]
  BY DEF Init, Constructed
<1>2. QueuesTyped(queue) /\ Timely(queue, phase)
  <2>1. \A c \in Levels : <<>> \in Seq(PacketSet(c)) /\ Len(<<>>) = 0
    OBVIOUS
  <2>2. \A c \in Levels : queue[c] = <<>> /\ c \notin Passed("Mem")
    BY <1>1 DEF Passed
  <2>3. Sorted(<<>>)
    <3>1. 1 .. Len(<<>>) = {}
      OBVIOUS
    <3>2. QED
      BY <3>1 DEF Sorted
  <2>4. QED
    BY <1>1, <2>1, <2>2, <2>3 DEF QueuesTyped, Timely
<1>3. MshrTyped(mshr)
  <2>1. \A c \in Caches : EmptyEntry \in EntrySet(c)
    <3>1. \A c \in Caches : <<>> \in Seq(PacketSet(c)) /\ Len(<<>>) <= MshrSubentries[c]
      <4>1. Len(<<>>) = 0
        OBVIOUS
      <4>2. QED
        BY <4>1, Geometry
    <3>2. QED
      BY <3>1 DEF EmptyEntry, EntrySet
  <2>2. QED
    BY <1>1, <2>1 DEF MshrTyped
<1>4. BlocksTyped(blocks)
  <2>1. \A c \in Caches : \A set : EmptyBlock \in BlockSet(c, set)
    BY DEF EmptyBlock, BlockSet
  <2>2. QED
    BY <1>1, <2>1 DEF BlocksTyped, Sets
<1>5. store \in [Addresses -> Values]
  BY <1>1, HierarchyAssumption
<1>6. Typed(State)
  <2>1. <<>> \in Seq(Answers)
    OBVIOUS
  <2>2. QED
    BY <1>1, <1>2, <1>3, <1>4, <1>5, <2>1 DEF Typed, State
<1>7. QED
  BY <1>1, <1>2, <1>6 DEF TimingInv, Levels

\* Every step.
LEMMA TimingStep ==
  TimingInv /\ [Next]_hvars => TimingInv'
<1> SUFFICES ASSUME TimingInv, [Next]_hvars PROVE TimingInv'
  OBVIOUS
<1>1. CASE Tick
  BY <1>1, Ticks
<1>2. CASE CoreCycle
  BY <1>2, CoreSteps
<1>3. CASE Aborted \/ UNCHANGED hvars
  <2>1. UNCHANGED hvars
    BY <1>3 DEF Aborted
  <2>2. QED
    BY <2>1 DEF TimingInv, hvars, hierarchy, State
<1>4. QED
  BY <1>1, <1>2, <1>3 DEF Next

\* The invariant holds in every reachable state.
LEMMA TimingAlways ==
  Spec => []TimingInv
BY TimingInit, TimingStep, PTL DEF Spec

\* The queues of the caches and of memory stay sorted by ready time, as
\* BaseMemory::Tick assumes, whatever the delays and however many packets there are.
THEOREM QueuesAreSorted ==
  Spec => []QueuesSorted
<1>1. TimingInv => QueuesSorted
  <2> SUFFICES ASSUME TimingInv, NEW c \in Levels PROVE
                 \A i, k \in DOMAIN queue[c] : i < k => queue[c][i].ready <= queue[c][k].ready
    BY DEF QueuesSorted
  <2>1. queue[c] \in Seq(PacketSet(c)) /\ Sorted(queue[c])
    BY DEF TimingInv, Timely, Typed, QueuesTyped, State
  <2>2. DOMAIN queue[c] = 1 .. Len(queue[c])
    BY <2>1
  <2>3. QED
    BY <2>1, <2>2 DEF Sorted
<1>2. QED
  BY <1>1, TimingAlways, PTL

\* Where memory has a region for every block, no request leaves the regions: what
\* writeBack rebuilds from a tag and a set is the address of a block.
THEOREM RegionsAreRespected ==
  RegionsCover => (Spec => []RegionsRespected)
<1> SUFFICES ASSUME RegionsCover PROVE Spec => []RegionsRespected
  OBVIOUS
<1>1. Init => RegionsRespected
  BY DEF Init, Constructed, RegionsRespected
<1>2. TimingInv /\ RegionsRespected /\ [Next]_hvars => RegionsRespected'
  <2> SUFFICES ASSUME TimingInv, RegionsRespected, [Next]_hvars PROVE RegionsRespected'
    OBVIOUS
  <2>1. "unallocated" \notin Failures /\ "unallocated" # "useafterfree"
    BY DEF Failures, Losses
  <2>2. CASE Tick
    BY <2>1, <2>2, Ticks DEF RegionsRespected
  <2>3. CASE CoreCycle
    BY <2>3, CoreSteps DEF RegionsRespected
  <2>4. CASE Aborted \/ UNCHANGED hvars
    BY <2>4 DEF Aborted, hvars, hierarchy, RegionsRespected
  <2>5. QED
    BY <2>2, <2>3, <2>4 DEF Next
<1>3. QED
  BY <1>1, <1>2, TimingAlways, PTL DEF Spec

-------------------------------------------------------------------------------
(* The core's requests, and the entries of a block.                          *)

\* The requests of a kind that the level 1 cache of the kind has.
InLevel1(s, kind, addr) == Pending(s, CacheOf(kind), kind, addr)

\* An empty queue has none.
LEMMA NumEmpty ==
  ASSUME NEW kind, NEW addr
  PROVE  Num(<<>>, kind, addr) = 0
<1>1. {i \in DOMAIN <<>> : Is(<<>>[i], kind, addr)} = {}
  OBVIOUS
<1>2. Cardinality({}) = 0
  BY FS_EmptySet
<1>3. QED
  BY <1>1, <1>2 DEF Num

\* They are in its queue or wait in its entries.
LEMMA InLevel1Is ==
  ASSUME NEW s, Typed(s), NEW kind, NEW addr
  PROVE  /\ InLevel1(s, kind, addr) =
              Num(s.queue[CacheOf(kind)], kind, addr) + WaitNum(s, CacheOf(kind), kind, addr)
         /\ Num(s.queue[CacheOf(kind)], kind, addr) \in Nat
         /\ WaitNum(s, CacheOf(kind), kind, addr) \in Nat
         /\ InLevel1(s, kind, addr) \in Nat
<1>1. PICK c \in {"L1I", "L1D"} : c = CacheOf(kind) /\ c # "Mem" /\ c \in Levels
  BY TotalType DEF Levels, Caches
<1>2. WaitNum(s, CacheOf(kind), kind, addr) \in Nat
  BY TotalType
<1>3. s.queue[c] \in Seq(PacketSet(c))
  BY <1>1 DEF Typed, QueuesTyped
<1>4. Num(s.queue[c], kind, addr) \in Nat
  BY <1>3, NumType
<1>5. QED
  BY <1>1, <1>2, <1>4 DEF InLevel1, Pending, WaitNum

\* A Tick's result, and what it does to the requests.
LEMMA TickRequests ==
  ASSUME TimingInv, Tick
  PROVE  \E r : Typed(r) /\ Becomes(r) /\ RequestsKept(State, r)
<1>1. "L2" \in Caches /\ "L1I" \in Caches /\ "L1D" \in Caches /\ FALSE \in BOOLEAN
  BY DEF Caches
<1>2. ASSUME NEW c \in Caches, NEW v \in Victims(FALSE), Becomes(CacheTick(State, c, v))
      PROVE  \E r : Typed(r) /\ Becomes(r) /\ RequestsKept(State, r)
  <2>1. PICK r : r = CacheTick(State, c, v)
    OBVIOUS
  <2>2. Evicts(v)
    BY <1>1, VictimsEvict
  <2>3. Ticked(State, c, r)
    BY <2>1, <2>2, CacheTickEffect DEF TimingInv
  <2>4. Typed(r) /\ RequestsKept(State, r) /\ Becomes(r)
    BY <1>2, <2>1, <2>3 DEF Ticked
  <2>5. QED
    BY <2>4
<1>3. CASE TickL2
  <2>1. \E v \in Victims(FALSE) : Becomes(CacheTick(State, "L2", v))
    BY <1>3 DEF TickL2
  <2>2. QED
    BY <1>1, <1>2, <2>1
<1>4. CASE TickL1I
  <2>1. \E v \in Victims(FALSE) : Becomes(CacheTick(State, "L1I", v))
    BY <1>4 DEF TickL1I
  <2>2. QED
    BY <1>1, <1>2, <2>1
<1>5. CASE TickL1D
  <2>1. \E v \in Victims(FALSE) : Becomes(CacheTick(State, "L1D", v))
    BY <1>5 DEF TickL1D
  <2>2. QED
    BY <1>1, <1>2, <2>1
<1>6. CASE TickMem
  <2>1. PICK b \in BOOLEAN : b = (\E i \in DOMAIN queue["Mem"] : Ready(queue["Mem"][i]))
    OBVIOUS
  <2>2. PICK v \in Victims(b) : Becomes(MemTick(State, v))
    BY <1>6, <2>1 DEF TickMem
  <2>3. PICK r : r = MemTick(State, v)
    OBVIOUS
  <2>4. Evicts(v)
    BY VictimsEvict
  <2>5. MemTicked(State, r)
    BY <2>3, <2>4, MemTickEffect DEF TimingInv
  <2>6. /\ Settles(State, r) /\ Typed(r)
        /\ \A d \in {"L1I", "L1D"} : r.queue[d] = State.queue[d]
    BY <2>5 DEF MemTicked
  <2>7. Distinct(State) => Distinct(r)
    BY <2>6 DEF Settles, Shrunk, Distinct
  <2>8. ASSUME NEW kind \in Kinds, NEW addr \in Addresses
        PROVE  Num(r.queue[CacheOf(kind)], kind, addr) + Total(r, kind, addr) =
                 Num(State.queue[CacheOf(kind)], kind, addr) + Total(State, kind, addr)
    <3>1. CacheOf(kind) \in {"L1I", "L1D"}
      BY DEF CacheOf
    <3>2. Total(r, kind, addr) = Total(State, kind, addr)
      BY <2>6 DEF Settles, Balanced
    <3>3. QED
      BY <2>6, <3>1, <3>2
  <2>a. Alone(r) => Alone(State)
    BY <2>6, AloneSettled
  <2>9. RequestsKept(State, r)
    BY <2>7, <2>8, <2>a DEF RequestsKept
  <2>10. QED
    BY <2>2, <2>3, <2>6, <2>9
<1>7. QED
  BY <1>3, <1>4, <1>5, <1>6 DEF Tick

\* Each request that a Tick takes from a level 1 cache is answered.
LEMMA AnsweredOnce ==
  ASSUME TimingInv, NEW r, Typed(r), Becomes(r), RequestsKept(State, r),
         NEW kind \in Kinds, NEW addr \in Addresses
  PROVE  /\ InLevel1(State, kind, addr)' + Num(r.out, kind, addr)
              = InLevel1(State, kind, addr)
         /\ InLevel1(State, kind, addr) \in Nat /\ Num(r.out, kind, addr) \in Nat
         /\ InLevel1(State, kind, addr)' \in Nat
<1>1. Typed(State) /\ State.out = <<>>
  BY DEF TimingInv, State
<1>2. /\ InLevel1(State, kind, addr) =
           Num(State.queue[CacheOf(kind)], kind, addr)
             + WaitNum(State, CacheOf(kind), kind, addr)
      /\ Num(State.queue[CacheOf(kind)], kind, addr) \in Nat
      /\ WaitNum(State, CacheOf(kind), kind, addr) \in Nat
      /\ InLevel1(State, kind, addr) \in Nat
  BY <1>1, InLevel1Is
<1>3. /\ InLevel1(r, kind, addr) =
           Num(r.queue[CacheOf(kind)], kind, addr) + WaitNum(r, CacheOf(kind), kind, addr)
      /\ Num(r.queue[CacheOf(kind)], kind, addr) \in Nat
      /\ WaitNum(r, CacheOf(kind), kind, addr) \in Nat
      /\ InLevel1(r, kind, addr) \in Nat
  BY InLevel1Is
<1>4. InLevel1(State, kind, addr)' = InLevel1(r, kind, addr)
  <2>1. queue' = r.queue /\ mshr' = r.mshr
    BY DEF Becomes
  <2>2. QED
    BY <2>1 DEF InLevel1, Pending, Waiting, State
<1>5. Num(r.out, kind, addr) \in Nat
  BY TotalType
<1>6. Total(State, kind, addr) = WaitNum(State, CacheOf(kind), kind, addr)
  <2>1. Num(State.out, kind, addr) = 0
    BY <1>1, NumEmpty
  <2>2. QED
    BY <1>2, <2>1 DEF Total
<1>7. Total(r, kind, addr) = WaitNum(r, CacheOf(kind), kind, addr) + Num(r.out, kind, addr)
  BY DEF Total
<1>8. Num(r.queue[CacheOf(kind)], kind, addr) + Total(r, kind, addr) =
        Num(State.queue[CacheOf(kind)], kind, addr) + Total(State, kind, addr)
  BY DEF RequestsKept
<1>9. QED
  BY <1>2, <1>3, <1>4, <1>5, <1>6, <1>7, <1>8

\* An answer is counted.
LEMMA AnswerCounts ==
  ASSUME NEW r, Typed(r), NEW i \in DOMAIN r.out
  PROVE  Num(r.out, r.out[i].type, r.out[i].addr) >= 1
<1>1. r.out \in Seq(Answers)
  BY DEF Typed
<1>2. PICK A : A = {j \in DOMAIN r.out : Is(r.out[j], r.out[i].type, r.out[i].addr)}
  OBVIOUS
<1>3. IsFiniteSet(A) /\ Num(r.out, r.out[i].type, r.out[i].addr) = Cardinality(A)
  BY <1>1, <1>2, NumType DEF Num
<1>4. i \in A
  BY <1>2 DEF Is
<1>5. {i} \subseteq A /\ Cardinality({i}) = 1
  BY <1>4, FS_Singleton
<1>6. Cardinality({i}) <= Cardinality(A)
  BY <1>3, <1>5, FS_Subset
<1>7. QED
  BY <1>3, <1>5, <1>6

\* The counts of the core's requests, and the entries.
RequestsInv == RequestsHeld /\ Distinct(State)

\* What RequestsHeld says.
LEMMA HeldIs ==
  RequestsHeld <=>
    /\ \A a \in TextWords : InLevel1(State, "fetch", a) = fetches[a]
    /\ \A kind \in {"load", "store"}, a \in DataWords :
         InLevel1(State, kind, a) = OneIf(dataReq # NULL /\ Is(dataReq, kind, a))
BY DEF RequestsHeld, InLevel1, CacheOf

\* A Tick.
LEMMA TickHolds ==
  ASSUME TimingInv, RequestsInv, Tick
  PROVE  RequestsInv'
<1>1. PICK r : Typed(r) /\ Becomes(r) /\ RequestsKept(State, r)
  BY TickRequests
<1>2. Distinct(State)'
  <2>1. Distinct(r)
    BY <1>1 DEF RequestsInv, RequestsKept
  <2>2. mshr' = r.mshr
    BY <1>1 DEF Becomes
  <2>3. QED
    BY <2>1, <2>2 DEF Distinct, State
<1>3. ASSUME NEW a \in TextWords
      PROVE  InLevel1(State, "fetch", a)' = fetches'[a]
  <2>1. a \in Addresses /\ "fetch" \in Kinds
    BY WordsAreAddresses DEF Kinds
  <2>2. /\ InLevel1(State, "fetch", a)' + Num(r.out, "fetch", a) = InLevel1(State, "fetch", a)
        /\ Num(r.out, "fetch", a) \in Nat /\ InLevel1(State, "fetch", a)' \in Nat
        /\ InLevel1(State, "fetch", a) \in Nat
    BY <1>1, <2>1, AnsweredOnce
  <2>3. InLevel1(State, "fetch", a) = fetches[a]
    BY HeldIs DEF RequestsInv
  <2>4. fetches'[a] = fetches[a] - Num(r.out, "fetch", a)
    <3>1. fetches' = [x \in DOMAIN fetches |->
                        fetches[x] - Cardinality({i \in DOMAIN r.out :
                                       r.out[i].type = "fetch" /\ r.out[i].addr = x})]
      BY <1>1 DEF Becomes
    <3>2. a \in DOMAIN fetches
      BY DEF TimingInv
    <3>3. QED
      BY <3>1, <3>2 DEF Num, Is
  <2>5. QED
    BY <2>2, <2>3, <2>4
<1>4. ASSUME NEW kind \in {"load", "store"}, NEW a \in DataWords
      PROVE  InLevel1(State, kind, a)' = OneIf(dataReq # NULL /\ Is(dataReq, kind, a))'
  <2>1. a \in Addresses /\ kind \in Kinds
    BY WordsAreAddresses DEF Kinds
  <2>2. /\ InLevel1(State, kind, a)' + Num(r.out, kind, a) = InLevel1(State, kind, a)
        /\ Num(r.out, kind, a) \in Nat /\ InLevel1(State, kind, a)' \in Nat
        /\ InLevel1(State, kind, a) \in Nat
    BY <1>1, <2>1, AnsweredOnce
  <2>3. InLevel1(State, kind, a) = OneIf(dataReq # NULL /\ Is(dataReq, kind, a))
    BY HeldIs DEF RequestsInv
  <2>4. CASE \E i \in DOMAIN r.out : r.out[i].type # "fetch"
    <3>1. PICK i \in DOMAIN r.out : r.out[i].type # "fetch"
      BY <2>4
    <3>2. PICK k \in {"load", "store"}, b \in DataWords :
            k = r.out[i].type /\ b = r.out[i].addr
      <4>1. r.out[i] \in Answers
        BY <1>1, <3>1 DEF Typed
      <4>2. QED
        BY <3>1, <4>1 DEF Answers
    <3>3. Num(r.out, k, b) >= 1
      BY <1>1, <3>1, <3>2, AnswerCounts
    <3>4. b \in Addresses /\ k \in Kinds
      BY <3>2, WordsAreAddresses DEF Kinds
    <3>5. /\ InLevel1(State, k, b)' + Num(r.out, k, b) = InLevel1(State, k, b)
          /\ Num(r.out, k, b) \in Nat /\ InLevel1(State, k, b)' \in Nat
          /\ InLevel1(State, k, b) \in Nat
      BY <1>1, <3>4, AnsweredOnce
    <3>6. InLevel1(State, k, b) = OneIf(dataReq # NULL /\ Is(dataReq, k, b))
      BY <3>2, HeldIs DEF RequestsInv
    <3>7. Is(dataReq, k, b) /\ InLevel1(State, k, b)' = 0
      BY <3>3, <3>5, <3>6 DEF OneIf
    <3>8. InLevel1(State, kind, a)' = 0
      <4>1. CASE k = kind /\ b = a
        BY <3>7, <4>1
      <4>2. CASE ~(k = kind /\ b = a)
        <5>1. ~Is(dataReq, kind, a)
          BY <3>7, <4>2 DEF Is
        <5>2. InLevel1(State, kind, a) = 0
          BY <2>3, <5>1 DEF OneIf
        <5>3. QED
          BY <2>2, <5>2
      <4>3. QED
        BY <4>1, <4>2
    <3>9. dataReq' = NULL
      BY <1>1, <2>4 DEF Becomes
    <3>10. QED
      BY <3>8, <3>9 DEF OneIf
  <2>5. CASE ~\E i \in DOMAIN r.out : r.out[i].type # "fetch"
    <3>1. dataReq' = dataReq
      BY <1>1, <2>5 DEF Becomes
    <3>2. Num(r.out, kind, a) = 0
      <4>1. {i \in DOMAIN r.out : Is(r.out[i], kind, a)} = {}
        BY <2>5 DEF Is
      <4>2. Cardinality({}) = 0
        BY FS_EmptySet
      <4>3. QED
        BY <4>1, <4>2 DEF Num
    <3>3. QED
      BY <2>2, <2>3, <3>1, <3>2
  <2>6. QED
    BY <2>4, <2>5
<1>5. RequestsHeld'
  BY <1>3, <1>4 DEF RequestsHeld, InLevel1, CacheOf
<1>6. QED
  BY <1>2, <1>5 DEF RequestsInv

\* A request of the core's is one more.
LEMMA AskCounts ==
  ASSUME NEW s, Typed(s), NEW c \in {"L1I", "L1D"}, NEW q \in PacketSet(c), NEW r,
         Asked(s, c, q, r), NEW kind \in Kinds, NEW addr
  PROVE  InLevel1(r, kind, addr) = InLevel1(s, kind, addr) + OneIf(Is(q, kind, addr))
<1>1. /\ InLevel1(s, kind, addr) =
           Num(s.queue[CacheOf(kind)], kind, addr) + WaitNum(s, CacheOf(kind), kind, addr)
      /\ Num(s.queue[CacheOf(kind)], kind, addr) \in Nat
      /\ WaitNum(s, CacheOf(kind), kind, addr) \in Nat
  BY InLevel1Is
<1>2. Typed(r) /\ r.mshr = s.mshr /\ r.queue[c] = Append(s.queue[c], q)
      /\ \A d \in Levels \ {c} : r.queue[d] = s.queue[d]
  BY DEF Asked
<1>3. InLevel1(r, kind, addr) =
        Num(r.queue[CacheOf(kind)], kind, addr) + WaitNum(r, CacheOf(kind), kind, addr)
  BY <1>2, InLevel1Is
<1>4. WaitNum(r, CacheOf(kind), kind, addr) = WaitNum(s, CacheOf(kind), kind, addr)
  BY <1>2 DEF WaitNum, Waiting
<1>5. Num(r.queue[CacheOf(kind)], kind, addr)
        = Num(s.queue[CacheOf(kind)], kind, addr) + OneIf(Is(q, kind, addr))
  <2>1. CASE CacheOf(kind) = c
    <3>1. s.queue[c] \in Seq(PacketSet(c))
      BY DEF Typed, QueuesTyped, Levels, Caches
    <3>2. Num(Append(s.queue[c], q), kind, addr)
            = Num(s.queue[c], kind, addr) + OneIf(Is(q, kind, addr))
      BY <3>1, NumAppend
    <3>3. QED
      BY <1>2, <2>1, <3>2
  <2>2. CASE CacheOf(kind) # c
    <3>1. ~Is(q, kind, addr)
      BY <2>2, OwnKind
    <3>2. CacheOf(kind) \in Levels \ {c}
      BY <2>2, TotalType DEF Levels
    <3>3. r.queue[CacheOf(kind)] = s.queue[CacheOf(kind)]
      BY <1>2, <3>2
    <3>4. QED
      BY <1>1, <3>1, <3>3 DEF OneIf
  <2>3. QED
    BY <2>1, <2>2
<1>6. OneIf(Is(q, kind, addr)) \in Nat
  BY OneIfType
<1>7. QED
  BY <1>1, <1>3, <1>4, <1>5, <1>6

\* The requests that the core's cycle makes.
Made(data, fetch, kind, addr) ==
  OneIf(data # NULL /\ Is(data, kind, addr))
    + OneIf(fetch # NULL /\ kind = "fetch" /\ addr = fetch)

\* It adds those.
LEMMA RequestedCounts ==
  ASSUME TimingInv, NEW data \in DataRequests \cup {NULL},
         NEW fetch \in TextWords \cup {NULL}, NEW s1, NEW s2,
         Requested(data, fetch, s1, s2), NEW kind \in Kinds, NEW addr
  PROVE  /\ InLevel1(s2, kind, addr) =
              InLevel1(State, kind, addr) + Made(data, fetch, kind, addr)
         /\ s2.mshr = mshr
<1>1. Typed(State) /\ State.mshr = mshr
  BY DEF TimingInv, State
<1>2. InLevel1(State, kind, addr) \in Nat
  BY <1>1, InLevel1Is
<1>3. /\ InLevel1(s1, kind, addr) =
           InLevel1(State, kind, addr) + OneIf(data # NULL /\ Is(data, kind, addr))
      /\ Typed(s1) /\ s1.mshr = mshr
  <2>1. CASE data = NULL
    <3>1. s1 = State
      BY <2>1 DEF Requested
    <3>2. QED
      BY <1>1, <1>2, <2>1, <3>1 DEF OneIf
  <2>2. CASE data # NULL
    <3>1. PICK q \in PacketSet("L1D") : q = [RequestPacket(data) EXCEPT !.ready = Delay["L1D"]]
      BY <2>2, RequestTyped
    <3>2. s1 = recvReq(State, "L1D", RequestPacket(data))
      BY <2>2 DEF Requested
    <3>3. Asked(State, "L1D", q, s1)
      BY <1>1, <3>1, <3>2, AskEffect
    <3>4. InLevel1(s1, kind, addr) = InLevel1(State, kind, addr) + OneIf(Is(q, kind, addr))
      BY <1>1, <3>3, AskCounts
    <3>5. Is(q, kind, addr) <=> data # NULL /\ Is(data, kind, addr)
      BY <2>2, <3>1 DEF Is, RequestPacket, Packet
    <3>6. QED
      BY <1>1, <3>3, <3>4, <3>5 DEF Asked, OneIf
  <2>3. QED
    BY <2>1, <2>2
<1>4. PICK n \in Nat : n = InLevel1(s1, kind, addr)
  BY <1>3, InLevel1Is
<1>5. InLevel1(s2, kind, addr) =
        n + OneIf(fetch # NULL /\ kind = "fetch" /\ addr = fetch) /\ s2.mshr = mshr
  <2>1. CASE fetch = NULL
    BY <1>3, <1>4, <2>1 DEF Requested, OneIf
  <2>2. CASE fetch # NULL
    <3>1. PICK q \in PacketSet("L1I") :
            q = [Packet("fetch", fetch, <<>>) EXCEPT !.ready = Delay["L1I"]]
      BY <2>2, RequestTyped
    <3>2. s2 = recvReq(s1, "L1I", Packet("fetch", fetch, <<>>))
      BY <2>2 DEF Requested
    <3>3. Asked(s1, "L1I", q, s2)
      BY <1>3, <3>1, <3>2, AskEffect
    <3>4. InLevel1(s2, kind, addr) = InLevel1(s1, kind, addr) + OneIf(Is(q, kind, addr))
      BY <1>3, <3>3, AskCounts
    <3>5. Is(q, kind, addr) <=> fetch # NULL /\ kind = "fetch" /\ addr = fetch
      BY <2>2, <3>1 DEF Is, Packet
    <3>6. QED
      BY <1>3, <1>4, <3>3, <3>4, <3>5 DEF Asked, OneIf
  <2>3. QED
    BY <2>1, <2>2
<1>6. /\ OneIf(data # NULL /\ Is(data, kind, addr)) \in Nat
      /\ OneIf(fetch # NULL /\ kind = "fetch" /\ addr = fetch) \in Nat
  BY DEF OneIf
<1>7. QED
  BY <1>2, <1>3, <1>4, <1>5, <1>6 DEF Made

\* The clock moves no request.
LEMMA ElapsedCounts ==
  ASSUME NEW queues, QueuesTyped(queues), NEW c \in Levels, NEW kind, NEW addr
  PROVE  Num(Elapsed(queues)[c], kind, addr) = Num(queues[c], kind, addr)
<1>1. PICK q \in Seq(PacketSet(c)) : q = queues[c]
  BY DEF QueuesTyped
<1>2. PICK r : r = [i \in DOMAIN q |-> [q[i] EXCEPT !.ready = @ - 1]]
  OBVIOUS
<1>3. Elapsed(queues)[c] = r
  BY <1>1, <1>2 DEF Elapsed
<1>4. \A i \in DOMAIN q : r[i].type = q[i].type /\ r[i].addr = q[i].addr
  <2> TAKE i \in DOMAIN q
  <2>1. q[i] \in PacketSet(c)
    OBVIOUS
  <2>2. {"type", "addr", "ready"} \subseteq DOMAIN q[i]
    BY <2>1 DEF PacketSet, Reads, Stores, WriteBacksOf
  <2>3. QED
    BY <1>2, <2>2
<1>5. DOMAIN r = DOMAIN q
  BY <1>2
<1>6. {i \in DOMAIN r : Is(r[i], kind, addr)} = {i \in DOMAIN q : Is(q[i], kind, addr)}
  BY <1>4, <1>5 DEF Is
<1>7. QED
  BY <1>1, <1>3, <1>6 DEF Num

\* The core's cycle.
LEMMA CoreHolds ==
  ASSUME TimingInv, RequestsInv, CoreCycle
  PROVE  RequestsInv'
<1>1. PICK data \in DataRequests \cup {NULL}, fetch \in TextWords \cup {NULL} :
        Core(data, fetch)
  BY DEF CoreCycle
<1>2. PICK s1, s2 : Requested(data, fetch, s1, s2) /\ queue' = Elapsed(s2.queue)
  BY <1>1, CoreRequests
<1>3. /\ mshr' = mshr /\ dataReq' = (IF data = NULL THEN dataReq ELSE data)
      /\ data # NULL => dataReq = NULL
      /\ fetches' = IF fetch = NULL THEN fetches ELSE [fetches EXCEPT ![fetch] = @ + 1]
  BY <1>1 DEF Core
<1>4. Typed(s2)
  BY <1>2, RequestedTyped
<1>5. ASSUME NEW kind \in Kinds, NEW addr
      PROVE  InLevel1(State, kind, addr)' =
               InLevel1(State, kind, addr) + Made(data, fetch, kind, addr)
  <2>1. PICK c \in Levels : c = CacheOf(kind) /\ c # "Mem"
    BY TotalType DEF Levels, Caches, CacheOf
  <2>2. Num(queue'[c], kind, addr) = Num(s2.queue[c], kind, addr)
    BY <1>2, <1>4, ElapsedCounts DEF Typed
  <2>3. s2.mshr = mshr
    BY <1>2, RequestedCounts
  <2>4. InLevel1(State, kind, addr)' = InLevel1(s2, kind, addr)
    BY <1>3, <2>1, <2>2, <2>3 DEF InLevel1, Pending, Waiting, State
  <2>5. InLevel1(s2, kind, addr) =
          InLevel1(State, kind, addr) + Made(data, fetch, kind, addr)
    BY <1>2, RequestedCounts
  <2>6. QED
    BY <2>4, <2>5, Zenon
<1>6. Typed(State)
  BY DEF TimingInv
<1>7. ASSUME NEW a \in TextWords
      PROVE  InLevel1(State, "fetch", a)' = fetches'[a]
  <2>1. InLevel1(State, "fetch", a)' =
          InLevel1(State, "fetch", a)
            + (OneIf(data # NULL /\ Is(data, "fetch", a))
                 + OneIf(fetch # NULL /\ "fetch" = "fetch" /\ a = fetch))
    BY <1>5 DEF Kinds, Made
  <2>2. OneIf(data # NULL /\ Is(data, "fetch", a)) = 0
    BY DEF Is, DataRequests, OneIf
  <2>3. InLevel1(State, "fetch", a) = fetches[a] /\ InLevel1(State, "fetch", a) \in Nat
    BY <1>6, HeldIs, InLevel1Is DEF RequestsInv
  <2>4. CASE fetch # NULL /\ a = fetch
    <3>1. fetches'[a] = fetches[a] + 1
      BY <1>3, <2>4 DEF TimingInv
    <3>2. OneIf(fetch # NULL /\ "fetch" = "fetch" /\ a = fetch) = 1
      BY <2>4 DEF OneIf
    <3>3. QED
      BY <2>1, <2>2, <2>3, <3>1, <3>2
  <2>5. CASE ~(fetch # NULL /\ a = fetch)
    <3>1. fetches'[a] = fetches[a]
      BY <1>3, <2>5 DEF TimingInv
    <3>2. OneIf(fetch # NULL /\ "fetch" = "fetch" /\ a = fetch) = 0
      BY <2>5 DEF OneIf
    <3>3. QED
      BY <2>1, <2>2, <2>3, <3>1, <3>2
  <2>6. QED
    BY <2>4, <2>5
<1>8. ASSUME NEW kind \in {"load", "store"}, NEW a \in DataWords
      PROVE  InLevel1(State, kind, a)' = OneIf(dataReq # NULL /\ Is(dataReq, kind, a))'
  <2>1. InLevel1(State, kind, a)' =
          InLevel1(State, kind, a)
            + (OneIf(data # NULL /\ Is(data, kind, a))
                 + OneIf(fetch # NULL /\ kind = "fetch" /\ a = fetch))
    BY <1>5 DEF Kinds, Made
  <2>2. OneIf(fetch # NULL /\ kind = "fetch" /\ a = fetch) = 0
    BY DEF OneIf
  <2>3. InLevel1(State, kind, a) = OneIf(dataReq # NULL /\ Is(dataReq, kind, a))
    BY HeldIs DEF RequestsInv
  <2>4. InLevel1(State, kind, a) \in Nat
    BY <1>6, InLevel1Is
  <2>5. CASE data = NULL
    <3>1. dataReq' = dataReq /\ OneIf(data # NULL /\ Is(data, kind, a)) = 0
      BY <1>3, <2>5 DEF OneIf
    <3>2. QED
      BY <2>1, <2>2, <2>3, <2>4, <3>1
  <2>6. CASE data # NULL
    <3>1. dataReq' = data /\ InLevel1(State, kind, a) = 0
      BY <1>3, <2>3, <2>6 DEF OneIf
    <3>2. OneIf(data # NULL /\ Is(data, kind, a)) \in {0, 1}
      BY OneIfType
    <3>3. QED
      BY <2>1, <2>2, <3>1, <3>2
  <2>7. QED
    BY <2>5, <2>6
<1>9. RequestsHeld'
  BY <1>7, <1>8 DEF RequestsHeld, InLevel1, CacheOf
<1>10. Distinct(State)'
  BY <1>3 DEF RequestsInv, Distinct, State
<1>11. QED
  BY <1>9, <1>10 DEF RequestsInv

\* At first there is none.
LEMMA RequestsInit ==
  Init => RequestsInv
<1> SUFFICES ASSUME Init PROVE RequestsInv
  OBVIOUS
<1>1. /\ queue = [c \in Levels |-> <<>>]
      /\ mshr = [c \in Caches |-> [i \in 1 .. MshrEntries[c] |-> EmptyEntry]]
      /\ dataReq = NULL /\ fetches = [a \in TextWords |-> 0]
  BY DEF Init, Constructed
<1>2. \A c \in Caches : \A i \in 1 .. MshrEntries[c] : mshr[c][i].sub = <<>>
  BY <1>1 DEF EmptyEntry
<1>3. Distinct(State)
  BY <1>2 DEF Distinct, State
<1>4. ASSUME NEW kind, NEW addr
      PROVE  InLevel1(State, kind, addr) = 0
  <2>1. PICK c \in Caches : c = CacheOf(kind) /\ c # "Mem" /\ c \in Levels
    BY DEF CacheOf, Caches, Levels
  <2>2. Num(State.queue[c], kind, addr) = 0
    BY <1>1, <2>1, NumEmpty DEF State
  <2>3. Waiting(State, c, kind, addr) = {}
    <3>1. \A i \in 1 .. MshrSubentries[c] : ~(i <= Len(<<>>))
      <4>1. Len(<<>>) = 0 /\ MshrSubentries[c] \in Nat
        BY Geometry
      <4>2. QED
        BY <4>1
    <3>2. State.mshr = mshr
      BY DEF State
    <3>3. \A w \in (1 .. MshrEntries[c]) \X (1 .. MshrSubentries[c]) :
            ~(w[2] <= Len(State.mshr[c][w[1]].sub))
      BY <1>2, <3>1, <3>2
    <3>4. QED
      BY <3>3 DEF Waiting
  <2>4. Cardinality({}) = 0
    BY FS_EmptySet
  <2>5. QED
    BY <2>1, <2>2, <2>3, <2>4 DEF InLevel1, Pending
<1>5. RequestsHeld
  <2>1. \A kind, a : OneIf(dataReq # NULL /\ Is(dataReq, kind, a)) = 0
    BY <1>1 DEF OneIf
  <2>2. QED
    BY <1>1, <1>4, <2>1, HeldIs
<1>6. QED
  BY <1>3, <1>5 DEF RequestsInv

\* Every step keeps them.
LEMMA RequestsStep ==
  TimingInv /\ RequestsInv /\ [Next]_hvars => RequestsInv'
<1> SUFFICES ASSUME TimingInv, RequestsInv, [Next]_hvars PROVE RequestsInv'
  OBVIOUS
<1>1. CASE Tick
  BY <1>1, TickHolds
<1>2. CASE CoreCycle
  BY <1>2, CoreHolds
<1>3. CASE Aborted \/ UNCHANGED hvars
  <2>1. UNCHANGED <<queue, mshr, dataReq, fetches>> /\ State' = State
    BY <1>3 DEF Aborted, hvars, hierarchy, State
  <2>2. QED
    BY <2>1 DEF RequestsInv, RequestsHeld
<1>4. QED
  BY <1>1, <1>2, <1>3 DEF Next

\* The invariant holds in every reachable state.
LEMMA RequestsAlways ==
  Spec => []RequestsInv
BY RequestsInit, RequestsStep, TimingAlways, PTL DEF Spec

\* A request of the core's is in one place of its level 1 cache until it is
\* answered, once: whatever the geometry, the delays, the MSHRs and the packets in
\* flight, also when the program is about to abort.
THEOREM RequestsAreHeld ==
  Spec => []RequestsHeld
BY RequestsAlways, PTL DEF RequestsInv

\* The types of the hierarchy and of the core's side: no level is sent a packet it
\* does not expect, no cache has a block of another's, no way has another set's,
\* and no fetch is answered that was not asked.
THEOREM TypesAreKept ==
  Spec => []MemTypeOK
<1>1. TimingInv /\ RequestsInv => MemTypeOK
  <2> SUFFICES ASSUME TimingInv, RequestsInv PROVE MemTypeOK
    OBVIOUS
  <2>1. Typed(State)
    BY DEF TimingInv
  <2>2. ASSUME NEW a \in TextWords
        PROVE  fetches[a] \in Nat
    <3>1. InLevel1(State, "fetch", a) = fetches[a]
      BY HeldIs DEF RequestsInv
    <3>2. QED
      BY <2>1, <3>1, InLevel1Is
  <2>3. fetches \in [TextWords -> Nat]
    BY <2>2 DEF TimingInv
  <2>4. QED
    BY <2>3 DEF TimingInv, MemTypeOK
<1>2. QED
  BY <1>1, TimingAlways, RequestsAlways, PTL

\* Misses of a block share an MSHR entry, however many entries there are.
THEOREM BlocksHaveOneEntry ==
  Spec => []OneEntryPerBlock
<1>1. TimingInv /\ RequestsInv => OneEntryPerBlock
  <2> SUFFICES ASSUME TimingInv, RequestsInv, NEW c \in Caches, NEW b \in Blocks
               PROVE  Cardinality(Entries(State, c, b * BlkSize)) <= 1
    BY DEF OneEntryPerBlock
  <2>1. PICK E : E = Entries(State, c, b * BlkSize)
    OBVIOUS
  <2>2. DOMAIN State.mshr[c] = 1 .. MshrEntries[c]
    BY DEF TimingInv, Typed, MshrTyped
  <2>3. \A i, j \in E : i = j
    BY <2>1, <2>2 DEF Entries, RequestsInv, Distinct
  <2>4. CASE E = {}
    <3>1. Cardinality({}) = 0
      BY FS_EmptySet
    <3>2. QED
      BY <2>1, <2>4, <3>1
  <2>5. CASE E # {}
    <3>1. PICK i : E = {i}
      BY <2>3, <2>5
    <3>2. Cardinality({i}) = 1
      BY FS_Singleton
    <3>3. QED
      BY <2>1, <3>1, <3>2
  <2>6. QED
    BY <2>4, <2>5
<1>2. QED
  BY <1>1, TimingAlways, RequestsAlways, PTL

-------------------------------------------------------------------------------
(* While each cache is alone with a miss, what waits in its first entry is   *)
(* exactly what the level below has been asked: every answer finds its entry. *)

\* What a level 1 cache asks the L2 for.
KindOf(c) == IF c = "L1I" THEN "fetch" ELSE "load"

\* A cache waits for the block at an address.
Awaits(s, c, addr) == s.mshr[c][1].sub # <<>> /\ s.mshr[c][1].address = addr

\* The reads of a level 1 cache that are in the L2, which has processed k of the
\* packets of its queue; and those of the L2 that memory has.
InL2(s, k, c, addr) ==
  Live(s.queue["L2"], k, KindOf(c), addr) + WaitNum(s, "L2", KindOf(c), addr)
InMem(q, addr) == Num(q, "fetch", addr) + Num(q, "load", addr)

\* There is one for each entry that waits, and no other.
Exact1(s, k, c) ==
  \A addr \in Addresses : InL2(s, k, c, addr) = OneIf(Awaits(s, c, addr))
Exact2(s) ==
  \A addr \in Addresses : InMem(s.queue["Mem"], addr) = OneIf(Awaits(s, "L2", addr))

\* The block it waits for is not in the cache.
Absent(s, c) == \A addr \in Addresses : Awaits(s, c, addr) => Holding(s, c, addr) = {}

\* The level 1 caches and what they ask; then the L2 too.
HalfExact(s, k) == \A c \in {"L1I", "L1D"} : Exact1(s, k, c) /\ Absent(s, c)
WholeExact(s, k) == HalfExact(s, k) /\ Exact2(s) /\ Absent(s, "L2")

\* So it is until the program aborts, and not for want of an entry.
HalfSound(s) == s.abort # "noentry" /\ (s.abort = "none" => HalfExact(s, 0))
Sound(s, k) == s.abort # "noentry" /\ (s.abort = "none" => WholeExact(s, k))

\* They are numbers.
LEMMA InL2Type ==
  ASSUME NEW s, Typed(s), NEW k, NEW c, NEW addr
  PROVE  /\ Live(s.queue["L2"], k, KindOf(c), addr) \in Nat
         /\ WaitNum(s, "L2", KindOf(c), addr) \in Nat
         /\ InL2(s, k, c, addr) \in Nat
<1>1. s.queue["L2"] \in Seq(PacketSet("L2")) /\ "L2" \in Caches
  BY DEF Typed, QueuesTyped, Levels, Caches
<1>2. Live(s.queue["L2"], k, KindOf(c), addr) \in Nat
  BY <1>1, LiveType
<1>3. WaitNum(s, "L2", KindOf(c), addr) \in Nat
  BY <1>1, WaitType
<1>4. QED
  BY <1>2, <1>3 DEF InL2

\* Write-backs are not among them.
LEMMA LiveGrown ==
  ASSUME NEW c, NEW S, NEW q \in Seq(S), NEW r \in Seq(S), Grown(c, q, r),
         NEW k, NEW kind, kind # "writeback", NEW addr
  PROVE  Live(r, k, kind, addr) = Live(q, k, kind, addr)
<1>1. /\ Len(q) \in Nat /\ Len(r) \in Nat /\ Len(q) <= Len(r)
      /\ \A i \in 1 .. Len(q) : r[i] = q[i]
      /\ \A i \in (Len(q) + 1) .. Len(r) : r[i].type = "writeback"
  BY DEF Grown
<1>2. ASSUME NEW i \in 1 .. Len(r)
      PROVE  i \in 1 .. Len(q) \/ ~Is(r[i], kind, addr)
  <2>1. i \in 1 .. Len(q) \/ i \in (Len(q) + 1) .. Len(r)
    BY <1>1
  <2>2. QED
    BY <1>1, <2>1 DEF Is
<1>3. 1 .. Len(q) \subseteq 1 .. Len(r)
  BY <1>1
<1>4. LiveAt(r, k, kind, addr) = LiveAt(q, k, kind, addr)
  BY <1>1, <1>2, <1>3 DEF LiveAt
<1>5. QED
  BY <1>4 DEF Live

\* The same, of memory's queue.
LEMMA InMemGrown ==
  ASSUME NEW c, NEW S, NEW q \in Seq(S), NEW r \in Seq(S), Grown(c, q, r), NEW addr
  PROVE  InMem(r, addr) = InMem(q, addr)
<1>1. Live(r, 0, "fetch", addr) = Live(q, 0, "fetch", addr)
  BY LiveGrown
<1>2. Live(r, 0, "load", addr) = Live(q, 0, "load", addr)
  BY LiveGrown
<1>3. /\ Live(q, 0, "fetch", addr) = Num(q, "fetch", addr)
      /\ Live(q, 0, "load", addr) = Num(q, "load", addr)
      /\ Live(r, 0, "fetch", addr) = Num(r, "fetch", addr)
      /\ Live(r, 0, "load", addr) = Num(r, "load", addr)
  BY LiveFirst
<1>4. QED
  BY <1>1, <1>2, <1>3 DEF InMem

\* What no level 1 cache sees.
LEMMA HalfSame ==
  ASSUME NEW s, NEW r, NEW k, HalfExact(s, k), r.queue["L2"] = s.queue["L2"],
         SameWaiting(s, r, "L2"),
         \A c \in {"L1I", "L1D"} : r.mshr[c] = s.mshr[c] /\ r.blocks[c] = s.blocks[c]
  PROVE  HalfExact(r, k)
<1> SUFFICES ASSUME NEW c \in {"L1I", "L1D"} PROVE Exact1(r, k, c) /\ Absent(r, c)
  BY DEF HalfExact
<1>1. c \in Caches /\ "L2" \in Caches
  BY DEF Caches
<1>2. \A addr : Holding(r, c, addr) = Holding(s, c, addr)
  BY <1>1, HoldingSame
<1>3. \A addr : Awaits(r, c, addr) <=> Awaits(s, c, addr)
  BY DEF Awaits
<1>4. \A addr : WaitNum(r, "L2", KindOf(c), addr) = WaitNum(s, "L2", KindOf(c), addr)
  BY <1>1, WaitSame
<1>5. Absent(r, c)
  BY <1>2, <1>3 DEF HalfExact, Absent
<1>6. Exact1(r, k, c)
  BY <1>3, <1>4 DEF HalfExact, Exact1, InL2, OneIf
<1>7. QED
  BY <1>5, <1>6

\* An answer to a level 1 cache c: one read fewer is in the L2, and the cache
\* waits no longer.
Answering(s, j, c, addr, r, k) ==
  /\ \A d \in {"L1I", "L1D"} : \A a \in Addresses :
       InL2(s, j, d, a) = InL2(r, k, d, a) + OneIf(d = c /\ a = addr)
  /\ r.mshr[c][1].sub = <<>>
  /\ \A d \in {"L1I", "L1D"} \ {c} : r.mshr[d] = s.mshr[d] /\ r.blocks[d] = s.blocks[d]

\* It waited for that block, and no other read of its is below.
LEMMA HalfAnswered ==
  ASSUME NEW s, NEW r, Typed(r), NEW j, NEW k, HalfExact(s, j), NEW c \in {"L1I", "L1D"},
         NEW addr \in Addresses, Answering(s, j, c, addr, r, k)
  PROVE  s.mshr[c][1].sub # <<>> /\ HalfExact(r, k)
<1>1. \A d \in {"L1I", "L1D"} : \A a \in Addresses :
        /\ InL2(s, j, d, a) = InL2(r, k, d, a) + OneIf(d = c /\ a = addr)
        /\ InL2(r, k, d, a) \in Nat
        /\ InL2(s, j, d, a) = OneIf(Awaits(s, d, a))
  BY InL2Type DEF Answering, HalfExact, Exact1
<1>2. Awaits(s, c, addr)
  <2>1. InL2(s, j, c, addr) >= 1
    <3>1. OneIf(c = c /\ addr = addr) = 1
      BY DEF OneIf
    <3>2. QED
      BY <1>1, <3>1
  <2>2. QED
    BY <1>1, <2>1 DEF OneIf
<1>3. ASSUME NEW a \in Addresses
      PROVE  InL2(r, k, c, a) = OneIf(Awaits(r, c, a))
  <2>1. OneIf(Awaits(r, c, a)) = 0
    BY DEF Awaits, OneIf, Answering
  <2>2. CASE a = addr
    <3>1. OneIf(c = c /\ a = addr) = 1 /\ OneIf(Awaits(s, c, a)) \in {0, 1}
      BY <2>2 DEF OneIf
    <3>2. QED
      BY <1>1, <2>1, <3>1
  <2>3. CASE a # addr
    <3>1. OneIf(c = c /\ a = addr) = 0 /\ OneIf(Awaits(s, c, a)) = 0
      BY <1>2, <2>3 DEF OneIf, Awaits
    <3>2. QED
      BY <1>1, <2>1, <3>1
  <2>4. QED
    BY <2>2, <2>3
<1>4. Exact1(r, k, c) /\ Absent(r, c)
  BY <1>3 DEF Exact1, Absent, Awaits, Answering
<1>5. ASSUME NEW d \in {"L1I", "L1D"}, d # c
      PROVE  Exact1(r, k, d) /\ Absent(r, d)
  <2>1. r.mshr[d] = s.mshr[d] /\ r.blocks[d] = s.blocks[d] /\ d \in Caches
    BY <1>5 DEF Answering, Caches
  <2>2. \A a : /\ Awaits(r, d, a) <=> Awaits(s, d, a)
               /\ Holding(r, d, a) = Holding(s, d, a)
    BY <2>1, HoldingSame DEF Awaits
  <2>4. Exact1(r, k, d)
    <3> SUFFICES ASSUME NEW a \in Addresses
                 PROVE  InL2(r, k, d, a) = OneIf(Awaits(r, d, a))
      BY DEF Exact1
    <3>0. /\ InL2(s, j, d, a) = InL2(r, k, d, a) + OneIf(d = c /\ a = addr)
          /\ InL2(r, k, d, a) \in Nat
      BY <1>1
    <3>a. OneIf(d = c /\ a = addr) = 0
      BY <1>5 DEF OneIf
    <3>1. InL2(r, k, d, a) = InL2(s, j, d, a)
      BY <3>0, <3>a
    <3>2. OneIf(Awaits(r, d, a)) = OneIf(Awaits(s, d, a))
      BY <2>2 DEF OneIf
    <3>3. QED
      BY <1>1, <3>1, <3>2
  <2>5. QED
    BY <2>2, <2>4 DEF HalfExact, Absent
<1>6. QED
  BY <1>2, <1>4, <1>5 DEF HalfExact, Awaits

\* A read of the L2's: the cache that sent it, and its kind.
LEMMA ReadFrom ==
  ASSUME NEW p \in PacketSet("L2"), ~IsWrite(p)
  PROVE  /\ PrevOf(p) \in {"L1I", "L1D"} /\ p.addr \in Addresses
         /\ \A d \in {"L1I", "L1D"} : \A a :
              Is(p, KindOf(d), a) <=> d = PrevOf(p) /\ a = p.addr
<1>1. p.addr \in Addresses /\ PrevOf(p) \in {"L1I", "L1D"}
  BY PacketFacts DEF Levels, Caches
<1>2. p.type \in {"fetch", "load"}
  BY DEF PacketSet, Reads, WriteBacksOf, IsWrite
<1>3. QED
  BY <1>1, <1>2 DEF Is, KindOf, PrevOf

\* recvResp serves a packet that waits in the L2.
LEMMA ServedHalf ==
  ASSUME NEW s, Typed(s), HalfSound(s), s.mshr["L2"][1].sub # <<>>,
         NEW p \in PacketSet("L2"), p = Head(s.mshr["L2"][1].sub),
         NEW r, L2Served(s, p, r)
  PROVE  HalfSound(r)
<1>1. "L2" \in Levels /\ "L2" \in Caches /\ {"L1I", "L1D"} \subseteq Caches
  BY DEF Levels, Caches
<1>2. "noentry" \notin Losses
  BY DEF Losses
<1>3. CASE s.abort # "none"
  BY <1>2, <1>3 DEF L2Served, May, HalfSound
<1>4. CASE s.abort = "none" /\ IsWrite(p)
  BY <1>4 DEF L2Served, May, HalfSound
<1>5. CASE s.abort = "none" /\ ~IsWrite(p)
  <2>1. PICK c \in {"L1I", "L1D"} : c = PrevOf(p)
    BY <1>5, ReadFrom
  <2>2. /\ Typed(r) /\ Grown("L2", s.queue["L2"], r.queue["L2"])
        /\ r.mshr["L2"][1].sub = Tail(s.mshr["L2"][1].sub)
        /\ \A i \in 2 .. MshrEntries["L2"] : r.mshr["L2"][i] = s.mshr["L2"][i]
        /\ s.mshr[c][1].sub # <<>> => May(s, r, Losses)
        /\ \A d \in {"L1I", "L1D"} \ {c} : r.blocks[d] = s.blocks[d] /\ r.mshr[d] = s.mshr[d]
        /\ r.mshr[c][1].sub = <<>>
    BY <1>5, <2>1 DEF L2Served
  <2>3. ASSUME NEW d \in {"L1I", "L1D"}, NEW a \in Addresses
        PROVE  InL2(s, 0, d, a) = InL2(r, 0, d, a) + OneIf(d = c /\ a = p.addr)
    <3>1. Live(r.queue["L2"], 0, KindOf(d), a) = Live(s.queue["L2"], 0, KindOf(d), a)
      <4>1. s.queue["L2"] \in Seq(PacketSet("L2")) /\ r.queue["L2"] \in Seq(PacketSet("L2"))
        BY <1>1, <2>2 DEF Typed, QueuesTyped
      <4>2. KindOf(d) # "writeback"
        BY DEF KindOf
      <4>3. QED
        BY <2>2, <4>1, <4>2, LiveGrown
    <3>2. WaitNum(s, "L2", KindOf(d), a) =
            WaitNum(r, "L2", KindOf(d), a) + OneIf(Is(p, KindOf(d), a))
      BY <1>1, <2>2, WaitLess
    <3>3. OneIf(Is(p, KindOf(d), a)) = OneIf(d = c /\ a = p.addr)
      BY <1>5, <2>1, ReadFrom DEF OneIf
    <3>4. OneIf(Is(p, KindOf(d), a)) \in Nat
      BY DEF OneIf
    <3>5. QED
      BY <2>2, <3>1, <3>2, <3>3, <3>4, InL2Type DEF InL2
  <2>4. Answering(s, 0, c, p.addr, r, 0)
    BY <2>2, <2>3 DEF Answering
  <2>5. p.addr \in Addresses /\ HalfExact(s, 0)
    BY <1>5, ReadFrom DEF HalfSound
  <2>6. s.mshr[c][1].sub # <<>> /\ HalfExact(r, 0)
    BY <2>2, <2>4, <2>5, HalfAnswered
  <2>7. QED
    BY <1>2, <1>5, <2>2, <2>6 DEF May, HalfSound
<1>6. QED
  BY <1>3, <1>4, <1>5

\* While they are served.
ServingExact(ctx, k, x) == ServingL2(ctx, k, x) /\ HalfSound(x)

\* The loop over the packets that wait in the L2.
ExactL2Fold == INSTANCE FoldInduction WITH
                 op <- LAMBDA addr, victim, unused, x, p : ServeL2(x, addr, p, victim),
                 J <- ServingExact

\* One packet more is served.
LEMMA ServeExactStep ==
  ASSUME NEW ctx, NEW subs, subs = ctx.from.mshr["L2"][1].sub,
         subs \in Seq(PacketSet("L2")), NEW k \in 1 .. Len(subs),
         ctx.addr \in Addresses, Typed(ctx.from), NEW victim, Evicts(victim),
         NEW x, ServingExact(ctx, k - 1, x)
  PROVE  ServingExact(ctx, k, ServeL2(x, ctx.addr, subs[k], victim))
<1>1. PICK addr \in Addresses : addr = ctx.addr
  OBVIOUS
<1>2. PICK p \in PacketSet("L2") : p = subs[k]
  OBVIOUS
<1>3. (k - 1) + 1 = k
  OBVIOUS
<1>4. ServingL2(ctx, k - 1, x) /\ HalfSound(x)
  BY DEF ServingExact
<1>5. /\ Typed(x) /\ Holding(x, "L2", addr) # {}
      /\ x.mshr["L2"][1].sub = SubSeq(subs, k, Len(subs))
  BY <1>1, <1>3, <1>4 DEF ServingL2
<1>6. x.mshr["L2"][1].sub # <<>> /\ Head(x.mshr["L2"][1].sub) = p
  BY <1>2, <1>5, RestOfSequence
<1>7. PICK r : r = ServeL2(x, addr, p, victim)
  OBVIOUS
<1>8. L2Served(x, p, r)
  BY <1>5, <1>6, <1>7, ServeL2Effect
<1>9. HalfSound(r)
  BY <1>4, <1>5, <1>6, <1>8, ServedHalf
<1>10. ServingL2(ctx, k, r)
  BY <1>1, <1>2, <1>4, <1>7, ServeL2Step
<1>11. QED
  BY <1>1, <1>2, <1>7, <1>9, <1>10 DEF ServingExact

\* All of them are.
LEMMA ServedExact ==
  ASSUME NEW s, Typed(s), HalfSound(s), NEW addr \in Addresses,
         Holding(s, "L2", addr) # {}, NEW victim, Evicts(victim),
         NEW subs, subs = s.mshr["L2"][1].sub
  PROVE  ServingExact([addr |-> addr, from |-> s], Len(subs),
                      AllServedL2(s, addr, victim, subs))
<1>1. PICK ctx : ctx = [addr |-> addr, from |-> s]
  OBVIOUS
<1>2. ctx.addr = addr /\ ctx.from = s
  BY <1>1
<1>3. "L2" \in Caches /\ "L2" \in Levels /\ 1 \in 1 .. MshrEntries["L2"]
  BY Geometry DEF Caches, Levels
<1>4. subs \in Seq(PacketSet("L2")) /\ Len(subs) \in Nat
  BY <1>3, SubTyped
<1>5. ServingExact(ctx, 0, s)
  <2>1. SubSeq(subs, 1, Len(subs)) = subs
    BY <1>4
  <2>2. Grown("L2", s.queue["L2"], s.queue["L2"])
    BY <1>3, NothingGrown
  <2>3. Settles(s, s)
    BY SettlesSame
  <2>4. QED
    BY <1>2, <2>1, <2>2, <2>3 DEF ServingExact, ServingL2, May
<1>6. \A k \in 1 .. Len(subs) : \A x :
        ServingExact(ctx, k - 1, x) =>
          ServingExact(ctx, k, ServeL2(x, addr, subs[k], victim))
  <2> TAKE k \in 1 .. Len(subs)
  <2> TAKE x
  <2> HAVE ServingExact(ctx, k - 1, x)
  <2>1. QED
    BY <1>2, <1>4, ServeExactStep
<1>7. PICK r : r = ExactL2Fold!Fold(addr, victim, 0, s, subs)
  OBVIOUS
<1>8. r = AllServedL2(s, addr, victim, subs)
  BY <1>7, Zenon DEF AllServedL2, ExactL2Fold!Fold, FoldLeft, MapThenFoldSet, Max,
                     ExactL2Fold!FoldLeft, ExactL2Fold!MapThenFoldSet, ExactL2Fold!Max
<1>9. ServingExact(ctx, Len(subs), r)
  BY <1>4, <1>5, <1>6, <1>7, ExactL2Fold!FoldInvariant
<1>10. QED
  BY <1>1, <1>8, <1>9

\* An answer to the L2 that it waits for, which memory has taken from its queue.
LEMMA FillExact ==
  ASSUME NEW s, Typed(s), s.abort = "none", HalfExact(s, 0),
         s.mshr["L2"][1].sub # <<>>, \A a \in Addresses : InMem(s.queue["Mem"], a) = 0,
         NEW addr \in Addresses, NEW data \in [Offsets -> Values],
         NEW victim, Evicts(victim)
  PROVE  Sound(FillL2(s, addr, data, victim), 0)
<1>1. /\ "L2" \in Caches /\ Next1("L2") = "Mem" /\ BlockOf(addr) \in Held("L2")
      /\ BlockOf(addr) \in Blocks
  BY AddressParts DEF Caches, Next1, Held
<1>2. PICK x : x = Placed(s, "L2", addr, data, victim)
  OBVIOUS
<1>3. victim["L2"][BlockOf(addr)] \in Ways("L2")
  BY <1>1 DEF Evicts
<1>4. /\ Typed(x) /\ May(s, x, Losses)
      /\ x.mshr = s.mshr
      /\ \A d \in Levels \ {"Mem"} : x.queue[d] = s.queue[d]
      /\ Grown("Mem", s.queue["Mem"], x.queue["Mem"])
      /\ \A d \in Caches \ {"L2"} : x.blocks[d] = s.blocks[d]
      /\ Holding(x, "L2", addr) # {}
  BY <1>1, <1>2, <1>3, PlacedEffect
<1>5. "L2" \in Levels \ {"Mem"} /\ "Mem" \in Levels \ {"L2"}
      /\ {"L1I", "L1D"} \subseteq Caches \ {"L2"}
  BY DEF Levels, Caches
<1>6. HalfSound(x)
  <2>1. SameWaiting(s, x, "L2")
    BY <1>4 DEF SameWaiting
  <2>2. HalfExact(x, 0)
    BY <1>4, <1>5, <2>1, HalfSame
  <2>3. QED
    BY <1>4, <2>2 DEF HalfSound, May, Losses
<1>7. PICK subs : subs = s.mshr["L2"][1].sub
  OBVIOUS
<1>8. PICK y : y = AllServedL2(x, addr, victim, subs)
  OBVIOUS
<1>9. PICK r : r = [y EXCEPT !.mshr["L2"][1].address = 0]
  OBVIOUS
<1>10. FillL2(s, addr, data, victim) = r
  <2>1. FillL2(s, addr, data, victim) =
          IF subs = <<>> THEN Fails(x, "noentry")
          ELSE [y EXCEPT !.mshr["L2"][1].address = 0]
    BY <1>2, <1>7, <1>8, Zenon DEF FillL2, AllServedL2
  <2>2. QED
    BY <1>7, <1>9, <2>1
<1>11. ServingExact([addr |-> addr, from |-> x], Len(subs), y)
  <2>1. subs = x.mshr["L2"][1].sub /\ Typed(x) /\ Holding(x, "L2", addr) # {}
    BY <1>4, <1>7
  <2>2. QED
    BY <1>6, <1>8, <2>1, ServedExact
<1>12. /\ Typed(y) /\ HalfSound(y)
       /\ \A d \in Levels \ {"L2"} : y.queue[d] = x.queue[d]
       /\ y.mshr["L2"][1].sub = SubSeq(subs, Len(subs) + 1, Len(subs))
  BY <1>4, <1>7, <1>11 DEF ServingExact, ServingL2
<1>13. 1 \in 1 .. MshrEntries["L2"]
  BY <1>1, Geometry
<1>14. y.mshr["L2"][1].sub = <<>>
  <2>1. subs \in Seq(PacketSet("L2"))
    BY <1>1, <1>7, <1>13, SubTyped
  <2>2. SubSeq(subs, Len(subs) + 1, Len(subs)) = <<>>
    BY <2>1
  <2>3. QED
    BY <1>12, <2>2
<1>15. PICK e : e = [y.mshr["L2"][1] EXCEPT !.address = 0]
  OBVIOUS
<1>16. e \in EntrySet("L2") /\ e.sub = <<>>
  <2>1. y.mshr["L2"][1] \in EntrySet("L2")
    BY <1>1, <1>12, <1>13 DEF Typed, MshrTyped
  <2>2. QED
    BY <1>14, <1>15, <2>1 DEF EntrySet
<1>17. r = WithEntry(y, "L2", 1, e)
  BY <1>9, <1>15 DEF WithEntry
<1>18. /\ Typed(r) /\ r.queue = y.queue /\ r.blocks = y.blocks /\ r.abort = y.abort
       /\ \A d \in Caches \ {"L2"} : r.mshr[d] = y.mshr[d]
       /\ \A k \in (1 .. MshrEntries["L2"]) \ {1} : r.mshr["L2"][k] = y.mshr["L2"][k]
       /\ r.mshr["L2"][1] = e
  BY <1>1, <1>12, <1>13, <1>16, <1>17, EntryChange
<1>19. SameWaiting(y, r, "L2")
  <2>1. \A k \in 1 .. MshrEntries["L2"] : r.mshr["L2"][k].sub = y.mshr["L2"][k].sub
    BY <1>14, <1>16, <1>18
  <2>2. QED
    BY <2>1 DEF SameWaiting
<1>20. r.abort # "noentry"
  BY <1>12, <1>18 DEF HalfSound
<1>21. ASSUME r.abort = "none"
       PROVE  WholeExact(r, 0)
  <2>1. HalfExact(y, 0)
    BY <1>12, <1>18, <1>21 DEF HalfSound
  <2>2. HalfExact(r, 0)
    BY <1>5, <1>18, <1>19, <2>1, HalfSame
  <2>3. \A a : ~Awaits(r, "L2", a)
    BY <1>16, <1>18 DEF Awaits
  <2>4. Absent(r, "L2")
    BY <2>3 DEF Absent
  <2>5. r.queue["Mem"] = x.queue["Mem"]
    BY <1>5, <1>12, <1>18
  <2>6. ASSUME NEW a \in Addresses
        PROVE  InMem(r.queue["Mem"], a) = OneIf(Awaits(r, "L2", a))
    <3>1. s.queue["Mem"] \in Seq(PacketSet("Mem")) /\ x.queue["Mem"] \in Seq(PacketSet("Mem"))
      BY <1>4, <1>5 DEF Typed, QueuesTyped
    <3>2. InMem(x.queue["Mem"], a) = InMem(s.queue["Mem"], a)
      BY <1>4, <3>1, InMemGrown
    <3>3. OneIf(Awaits(r, "L2", a)) = 0
      BY <2>3 DEF OneIf
    <3>4. QED
      BY <2>5, <3>2, <3>3
  <2>7. QED
    BY <2>2, <2>4, <2>6 DEF WholeExact, Exact2
<1>22. QED
  BY <1>10, <1>20, <1>21 DEF Sound

\* What memory's queue holds, before and after its first packet is taken.
LEMMA InMemTail ==
  ASSUME NEW S, NEW q \in Seq(S), q # <<>>, NEW addr
  PROVE  /\ InMem(Tail(q), addr) \in Nat
         /\ InMem(q, addr) = OneIf(Is(Head(q), "fetch", addr)) + OneIf(Is(Head(q), "load", addr))
                               + InMem(Tail(q), addr)
<1>0. Tail(q) \in Seq(S)
  OBVIOUS
<1>1. PICK t \in Seq(S) : t = Tail(q)
  BY <1>0
<1>2. /\ Num(q, "fetch", addr) = OneIf(Is(Head(q), "fetch", addr)) + Num(Tail(q), "fetch", addr)
      /\ Num(q, "load", addr) = OneIf(Is(Head(q), "load", addr)) + Num(Tail(q), "load", addr)
  BY NumTail
<1>3. Num(t, "fetch", addr) \in Nat /\ Num(t, "load", addr) \in Nat
  BY NumType
<1>4. /\ OneIf(Is(Head(q), "fetch", addr)) \in Nat
      /\ OneIf(Is(Head(q), "load", addr)) \in Nat
  BY DEF OneIf
<1>5. QED
  BY <1>1, <1>2, <1>3, <1>4 DEF InMem

\* Memory serves its first packet.
LEMMA ServeMemExact ==
  ASSUME NEW s, Typed(s), Sound(s, 0), s.queue["Mem"] # <<>>,
         NEW p, p = Head(s.queue["Mem"]), NEW victim, Evicts(victim)
  PROVE  Sound(ServeMem(s, p, victim), 0)
<1>1. "Mem" \in Levels /\ "L2" \in Levels \ {"Mem"} /\ "L2" \in Caches
      /\ {"L1I", "L1D"} \subseteq Caches
  BY DEF Levels, Caches
<1>2. s.queue["Mem"] \in Seq(PacketSet("Mem"))
  BY <1>1 DEF Typed, QueuesTyped
<1>0. Tail(s.queue["Mem"]) \in Seq(PacketSet("Mem"))
  BY <1>2
<1>3. PICK q \in Seq(PacketSet("Mem")) : q = Tail(s.queue["Mem"])
  BY <1>0
<1>4. p \in PacketSet("Mem") /\ p.addr \in Addresses /\ BlockAddress(p.addr) = p.addr
  BY <1>1, <1>2, PacketFacts
<1>5. PICK x : x = [s EXCEPT !.queue["Mem"] = Tail(@)]
  OBVIOUS
<1>6. x = WithQueue(s, "Mem", q)
  BY <1>3, <1>5 DEF WithQueue
<1>7. /\ Typed(x) /\ x.blocks = s.blocks /\ x.mshr = s.mshr /\ x.store = s.store
      /\ x.abort = s.abort
      /\ \A d \in Levels \ {"Mem"} : x.queue[d] = s.queue[d]
      /\ x.queue["Mem"] = q
  BY <1>1, <1>6, QueueChange
<1>8. CASE s.abort # "none"
  <2>1. MemServed(s, ServeMem(s, p, victim))
    BY ServeMemEffect
  <2>2. QED
    BY <1>8, <2>1 DEF MemServed, May, Sound
<1>9. ASSUME s.abort = "none"
      PROVE  /\ HalfExact(x, 0) /\ Absent(s, "L2")
             /\ \A a \in Addresses :
                  /\ InMem(q, a) \in Nat
                  /\ OneIf(Awaits(s, "L2", a)) =
                       OneIf(Is(p, "fetch", a)) + OneIf(Is(p, "load", a)) + InMem(q, a)
  <2>1. WholeExact(s, 0)
    BY <1>9 DEF Sound
  <2>2. SameWaiting(s, x, "L2")
    BY <1>7 DEF SameWaiting
  <2>3. HalfExact(x, 0)
    BY <1>1, <1>7, <2>1, <2>2, HalfSame DEF WholeExact
  <2>4. ASSUME NEW a \in Addresses
        PROVE  /\ InMem(q, a) \in Nat
               /\ OneIf(Awaits(s, "L2", a)) =
                    OneIf(Is(p, "fetch", a)) + OneIf(Is(p, "load", a)) + InMem(q, a)
    <3>1. InMem(s.queue["Mem"], a) = OneIf(Awaits(s, "L2", a))
      BY <2>1 DEF WholeExact, Exact2
    <3>2. QED
      BY <1>2, <1>3, <3>1, InMemTail
  <2>5. QED
    BY <2>1, <2>3, <2>4 DEF WholeExact
<1>10. CASE s.abort = "none" /\ IsWrite(p)
  <2>1. PICK r : r = ServeMem(s, p, victim)
    OBVIOUS
  <2>2. PICK new : r = [x EXCEPT !.store = new]
    BY <1>5, <1>10, <2>1 DEF ServeMem
  <2>3. r.queue = x.queue /\ r.blocks = x.blocks /\ r.mshr = x.mshr /\ r.abort = x.abort
    BY <1>7, <2>2 DEF Typed
  <2>4. HalfExact(r, 0)
    <3>1. SameWaiting(x, r, "L2")
      BY <2>3 DEF SameWaiting
    <3>2. QED
      BY <1>9, <1>10, <2>3, <3>1, HalfSame
  <2>5. \A a : Awaits(r, "L2", a) <=> Awaits(s, "L2", a)
    BY <1>7, <2>3 DEF Awaits
  <2>6. Absent(r, "L2")
    <3>0. r.blocks["L2"] = s.blocks["L2"]
      BY <1>7, <2>3
    <3>1. \A a : Holding(r, "L2", a) = Holding(s, "L2", a)
      BY <1>1, <3>0, HoldingSame
    <3>2. QED
      BY <1>9, <1>10, <2>5, <3>1 DEF Absent
  <2>7. ASSUME NEW a \in Addresses
        PROVE  InMem(r.queue["Mem"], a) = OneIf(Awaits(r, "L2", a))
    <3>1. OneIf(Is(p, "fetch", a)) = 0 /\ OneIf(Is(p, "load", a)) = 0
      BY <1>10 DEF IsWrite, Is, OneIf
    <3>2. OneIf(Awaits(r, "L2", a)) = OneIf(Awaits(s, "L2", a))
      BY <2>5 DEF OneIf
    <3>3. InMem(q, a) \in Nat
          /\ OneIf(Awaits(s, "L2", a)) =
               OneIf(Is(p, "fetch", a)) + OneIf(Is(p, "load", a)) + InMem(q, a)
      BY <1>9, <1>10
    <3>4. r.queue["Mem"] = q
      BY <1>7, <2>3
    <3>5. QED
      BY <3>1, <3>2, <3>3, <3>4
  <2>8. WholeExact(r, 0)
    BY <2>4, <2>6, <2>7 DEF WholeExact, Exact2
  <2>9. QED
    BY <1>7, <1>10, <2>1, <2>3, <2>8 DEF Sound
<1>11. CASE s.abort = "none" /\ ~IsWrite(p)
  <2>1. PICK data : data = [o \in Offsets |-> s.store[p.addr + o]]
    OBVIOUS
  <2>2. data \in [Offsets -> Values]
    <3>1. BlockOf(p.addr) \in Blocks /\ p.addr = BlockOf(p.addr) * BlkSize
      BY <1>4, AddressParts
    <3>2. \A o \in Offsets : p.addr + o \in Addresses
      BY <3>1, BlockAddresses
    <3>3. \A o \in Offsets : s.store[p.addr + o] \in Values
      BY <3>2 DEF Typed
    <3>4. QED
      BY <2>1, <3>3
  <2>3. ServeMem(s, p, victim) = FillL2(x, p.addr, data, victim)
    BY <1>5, <1>11, <2>1 DEF ServeMem
  <2>4. p.type \in {"fetch", "load"}
    BY <1>4, <1>11 DEF PacketSet, Reads, WriteBacksOf, IsWrite
  <2>5. \A a \in Addresses :
          OneIf(Is(p, "fetch", a)) + OneIf(Is(p, "load", a)) = OneIf(a = p.addr)
    BY <2>4 DEF Is, OneIf
  <2>6. \A a \in Addresses :
          InMem(q, a) \in Nat /\ OneIf(Awaits(s, "L2", a)) = OneIf(a = p.addr) + InMem(q, a)
    BY <1>9, <1>11, <2>5
  <2>7. Awaits(s, "L2", p.addr)
    <3>1. OneIf(p.addr = p.addr) = 1
      BY DEF OneIf
    <3>2. OneIf(Awaits(s, "L2", p.addr)) # 0
      BY <1>4, <2>6, <3>1
    <3>3. QED
      BY <3>2 DEF OneIf
  <2>8. ASSUME NEW a \in Addresses
        PROVE  InMem(x.queue["Mem"], a) = 0
    <3>1. OneIf(Awaits(s, "L2", a)) = OneIf(a = p.addr)
      BY <2>7 DEF Awaits, OneIf
    <3>2. OneIf(a = p.addr) \in Nat
      BY DEF OneIf
    <3>3. QED
      BY <1>7, <2>6, <3>1, <3>2
  <2>9. x.mshr["L2"][1].sub # <<>> /\ x.abort = "none" /\ HalfExact(x, 0)
    BY <1>7, <1>9, <1>11, <2>7 DEF Awaits
  <2>10. Sound(FillL2(x, p.addr, data, victim), 0)
    BY <1>4, <1>7, <2>2, <2>8, <2>9, FillExact
  <2>11. QED
    BY <2>3, <2>10
<1>12. QED
  BY <1>8, <1>10, <1>11

\* While memory serves its packets.
MemExact(ctx, k, x) == MemTicking(ctx, k, x) /\ Sound(x, 0)

\* The loop of BaseMemory::Tick.
ExactMemFold == INSTANCE FoldInduction WITH
                  op <- LAMBDA victim, unused1, unused2, x, p : ServeMem(x, p, victim),
                  J <- MemExact

\* One packet more is served.
LEMMA MemExactStep ==
  ASSUME NEW from, Typed(from), NEW ctx, ctx.from = from,
         NEW victim, Evicts(victim),
         NEW q, q = from.queue["Mem"], NEW k \in 1 .. Len(q), NEW x, MemExact(ctx, k - 1, x)
  PROVE  MemExact(ctx, k, ServeMem(x, q[k], victim))
<1>1. "Mem" \in Levels
  BY DEF Levels
<1>2. q \in Seq(PacketSet("Mem")) /\ Len(q) \in Nat
  BY <1>1 DEF Typed, QueuesTyped
<1>3. (k - 1) + 1 = k
  BY <1>2
<1>4. MemTicking(ctx, k - 1, x) /\ Sound(x, 0)
  BY DEF MemExact
<1>5. Typed(x) /\ Extended("Mem", SubSeq(q, k, Len(q)), x.queue["Mem"])
  BY <1>3, <1>4 DEF MemTicking
<1>6. x.queue["Mem"] \in Seq(PacketSet("Mem"))
  BY <1>1, <1>5 DEF Typed, QueuesTyped
<1>7. x.queue["Mem"] # <<>> /\ Head(x.queue["Mem"]) = q[k]
  BY <1>1, <1>2, <1>5, <1>6, TailExtended
<1>8. Sound(ServeMem(x, q[k], victim), 0)
  BY <1>4, <1>5, <1>7, ServeMemExact
<1>9. MemTicking(ctx, k, ServeMem(x, q[k], victim))
  BY <1>4, MemTickStep
<1>10. QED
  BY <1>8, <1>9 DEF MemExact

\* The Tick of memory.
LEMMA MemTickExact ==
  ASSUME NEW s, Typed(s), Sound(s, 0), NEW victim, Evicts(victim)
  PROVE  Sound(MemTick(s, victim), 0)
<1>1. "Mem" \in Levels /\ "L2" \in Levels
  BY DEF Levels, Caches
<1>2. PICK q : q = s.queue["Mem"]
  OBVIOUS
<1>3. q \in Seq(PacketSet("Mem")) /\ Len(q) \in Nat
  BY <1>1, <1>2 DEF Typed, QueuesTyped
<1>4. s.queue["L2"] \in Seq(PacketSet("L2"))
  BY <1>1 DEF Typed, QueuesTyped
<1>5. PICK n : n = Due(q)
  OBVIOUS
<1>6. n \in 0 .. Len(q)
  BY <1>1, <1>3, <1>5, DueEffect
<1>7. PICK seq : seq = SubSeq(q, 1, n)
  OBVIOUS
<1>8. Len(seq) = n /\ \A k \in 1 .. n : seq[k] = q[k] /\ k \in 1 .. Len(q)
  BY <1>3, <1>6, <1>7
<1>9. PICK ctx : ctx = [from |-> s]
  OBVIOUS
<1>10. ctx.from = s
  BY <1>9
<1>11. MemExact(ctx, 0, s)
  <2>1. SubSeq(q, 0 + 1, Len(q)) = q
    BY <1>3
  <2>2. Extended("L2", s.queue["L2"], s.queue["L2"])
    BY <1>4 DEF Extended
  <2>3. Extended("Mem", q, q)
    BY <1>3 DEF Extended
  <2>4. Settles(s, s)
    BY SettlesSame
  <2>5. QED
    BY <1>2, <1>10, <2>1, <2>2, <2>3, <2>4 DEF MemExact, MemTicking, May
<1>12. \A k \in 1 .. Len(seq) : \A x :
         MemExact(ctx, k - 1, x) => MemExact(ctx, k, ServeMem(x, seq[k], victim))
  <2> TAKE k \in 1 .. Len(seq)
  <2> TAKE x
  <2> HAVE MemExact(ctx, k - 1, x)
  <2>1. k \in 1 .. Len(q) /\ seq[k] = q[k]
    BY <1>8
  <2>2. MemExact(ctx, k, ServeMem(x, q[k], victim))
    BY <1>2, <1>10, <2>1, MemExactStep
  <2>3. QED
    BY <2>1, <2>2
<1>13. PICK r : r = ExactMemFold!Fold(victim, 0, 0, s, seq)
  OBVIOUS
<1>14. r = AllServedMem(s, victim, seq)
  BY <1>13, Zenon DEF AllServedMem, ExactMemFold!Fold, FoldLeft, MapThenFoldSet, Max,
                      ExactMemFold!FoldLeft, ExactMemFold!MapThenFoldSet, ExactMemFold!Max
<1>15. MemExact(ctx, Len(seq), r)
  <2>1. seq \in Seq(PacketSet("Mem"))
    BY <1>3, <1>6, <1>7
  <2>2. QED
    BY <1>11, <1>12, <1>13, <2>1, ExactMemFold!FoldInvariant
<1>16. MemTick(s, victim) = r
  <2>1. MemTick(s, victim) =
          AllServedMem(s, victim, SubSeq(s.queue["Mem"], 1, Due(s.queue["Mem"])))
    BY Zenon DEF MemTick, AllServedMem
  <2>2. QED
    BY <1>2, <1>5, <1>7, <1>14, <2>1, Zenon
<1>17. QED
  BY <1>15, <1>16 DEF MemExact

\* The place of an address in a cache is that of its block.
LEMMA HoldingBlock ==
  ASSUME NEW s, NEW c, NEW a \in Addresses
  PROVE  /\ BlockAddress(a) \in Addresses
         /\ Holding(s, c, BlockAddress(a)) = Holding(s, c, a)
<1>1. BlockOf(a) \in Blocks /\ BlockAddress(a) = BlockOf(a) * BlkSize
  BY AddressParts
<1>2. BlockAddress(a) \in Addresses /\ BlockOf(BlockAddress(a)) = BlockOf(a)
  BY <1>1, BlockAddresses
<1>3. /\ getLocation(c, BlockAddress(a)).set = getLocation(c, a).set
      /\ getLocation(c, BlockAddress(a)).tag = getLocation(c, a).tag
  BY <1>2 DEF getLocation
<1>4. QED
  BY <1>2, <1>3 DEF Holding

\* How many packets of the L2's queue are done with when k are of c's.
Passes(c, k) == IF c = "L2" THEN k ELSE 0

\* The i-th packet of c's queue is a read of cache d's for that address, in the L2.
Gone(s, c, i, d, addr) == OneIf(c = "L2" /\ Is(s.queue[c][i], KindOf(d), addr))

\* The packet done with is no read of a level 1 cache's, or not in the L2.
LEMMA InL2Done ==
  ASSUME NEW s, Typed(s), NEW c \in Caches, NEW i \in 1 .. Len(s.queue[c]),
         Ready(s.queue[c][i]), NEW d, NEW addr
  PROVE  Live(s.queue["L2"], Passes(c, i - 1), KindOf(d), addr) =
           Live(s.queue["L2"], Passes(c, i), KindOf(d), addr)
             + Gone(s, c, i, d, addr)
<1>1. s.queue["L2"] \in Seq(PacketSet("L2"))
  BY DEF Typed, QueuesTyped, Levels, Caches
<1>2. CASE c = "L2"
  <2>1. Live(s.queue["L2"], i - 1, KindOf(d), addr) =
          Live(s.queue["L2"], i, KindOf(d), addr) + OneIf(Is(s.queue["L2"][i], KindOf(d), addr))
    BY <1>1, <1>2, LiveDone
  <2>2. Gone(s, c, i, d, addr) =
          OneIf(Is(s.queue["L2"][i], KindOf(d), addr))
    BY <1>2 DEF OneIf, Gone
  <2>3. QED
    BY <1>2, <2>1, <2>2 DEF Passes
<1>3. CASE c # "L2"
  <2>1. Gone(s, c, i, d, addr) = 0
    BY <1>3 DEF OneIf, Gone
  <2>2. Live(s.queue["L2"], 0, KindOf(d), addr) \in Nat
    BY <1>1, LiveType
  <2>3. QED
    BY <1>3, <2>1, <2>2 DEF Passes
<1>4. QED
  BY <1>2, <1>3

\* What none of this sees.
AsExact(s, j, r, k) ==
  /\ \A d \in {"L1I", "L1D"} : \A a \in Addresses : InL2(r, k, d, a) = InL2(s, j, d, a)
  /\ \A a \in Addresses : InMem(r.queue["Mem"], a) = InMem(s.queue["Mem"], a)
  /\ \A c \in Caches : \A a \in Addresses :
       (Awaits(r, c, a) <=> Awaits(s, c, a)) /\ Holding(r, c, a) = Holding(s, c, a)

\* So it stays.
LEMMA AsExactKeeps ==
  ASSUME NEW s, NEW j, NEW r, NEW k, AsExact(s, j, r, k), WholeExact(s, j)
  PROVE  WholeExact(r, k)
<1>1. \A c \in Caches : \A a \in Addresses : OneIf(Awaits(r, c, a)) = OneIf(Awaits(s, c, a))
  BY DEF AsExact, OneIf
<1>2. \A c \in Caches : Absent(s, c) => Absent(r, c)
  BY DEF AsExact, Absent
<1>3. \A c \in {"L1I", "L1D"} : c \in Caches /\ (Exact1(s, j, c) => Exact1(r, k, c))
  BY <1>1 DEF AsExact, Exact1, Caches
<1>4. "L2" \in Caches /\ (Exact2(s) => Exact2(r))
  BY <1>1 DEF AsExact, Exact2, Caches
<1>5. QED
  BY <1>2, <1>3, <1>4 DEF WholeExact, HalfExact

\* A hit in the L2 answers the cache whose read it is.
LEMMA HitExact ==
  ASSUME NEW s, Typed(s), NEW c \in Caches, NEW i \in 1 .. Len(s.queue[c]),
         Ready(s.queue[c][i]), s.abort = "none", WholeExact(s, Passes(c, i - 1)),
         NEW r, HitDone(s, c, s.queue[c][i], r)
  PROVE  Sound(r, Passes(c, i))
<1>1. PICK p \in PacketSet(c) : p = s.queue[c][i]
  BY QueuedPacket
<1>2. "L2" \in Caches /\ "L2" \in Levels /\ "Mem" \in Levels \ {"L2"}
      /\ {"L1I", "L1D"} \subseteq Caches
  BY DEF Caches, Levels
<1>3. Typed(r) /\ \A a \in Addresses : Holding(r, c, a) = Holding(s, c, a)
  BY DEF HitDone
<1>4. CASE c # "L2" \/ IsWrite(p)
  <2>1. /\ r.queue = s.queue /\ r.mshr = s.mshr /\ r.abort = s.abort
        /\ \A d \in Caches \ {c} : r.blocks[d] = s.blocks[d]
    BY <1>1, <1>4 DEF HitDone
  <2>2. ASSUME NEW d \in {"L1I", "L1D"}, NEW a \in Addresses
        PROVE  InL2(r, Passes(c, i), d, a) = InL2(s, Passes(c, i - 1), d, a)
    <3>1. Gone(s, c, i, d, a) = 0
      BY <1>1, <1>4 DEF Gone, OneIf, Is, KindOf, IsWrite
    <3>2. Live(s.queue["L2"], Passes(c, i - 1), KindOf(d), a) =
            Live(s.queue["L2"], Passes(c, i), KindOf(d), a)
              + Gone(s, c, i, d, a)
      BY InL2Done
    <3>3. Live(s.queue["L2"], Passes(c, i), KindOf(d), a) \in Nat
      BY InL2Type
    <3>4. Live(s.queue["L2"], Passes(c, i - 1), KindOf(d), a) =
            Live(s.queue["L2"], Passes(c, i), KindOf(d), a)
      BY <3>1, <3>2, <3>3
    <3>5. WaitNum(r, "L2", KindOf(d), a) = WaitNum(s, "L2", KindOf(d), a)
      BY <2>1 DEF WaitNum, Waiting
    <3>6. QED
      BY <2>1, <3>4, <3>5 DEF InL2
  <2>3. \A d \in Caches : \A a \in Addresses : Holding(r, d, a) = Holding(s, d, a)
    BY <1>3, <2>1, HoldingSame
  <2>4. AsExact(s, Passes(c, i - 1), r, Passes(c, i))
    BY <2>1, <2>2, <2>3 DEF AsExact, Awaits
  <2>5. WholeExact(r, Passes(c, i))
    BY <2>4, AsExactKeeps
  <2>6. QED
    BY <2>1, <2>5 DEF Sound
<1>5. CASE c = "L2" /\ ~IsWrite(p)
  <2>1. PICK e \in {"L1I", "L1D"} : e = PrevOf(p)
    BY <1>5, ReadFrom
  <2>2. /\ s.mshr[e][1].sub # <<>> => May(s, r, Losses)
        /\ \A d \in Levels \ {"L2"} : r.queue[d] = s.queue[d]
        /\ Grown("L2", s.queue["L2"], r.queue["L2"])
        /\ \A d \in {"L1I", "L1D"} \ {e} : r.blocks[d] = s.blocks[d]
        /\ \A d \in Caches \ {e} : r.mshr[d] = s.mshr[d]
        /\ r.mshr[e][1].sub = <<>>
    BY <1>1, <1>5, <2>1 DEF HitDone
  <2>3. r.mshr["L2"] = s.mshr["L2"]
    BY <1>2, <2>2
  <2>4. ASSUME NEW d \in {"L1I", "L1D"}, NEW a \in Addresses
        PROVE  InL2(s, i - 1, d, a) = InL2(r, i, d, a) + OneIf(d = e /\ a = p.addr)
    <3>1. Live(s.queue["L2"], i - 1, KindOf(d), a) =
            Live(s.queue["L2"], i, KindOf(d), a)
              + Gone(s, c, i, d, a)
      BY <1>5, InL2Done DEF Passes
    <3>2. Gone(s, c, i, d, a) = OneIf(d = e /\ a = p.addr)
      BY <1>1, <1>5, <2>1, ReadFrom DEF OneIf, Gone
    <3>3. Live(r.queue["L2"], i, KindOf(d), a) = Live(s.queue["L2"], i, KindOf(d), a)
      <4>1. s.queue["L2"] \in Seq(PacketSet("L2")) /\ r.queue["L2"] \in Seq(PacketSet("L2"))
        BY <1>2, <1>3 DEF Typed, QueuesTyped
      <4>2. KindOf(d) # "writeback"
        BY DEF KindOf
      <4>3. QED
        BY <2>2, <4>1, <4>2, LiveGrown
    <3>4. WaitNum(r, "L2", KindOf(d), a) = WaitNum(s, "L2", KindOf(d), a)
      BY <2>3 DEF WaitNum, Waiting
    <3>5. OneIf(d = e /\ a = p.addr) \in Nat
      BY DEF OneIf
    <3>6. /\ Live(s.queue["L2"], i, KindOf(d), a) \in Nat
          /\ WaitNum(s, "L2", KindOf(d), a) \in Nat
      BY InL2Type
    <3>7. QED
      BY <3>1, <3>2, <3>3, <3>4, <3>5, <3>6 DEF InL2
  <2>5. Answering(s, i - 1, e, p.addr, r, i)
    BY <1>2, <2>2, <2>4 DEF Answering
  <2>6. HalfExact(s, i - 1) /\ Exact2(s) /\ Absent(s, "L2") /\ p.addr \in Addresses
    BY <1>5, ReadFrom DEF WholeExact, Passes
  <2>7. s.mshr[e][1].sub # <<>> /\ HalfExact(r, i)
    BY <1>3, <2>5, <2>6, HalfAnswered
  <2>8. Exact2(r) /\ Absent(r, "L2")
    <3>1. r.queue["Mem"] = s.queue["Mem"]
      BY <1>2, <2>2
    <3>2. QED
      BY <1>3, <1>5, <2>3, <2>6, <3>1 DEF Exact2, Absent, Awaits
  <2>9. QED
    BY <1>5, <2>2, <2>7, <2>8 DEF Sound, WholeExact, Passes, May, Losses
<1>6. QED
  BY <1>4, <1>5

\* A packet that is put off is where it was.
LEMMA PutOffExact ==
  ASSUME NEW s, Typed(s), NEW c \in Caches, NEW i \in 1 .. Len(s.queue[c]),
         s.abort = "none", WholeExact(s, Passes(c, i - 1)),
         NEW r, r.blocks = s.blocks, PutOff(s, c, i, r)
  PROVE  Sound(r, Passes(c, i))
<1>1. "L2" \in Caches /\ c \in Levels /\ "L2" \in Levels /\ "Mem" \in Levels \ {c}
  BY DEF Caches, Levels
<1>2. /\ r.mshr = s.mshr /\ r.abort = s.abort
      /\ \A d \in Levels \ {c} : r.queue[d] = s.queue[d]
  BY DEF PutOff
<1>3. ASSUME NEW d, NEW a
      PROVE  Live(r.queue["L2"], Passes(c, i), KindOf(d), a) =
               Live(s.queue["L2"], Passes(c, i - 1), KindOf(d), a)
  <2>1. CASE c # "L2"
    BY <1>1, <1>2, <2>1 DEF Passes
  <2>2. CASE c = "L2"
    <3>1. PICK q \in Seq(PacketSet("L2")) : q = s.queue["L2"]
      BY <1>1 DEF Typed, QueuesTyped
    <3>2. /\ Len(r.queue["L2"]) = Len(q)
          /\ \A k \in (1 .. Len(q)) \ {i} : r.queue["L2"][k] = q[k]
          /\ r.queue["L2"][i] = [q[i] EXCEPT !.ready = 1]
      BY <2>2, <3>1 DEF PutOff
    <3>3. q[i] \in PacketSet("L2") /\ i \in 1 .. Len(q)
      BY <2>2, <3>1
    <3>4. PICK p : p = [q[i] EXCEPT !.ready = 1]
      OBVIOUS
    <3>5. p.type = q[i].type /\ p.addr = q[i].addr /\ p.ready = 1
      BY <1>1, <3>3, <3>4, PutOffTyped
    <3>6. ~Ready(p)
      BY <3>5 DEF Ready
    <3>7. Put(q, i, r.queue["L2"])
      BY <3>2, <3>4, <3>5, <3>6 DEF Put
    <3>8. Live(r.queue["L2"], i, KindOf(d), a) = Live(q, i - 1, KindOf(d), a)
      BY <3>3, <3>7, LivePut
    <3>9. QED
      BY <2>2, <3>1, <3>8 DEF Passes
  <2>3. QED
    BY <2>1, <2>2
<1>4. \A d, a : WaitNum(r, "L2", KindOf(d), a) = WaitNum(s, "L2", KindOf(d), a)
  BY <1>2 DEF WaitNum, Waiting
<1>5. \A d, a : InL2(r, Passes(c, i), d, a) = InL2(s, Passes(c, i - 1), d, a)
  BY <1>3, <1>4 DEF InL2
<1>6. \A d \in Caches : \A a \in Addresses : Holding(r, d, a) = Holding(s, d, a)
  BY DEF Holding
<1>7. AsExact(s, Passes(c, i - 1), r, Passes(c, i))
  BY <1>1, <1>2, <1>5, <1>6 DEF AsExact, Awaits
<1>8. WholeExact(r, Passes(c, i))
  BY <1>7, AsExactKeeps
<1>9. QED
  BY <1>2, <1>8 DEF Sound

\* A packet that an MSHR entry of the L2 takes is still in the L2.
LEMMA InL2Moved ==
  ASSUME NEW s, Typed(s), NEW c \in Caches, NEW i \in 1 .. Len(s.queue[c]),
         Ready(s.queue[c][i]), NEW r, Typed(r), NEW j \in 1 .. MshrEntries[c],
         EntryTaken(s, c, j, s.queue[c][i], r),
         c = "L2" => r.queue["L2"] = s.queue["L2"], NEW d, NEW a
  PROVE  /\ c = "L2" => InL2(r, i, d, a) = InL2(s, i - 1, d, a)
         /\ c # "L2" => WaitNum(r, "L2", KindOf(d), a) = WaitNum(s, "L2", KindOf(d), a)
<1>1. PICK p \in PacketSet(c) : p = s.queue[c][i]
  BY QueuedPacket
<1>2. "L2" \in Caches
  BY DEF Caches
<1>3. /\ \A e \in Caches \ {c} : r.mshr[e] = s.mshr[e]
      /\ \A k \in (1 .. MshrEntries[c]) \ {j} : r.mshr[c][k] = s.mshr[c][k]
      /\ r.mshr[c][j].sub = Append(s.mshr[c][j].sub, p)
  BY <1>1 DEF EntryTaken
<1>4. ASSUME c # "L2"
      PROVE  WaitNum(r, "L2", KindOf(d), a) = WaitNum(s, "L2", KindOf(d), a)
  <2>1. r.mshr["L2"] = s.mshr["L2"]
    BY <1>2, <1>3, <1>4
  <2>2. QED
    BY <2>1 DEF WaitNum, Waiting
<1>5. ASSUME c = "L2"
      PROVE  InL2(r, i, d, a) = InL2(s, i - 1, d, a)
  <2>1. Live(s.queue["L2"], i - 1, KindOf(d), a) =
          Live(s.queue["L2"], i, KindOf(d), a)
            + Gone(s, c, i, d, a)
    BY <1>5, InL2Done DEF Passes
  <2>2. Gone(s, c, i, d, a) = OneIf(Is(p, KindOf(d), a))
    BY <1>1, <1>5 DEF OneIf, Gone
  <2>3. Joins(s, c, j, p, r)
    BY <1>3 DEF Joins
  <2>4. WaitNum(r, c, KindOf(d), a) = WaitNum(s, c, KindOf(d), a) + OneIf(Is(p, KindOf(d), a))
    BY <2>3, WaitMore
  <2>5. OneIf(Is(p, KindOf(d), a)) \in Nat
    BY DEF OneIf
  <2>6. /\ Live(s.queue["L2"], i, KindOf(d), a) \in Nat
        /\ WaitNum(s, "L2", KindOf(d), a) \in Nat
    BY InL2Type
  <2>7. r.queue["L2"] = s.queue["L2"]
    BY <1>5
  <2>8. WaitNum(r, "L2", KindOf(d), a) =
          WaitNum(s, "L2", KindOf(d), a) + OneIf(Is(p, KindOf(d), a))
    BY <1>5, <2>4
  <2>9. QED
    BY <2>1, <2>2, <2>5, <2>6, <2>7, <2>8 DEF InL2
<1>6. QED
  BY <1>4, <1>5

\* A packet that joins those of an entry waits for the same block.
LEMMA JoinedExact ==
  ASSUME NEW s, Typed(s), NEW c \in Caches, NEW i \in 1 .. Len(s.queue[c]),
         Ready(s.queue[c][i]), s.abort = "none", WholeExact(s, Passes(c, i - 1)),
         NEW r, Typed(r), Alone(r), r.blocks = s.blocks, Joined(s, c, s.queue[c][i], r)
  PROVE  Sound(r, Passes(c, i))
<1>1. PICK p \in PacketSet(c) : p = s.queue[c][i]
  BY QueuedPacket
<1>2. "L2" \in Caches /\ {"L1I", "L1D"} \subseteq Caches
  BY DEF Caches
<1>3. r.queue = s.queue /\ r.abort = s.abort
  BY DEF Joined
<1>4. /\ EntryTaken(s, c, 1, p, r)
      /\ s.mshr[c][1].sub # <<>> /\ s.mshr[c][1].address = BlockAddress(p.addr)
      /\ 1 \in 1 .. MshrEntries[c]
  <2>1. PICK j \in 1 .. MshrEntries[c] :
          /\ EntryTaken(s, c, j, p, r)
          /\ s.mshr[c][j].sub # <<>> /\ s.mshr[c][j].address = BlockAddress(p.addr)
    BY <1>1 DEF Joined
  <2>2. j = 1
    BY <2>1, TakesFirst
  <2>3. QED
    BY <2>1, <2>2
<1>5. ASSUME NEW d, NEW a
      PROVE  InL2(r, Passes(c, i), d, a) = InL2(s, Passes(c, i - 1), d, a)
  <2>1. /\ c = "L2" => InL2(r, i, d, a) = InL2(s, i - 1, d, a)
        /\ c # "L2" => WaitNum(r, "L2", KindOf(d), a) = WaitNum(s, "L2", KindOf(d), a)
    BY <1>1, <1>3, <1>4, InL2Moved
  <2>2. QED
    BY <1>3, <2>1 DEF InL2, Passes
<1>6. \A d \in Caches : \A a \in Addresses : Holding(r, d, a) = Holding(s, d, a)
  BY DEF Holding
<1>7. ASSUME NEW d \in Caches, NEW a \in Addresses
      PROVE  Awaits(r, d, a) <=> Awaits(s, d, a)
  <2>1. CASE d # c
    BY <1>4, <2>1 DEF EntryTaken, Awaits
  <2>2. CASE d = c
    <3>1. r.mshr[c][1].sub = Append(s.mshr[c][1].sub, p)
      BY <1>4 DEF EntryTaken
    <3>2. r.mshr[c][1].sub # <<>>
      <4>1. s.mshr[c][1].sub \in Seq(PacketSet(c))
        BY <1>4, SubTyped
      <4>2. QED
        BY <3>1, <4>1, AppendFills
    <3>3. r.mshr[c][1].address = s.mshr[c][1].address
      BY <1>4 DEF EntryTaken
    <3>4. QED
      BY <1>4, <2>2, <3>2, <3>3 DEF Awaits
  <2>3. QED
    BY <2>1, <2>2
<1>8. AsExact(s, Passes(c, i - 1), r, Passes(c, i))
  BY <1>3, <1>5, <1>6, <1>7 DEF AsExact
<1>9. WholeExact(r, Passes(c, i))
  BY <1>8, AsExactKeeps
<1>10. QED
  BY <1>3, <1>9 DEF Sound

\* One more read is below a cache, which has begun to wait for the block.
Asks(s, j, c, addr, r, k) ==
  /\ \A d \in {"L1I", "L1D"} : \A a \in Addresses :
       InL2(r, k, d, a) = InL2(s, j, d, a) + OneIf(d = c /\ a = addr)
  /\ \A a \in Addresses :
       InMem(r.queue["Mem"], a) = InMem(s.queue["Mem"], a) + OneIf(c = "L2" /\ a = addr)
  /\ \A d \in Caches : \A a \in Addresses :
       OneIf(Awaits(r, d, a)) = OneIf(Awaits(s, d, a)) + OneIf(d = c /\ a = addr)
  /\ \A d \in Caches : Absent(s, d) => Absent(r, d)

\* They agree.
LEMMA AsksKeeps ==
  ASSUME NEW s, NEW j, NEW c, NEW addr, NEW r, NEW k, Asks(s, j, c, addr, r, k),
         WholeExact(s, j)
  PROVE  WholeExact(r, k)
<1>1. \A d \in {"L1I", "L1D"} : d \in Caches /\ Exact1(s, j, d) /\ Absent(r, d)
  BY DEF WholeExact, HalfExact, Asks, Caches
<1>2. "L2" \in Caches /\ Exact2(s) /\ Absent(r, "L2")
  BY DEF WholeExact, Asks, Caches
<1>3. ASSUME NEW d \in {"L1I", "L1D"}, NEW a \in Addresses
      PROVE  InL2(r, k, d, a) = OneIf(Awaits(r, d, a))
  <2>1. InL2(r, k, d, a) = InL2(s, j, d, a) + OneIf(d = c /\ a = addr)
    BY DEF Asks
  <2>2. OneIf(Awaits(r, d, a)) = OneIf(Awaits(s, d, a)) + OneIf(d = c /\ a = addr)
    BY <1>1 DEF Asks
  <2>3. InL2(s, j, d, a) = OneIf(Awaits(s, d, a))
    BY <1>1 DEF Exact1
  <2>4. QED
    BY <2>1, <2>2, <2>3
<1>4. ASSUME NEW a \in Addresses
      PROVE  InMem(r.queue["Mem"], a) = OneIf(Awaits(r, "L2", a))
  <2>1. InMem(r.queue["Mem"], a) = InMem(s.queue["Mem"], a) + OneIf(c = "L2" /\ a = addr)
    BY DEF Asks
  <2>2. OneIf(Awaits(r, "L2", a)) = OneIf(Awaits(s, "L2", a)) + OneIf("L2" = c /\ a = addr)
    BY <1>2 DEF Asks
  <2>3. InMem(s.queue["Mem"], a) = OneIf(Awaits(s, "L2", a))
    BY <1>2 DEF Exact2
  <2>4. OneIf("L2" = c /\ a = addr) = OneIf(c = "L2" /\ a = addr)
    BY DEF OneIf
  <2>5. QED
    BY <2>1, <2>2, <2>3, <2>4
<1>5. HalfExact(r, k)
  BY <1>1, <1>3 DEF HalfExact, Exact1
<1>6. Exact2(r)
  BY <1>4 DEF Exact2
<1>7. QED
  BY <1>2, <1>5, <1>6 DEF WholeExact

\* A request of the L2's joins memory's queue.
LEMMA InMemMore ==
  ASSUME NEW q \in Seq(PacketSet("Mem")), NEW p \in PacketSet("Mem"), ~IsWrite(p), NEW a
  PROVE  InMem(Append(q, p), a) = InMem(q, a) + OneIf(a = p.addr)
<1>1. /\ Num(Append(q, p), "fetch", a) = Num(q, "fetch", a) + OneIf(Is(p, "fetch", a))
      /\ Num(Append(q, p), "load", a) = Num(q, "load", a) + OneIf(Is(p, "load", a))
  BY NumAppend
<1>2. Num(q, "fetch", a) \in Nat /\ Num(q, "load", a) \in Nat
  BY NumType
<1>3. p.type \in {"fetch", "load"}
  BY DEF PacketSet, Reads, WriteBacksOf, IsWrite
<1>4. OneIf(Is(p, "fetch", a)) + OneIf(Is(p, "load", a)) = OneIf(a = p.addr)
  BY <1>3 DEF Is, OneIf
<1>5. OneIf(Is(p, "fetch", a)) \in Nat /\ OneIf(Is(p, "load", a)) \in Nat
  BY OneIfType
<1>6. QED
  BY <1>1, <1>2, <1>4, <1>5 DEF InMem

\* A request of a level 1 cache's joins the L2's.
LEMMA InL2More ==
  ASSUME NEW q \in Seq(PacketSet("L2")), NEW p \in PacketSet("L2"), ~IsWrite(p),
         NEW c \in {"L1I", "L1D"}, PrevOf(p) = c, NEW d \in {"L1I", "L1D"}, NEW a
  PROVE  Live(Append(q, p), 0, KindOf(d), a) =
           Live(q, 0, KindOf(d), a) + OneIf(d = c /\ a = p.addr)
<1>1. Append(q, p) \in Seq(PacketSet("L2"))
  OBVIOUS
<1>2. /\ Live(Append(q, p), 0, KindOf(d), a) = Num(Append(q, p), KindOf(d), a)
      /\ Live(q, 0, KindOf(d), a) = Num(q, KindOf(d), a)
  BY <1>1, LiveFirst
<1>3. Num(Append(q, p), KindOf(d), a) = Num(q, KindOf(d), a) + OneIf(Is(p, KindOf(d), a))
  BY NumAppend
<1>4. Is(p, KindOf(d), a) <=> d = c /\ a = p.addr
  BY ReadFrom
<1>5. QED
  BY <1>2, <1>3, <1>4 DEF OneIf

\* A cache begins to wait for the block of a packet.
Begins(s, c, p, r) ==
  /\ EntryTaken(s, c, 1, p, r) /\ 1 \in 1 .. MshrEntries[c]
  /\ \A d \in Caches : \A a \in Addresses :
       OneIf(Awaits(r, d, a))
         = OneIf(Awaits(s, d, a)) + OneIf(d = c /\ a = BlockAddress(p.addr))
  /\ \A d \in Caches : Absent(s, d) => Absent(r, d)

\* It does not have it.
LEMMA IssuedAwaits ==
  ASSUME NEW s, Typed(s), NEW c \in Caches, NEW p \in PacketSet(c),
         Holding(s, c, p.addr) = {}, NEW r, Alone(r), r.blocks = s.blocks, Issued(s, c, p, r)
  PROVE  Begins(s, c, p, r)
<1>1. p.addr \in Addresses /\ c \in Levels
  BY PacketFacts DEF Levels
<1>2. EntryTaken(s, c, 1, p, r) /\ 1 \in 1 .. MshrEntries[c] /\ s.mshr[c][1].sub = <<>>
  <2>1. PICK j \in 1 .. MshrEntries[c] : EntryTaken(s, c, j, p, r) /\ s.mshr[c][j].sub = <<>>
    BY DEF Issued
  <2>2. j = 1
    BY <2>1, TakesFirst
  <2>3. QED
    BY <2>1, <2>2
<1>3. r.mshr[c][1].sub # <<>> /\ r.mshr[c][1].address = BlockAddress(p.addr)
  <2>1. r.mshr[c][1].sub = Append(s.mshr[c][1].sub, p)
    BY <1>2 DEF EntryTaken
  <2>2. s.mshr[c][1].sub \in Seq(PacketSet(c))
    BY <1>2, SubTyped
  <2>3. Append(s.mshr[c][1].sub, p) # <<>>
    BY <2>2, AppendFills
  <2>4. r.mshr[c][1].address = BlockAddress(p.addr)
    BY <1>2 DEF EntryTaken
  <2>5. QED
    BY <2>1, <2>3, <2>4
<1>4. \A d \in Caches \ {c} : r.mshr[d] = s.mshr[d]
  BY <1>2 DEF EntryTaken
<1>5. \A a : ~Awaits(s, c, a) /\ (Awaits(r, c, a) <=> a = BlockAddress(p.addr))
  BY <1>2, <1>3 DEF Awaits
<1>6. \A d \in Caches \ {c} : \A a : Awaits(r, d, a) <=> Awaits(s, d, a)
  BY <1>4 DEF Awaits
<1>7. ASSUME NEW d \in Caches, NEW a \in Addresses
      PROVE  OneIf(Awaits(r, d, a))
               = OneIf(Awaits(s, d, a)) + OneIf(d = c /\ a = BlockAddress(p.addr))
  BY <1>5, <1>6 DEF OneIf
<1>8. ASSUME NEW d \in Caches, Absent(s, d), NEW a \in Addresses, Awaits(r, d, a)
      PROVE  Holding(r, d, a) = {}
  <2>1. r.blocks[d] = s.blocks[d]
    OBVIOUS
  <2>2. Holding(r, d, a) = Holding(s, d, a)
    BY <2>1, HoldingSame
  <2>3. CASE d = c
    <3>1. a = BlockAddress(p.addr)
      BY <1>5, <1>8, <2>3
    <3>2. Holding(s, c, BlockAddress(p.addr)) = Holding(s, c, p.addr)
      BY <1>1, HoldingBlock
    <3>3. QED
      BY <2>2, <2>3, <3>1, <3>2
  <2>4. CASE d # c
    <3>1. Awaits(s, d, a)
      BY <1>6, <1>8, <2>4
    <3>2. QED
      BY <1>8, <2>2, <3>1 DEF Absent
  <2>5. QED
    BY <2>3, <2>4
<1>9. \A d \in Caches : Absent(s, d) => Absent(r, d)
  BY <1>8 DEF Absent
<1>10. QED
  BY <1>2, <1>7, <1>9 DEF Begins

\* A packet that takes an entry: what it waits for is asked of the level below.
LEMMA IssuedExact ==
  ASSUME NEW s, Typed(s), NEW c \in Caches, NEW i \in 1 .. Len(s.queue[c]),
         Ready(s.queue[c][i]), s.abort = "none", WholeExact(s, Passes(c, i - 1)),
         NEW p, p = s.queue[c][i], Holding(s, c, p.addr) = {},
         NEW r, Typed(r), Alone(r), r.blocks = s.blocks, Issued(s, c, p, r)
  PROVE  Sound(r, Passes(c, i))
<1>1. p \in PacketSet(c)
  BY QueuedPacket
<1>2. /\ EntryTaken(s, c, 1, p, r) /\ 1 \in 1 .. MshrEntries[c]
      /\ \A d \in Caches : \A a \in Addresses :
           OneIf(Awaits(r, d, a))
             = OneIf(Awaits(s, d, a)) + OneIf(d = c /\ a = BlockAddress(p.addr))
      /\ \A d \in Caches : Absent(s, d) => Absent(r, d)
  <2>1. Begins(s, c, p, r)
    BY <1>1, IssuedAwaits
  <2>2. QED
    BY <2>1 DEF Begins
<1>3. /\ c = "L2" => Next1(c) = "Mem"
      /\ c # "L2" => Next1(c) = "L2" /\ c \in {"L1I", "L1D"}
      /\ "L2" \in Levels /\ "Mem" \in Levels
  BY LevelBelow DEF Caches, Levels
<1>4. \A d \in Levels \ {Next1(c)} : r.queue[d] = s.queue[d]
  BY DEF Issued
<1>5. CASE r.abort # "none" /\ May(s, r, Losses)
  BY <1>5 DEF Sound, May, Losses
<1>6. CASE \E q \in PacketSet(Next1(c)) :
             /\ ~IsWrite(q) /\ (c # "L2" => PrevOf(q) = c)
             /\ q.addr = BlockAddress(p.addr)
             /\ r.queue[Next1(c)] = Append(s.queue[Next1(c)], q)
             /\ r.abort = s.abort
  <2>1. PICK q \in PacketSet(Next1(c)) :
             /\ ~IsWrite(q) /\ (c # "L2" => PrevOf(q) = c)
             /\ q.addr = BlockAddress(p.addr)
             /\ r.queue[Next1(c)] = Append(s.queue[Next1(c)], q)
             /\ r.abort = s.abort
    BY <1>6
  <2>2. \A a \in Addresses :
          InMem(r.queue["Mem"], a)
            = InMem(s.queue["Mem"], a) + OneIf(c = "L2" /\ a = BlockAddress(p.addr))
    <3> TAKE a \in Addresses
    <3>1. s.queue["Mem"] \in Seq(PacketSet("Mem"))
      BY <1>3 DEF Typed, QueuesTyped
    <3>2. CASE c = "L2"
      <4>1. InMem(r.queue["Mem"], a) = InMem(s.queue["Mem"], a) + OneIf(a = q.addr)
        <5>1. q \in PacketSet("Mem") /\ r.queue["Mem"] = Append(s.queue["Mem"], q)
          BY <1>3, <2>1, <3>2
        <5>2. InMem(Append(s.queue["Mem"], q), a) = InMem(s.queue["Mem"], a) + OneIf(a = q.addr)
          BY <2>1, <3>1, <5>1, InMemMore
        <5>3. QED
          BY <5>1, <5>2
      <4>2. OneIf(a = q.addr) = OneIf(c = "L2" /\ a = BlockAddress(p.addr))
        BY <2>1, <3>2 DEF OneIf
      <4>3. QED
        BY <4>1, <4>2
    <3>3. CASE c # "L2"
      <4>1. r.queue["Mem"] = s.queue["Mem"]
        BY <1>3, <1>4, <3>3
      <4>2. OneIf(c = "L2" /\ a = BlockAddress(p.addr)) = 0
        BY <3>3 DEF OneIf
      <4>3. InMem(s.queue["Mem"], a) \in Nat
        <5>1. Num(s.queue["Mem"], "fetch", a) \in Nat /\ Num(s.queue["Mem"], "load", a) \in Nat
          BY <3>1, NumType
        <5>2. QED
          BY <5>1 DEF InMem
      <4>4. QED
        BY <4>1, <4>2, <4>3
    <3>4. QED
      BY <3>2, <3>3
  <2>3. \A d \in {"L1I", "L1D"} : \A a \in Addresses :
          InL2(r, Passes(c, i), d, a)
            = InL2(s, Passes(c, i - 1), d, a) + OneIf(d = c /\ a = BlockAddress(p.addr))
    <3> TAKE d \in {"L1I", "L1D"}
    <3> TAKE a \in Addresses
    <3>0. PICK j : j = Passes(c, i - 1)
      OBVIOUS
    <3>1. /\ Live(s.queue["L2"], j, KindOf(d), a) \in Nat
          /\ WaitNum(s, "L2", KindOf(d), a) \in Nat
          /\ InL2(s, j, d, a) \in Nat
      BY InL2Type
    <3>2. CASE c = "L2"
      <4>1. r.queue["L2"] = s.queue["L2"]
        BY <1>3, <1>4, <3>2
      <4>2. InL2(r, i, d, a) = InL2(s, i - 1, d, a)
        BY <1>1, <1>2, <3>2, <4>1, InL2Moved
      <4>3. OneIf(d = c /\ a = BlockAddress(p.addr)) = 0
        BY <3>2 DEF OneIf
      <4>4. QED
        BY <3>0, <3>1, <3>2, <4>2, <4>3 DEF Passes
    <3>3. CASE c # "L2"
      <4>1. s.queue["L2"] \in Seq(PacketSet("L2"))
        BY <1>3 DEF Typed, QueuesTyped
      <4>2. q \in PacketSet("L2") /\ r.queue["L2"] = Append(s.queue["L2"], q) /\ PrevOf(q) = c
        BY <1>3, <2>1, <3>3
      <4>3. Live(r.queue["L2"], 0, KindOf(d), a)
              = Live(s.queue["L2"], 0, KindOf(d), a) + OneIf(d = c /\ a = q.addr)
        BY <1>3, <2>1, <3>3, <4>1, <4>2, InL2More
      <4>4. WaitNum(r, "L2", KindOf(d), a) = WaitNum(s, "L2", KindOf(d), a)
        BY <1>1, <1>2, <3>3, InL2Moved
      <4>5. Passes(c, i - 1) = 0 /\ Passes(c, i) = 0
        BY <3>3 DEF Passes
      <4>6. OneIf(d = c /\ a = q.addr) \in Nat
        BY OneIfType
      <4>7. InL2(r, 0, d, a) = InL2(s, 0, d, a) + OneIf(d = c /\ a = q.addr)
        BY <3>0, <3>1, <4>3, <4>4, <4>5, <4>6 DEF InL2
      <4>8. QED
        BY <2>1, <4>5, <4>7
    <3>4. QED
      BY <3>2, <3>3
  <2>4. Asks(s, Passes(c, i - 1), c, BlockAddress(p.addr), r, Passes(c, i))
    BY <1>2, <2>2, <2>3 DEF Asks
  <2>5. WholeExact(r, Passes(c, i))
    BY <2>4, AsksKeeps
  <2>6. QED
    BY <2>1, <2>5 DEF Sound
<1>7. QED
  BY <1>5, <1>6 DEF Issued

\* The body of the loop of a cache's Tick.
LEMMA ProcessExact ==
  ASSUME NEW s, Typed(s), NEW c \in Caches, NEW i \in 1 .. Len(s.queue[c]),
         Ready(s.queue[c][i]), Sound(s, Passes(c, i - 1)), NEW r, Processed(s, c, i, r),
         Alone(r)
  PROVE  Sound(r, Passes(c, i))
<1>1. CASE s.abort # "none"
  <2>1. May(s, r, Failures)
    BY ProcessedQueues
  <2>2. QED
    BY <1>1, <2>1 DEF May, Sound
<1>2. CASE s.abort = "none"
  <2>1. WholeExact(s, Passes(c, i - 1))
    BY <1>2 DEF Sound
  <2>2. PICK p : p = s.queue[c][i]
    OBVIOUS
  <2>3. CASE HitDone(s, c, p, r)
    BY <1>2, <2>1, <2>2, <2>3, HitExact
  <2>4. CASE Holding(s, c, p.addr) = {} /\ Missed(s, c, i, r)
    <3>1. Typed(r) /\ r.blocks = s.blocks
      BY <2>4 DEF Missed
    <3>2. CASE PutOff(s, c, i, r)
      BY <1>2, <2>1, <3>1, <3>2, PutOffExact
    <3>3. CASE Joined(s, c, p, r)
      BY <1>2, <2>1, <2>2, <3>1, <3>3, JoinedExact
    <3>4. CASE Issued(s, c, p, r)
      BY <1>2, <2>1, <2>2, <2>4, <3>1, <3>4, IssuedExact
    <3>5. QED
      BY <2>2, <2>4, <3>2, <3>3, <3>4 DEF Missed
  <2>5. QED
    BY <2>2, <2>3, <2>4 DEF Processed
<1>3. QED
  BY <1>1, <1>2

\* While the packets of a queue are processed.
TickingExact(ctx, k, x) ==
  Ticking(ctx, k, x) /\ (Alone(x) => Sound(x, Passes(ctx.c, k)))

\* The loop of a cache's Tick.
ExactTickFold == INSTANCE FoldInduction WITH
                   op <- LAMBDA c, n, victim, x, i : Process(x, c, n, victim, i),
                   J <- TickingExact

\* One packet more is processed.
LEMMA TickExactStep ==
  ASSUME NEW c \in Caches, NEW from, Typed(from), NEW ctx,
         ctx = [c |-> c, from |-> from], NEW n, NEW victim, Evicts(victim),
         NEW k \in 1 .. Len(from.queue[c]), from.queue[c][k].ready = 0,
         NEW x, TickingExact(ctx, k - 1, x)
  PROVE  TickingExact(ctx, k, Process(x, c, n, victim, k))
<1>1. ctx.c = c /\ ctx.from = from /\ c \in Levels
  BY DEF Levels
<1>2. Ticking(ctx, k - 1, x) /\ (Alone(x) => Sound(x, Passes(c, k - 1)))
  BY <1>1 DEF TickingExact
<1>3. Typed(x) /\ TickedQueue(c, k - 1, from.queue[c], x.queue[c])
  BY <1>1, <1>2 DEF Ticking
<1>4. from.queue[c] \in Seq(PacketSet(c)) /\ x.queue[c] \in Seq(PacketSet(c))
  BY <1>1, <1>3 DEF Typed, QueuesTyped
<1>5. k \in 1 .. Len(x.queue[c])
  BY <1>3, <1>4 DEF TickedQueue
<1>6. Ready(x.queue[c][k])
  <2>1. k \in Nat /\ ~(k <= k - 1)
    OBVIOUS
  <2>2. x.queue[c][k] = from.queue[c][k]
    BY <1>3, <2>1 DEF TickedQueue
  <2>3. QED
    BY <2>2 DEF Ready
<1>7. PICK r : r = Process(x, c, n, victim, k)
  OBVIOUS
<1>8. Processed(x, c, k, r)
  BY <1>3, <1>5, <1>7, ProcessEffect
<1>9. ASSUME Alone(r)
      PROVE  Sound(r, Passes(c, k))
  <2>1. Sound(x, Passes(c, k - 1))
    BY <1>2, <1>3, <1>5, <1>8, <1>9, ProcessedAlone
  <2>2. QED
    BY <1>3, <1>5, <1>6, <1>8, <1>9, <2>1, ProcessExact
<1>10. Ticking(ctx, k, r)
  BY <1>2, <1>7, TickStep
<1>11. QED
  BY <1>1, <1>7, <1>9, <1>10 DEF TickingExact

\* All the ready packets.
LEMMA AllProcessedExact ==
  ASSUME NEW s, Typed(s), NEW c \in Caches, NEW q, NEW n, NEW victim,
         Evicts(victim), DueFirst(c, q, n, s.queue[c]), Alone(s) => Sound(s, 0),
         NEW seq, seq = [i \in 1 .. n |-> i]
  PROVE  TickingExact([c |-> c, from |-> s], n, AllProcessed(s, c, n, victim, seq))
<1>1. PICK ctx : ctx = [c |-> c, from |-> s]
  OBVIOUS
<1>2. ctx.c = c /\ ctx.from = s /\ c \in Levels
  BY <1>1 DEF Levels
<1>3. \A d \in Levels : s.queue[d] \in Seq(PacketSet(d)) /\ Len(s.queue[d]) \in Nat
  BY DEF Typed, QueuesTyped
<1>4. n \in Nat /\ n <= Len(s.queue[c]) /\ \A i \in 1 .. n : s.queue[c][i].ready = 0
  BY DEF DueFirst
<1>5. seq \in Seq(Nat) /\ Len(seq) = n /\ \A k \in 1 .. n : seq[k] = k
  BY <1>4
<1>6. TickingExact(ctx, 0, s)
  <2>1. \A d \in Levels : Extended(d, s.queue[d], s.queue[d])
    BY <1>3 DEF Extended
  <2>2. TickedQueue(c, 0, s.queue[c], s.queue[c])
    BY <1>2, <1>3 DEF TickedQueue
  <2>3. Counting(s, c, 0, s)
    BY DEF Counting
  <2>4. Ticking(ctx, 0, s)
    BY <1>2, <2>1, <2>2, <2>3 DEF Ticking, May
  <2>5. Passes(c, 0) = 0
    BY DEF Passes
  <2>6. QED
    BY <1>2, <2>4, <2>5 DEF TickingExact
<1>7. \A k \in 1 .. Len(seq) : \A x :
        TickingExact(ctx, k - 1, x) => TickingExact(ctx, k, Process(x, c, n, victim, seq[k]))
  <2> TAKE k \in 1 .. Len(seq)
  <2> TAKE x
  <2> HAVE TickingExact(ctx, k - 1, x)
  <2>1. k \in 1 .. Len(s.queue[c]) /\ s.queue[c][k].ready = 0 /\ seq[k] = k
    BY <1>2, <1>3, <1>4, <1>5
  <2>2. TickingExact(ctx, k, Process(x, c, n, victim, k))
    BY <1>1, <2>1, TickExactStep
  <2>3. QED
    BY <2>1, <2>2
<1>8. PICK r : r = ExactTickFold!Fold(c, n, victim, s, seq)
  OBVIOUS
<1>9. r = AllProcessed(s, c, n, victim, seq)
  BY <1>8, Zenon DEF AllProcessed, ExactTickFold!Fold, FoldLeft, MapThenFoldSet, Max,
                     ExactTickFold!FoldLeft, ExactTickFold!MapThenFoldSet,
                     ExactTickFold!Max
<1>10. TickingExact(ctx, Len(seq), r)
  BY <1>5, <1>6, <1>7, <1>8, ExactTickFold!FoldInvariant
<1>11. QED
  BY <1>1, <1>5, <1>9, <1>10

\* Replacing a queue of a cache's by one with the same requests.
Requeued(s, c, j, r, k) ==
  /\ \A d \in Levels \ {c} : r.queue[d] = s.queue[d]
  /\ r.mshr = s.mshr /\ r.blocks = s.blocks /\ r.abort = s.abort
  /\ c = "L2" => \A kind, addr :
       Live(r.queue["L2"], k, kind, addr) = Live(s.queue["L2"], j, kind, addr)

\* It changes nothing.
LEMMA RequeuedExact ==
  ASSUME NEW s, NEW c \in Caches, NEW j, NEW r, NEW k,
         Requeued(s, c, j, r, k), Sound(s, Passes(c, j))
  PROVE  Sound(r, Passes(c, k))
<1>1. "L2" \in Levels /\ "Mem" \in Levels \ {c}
  BY DEF Levels, Caches
<1>2. /\ \A d \in Levels \ {c} : r.queue[d] = s.queue[d]
      /\ r.mshr = s.mshr /\ r.blocks = s.blocks /\ r.abort = s.abort
  BY DEF Requeued
<1>3. ASSUME NEW d, NEW a
      PROVE  InL2(r, Passes(c, k), d, a) = InL2(s, Passes(c, j), d, a)
  <2>1. Live(r.queue["L2"], Passes(c, k), KindOf(d), a)
          = Live(s.queue["L2"], Passes(c, j), KindOf(d), a)
    BY <1>1 DEF Requeued, Passes
  <2>2. WaitNum(r, "L2", KindOf(d), a) = WaitNum(s, "L2", KindOf(d), a)
    BY <1>2 DEF WaitNum, Waiting
  <2>3. QED
    BY <2>1, <2>2 DEF InL2
<1>4. \A d \in Caches : \A a \in Addresses : Holding(r, d, a) = Holding(s, d, a)
  BY <1>2 DEF Holding
<1>5. AsExact(s, Passes(c, j), r, Passes(c, k))
  BY <1>1, <1>2, <1>3, <1>4 DEF AsExact, Awaits
<1>6. WholeExact(s, Passes(c, j)) => WholeExact(r, Passes(c, k))
  BY <1>5, AsExactKeeps
<1>7. QED
  BY <1>2, <1>6 DEF Sound

\* Before the loop of a Tick a queue has the same requests in another order.
LEMMA FirstPass ==
  ASSUME NEW s, NEW c \in Caches, s.queue[c] \in Seq(PacketSet(c)), NEW r,
         QueueSet(s, c, ReadyFirst(s.queue[c]), r), r.blocks = s.blocks, r.abort = s.abort,
         r.queue[c] \in Seq(PacketSet(c))
  PROVE  Requeued(s, c, 0, r, 0)
<1>1. PICK q \in Seq(PacketSet(c)) : q = s.queue[c]
  OBVIOUS
<1>2. PICK f \in Seq(PacketSet(c)) : f = r.queue[c]
  OBVIOUS
<1>3. /\ f = ReadyFirst(q) /\ r.mshr = s.mshr
      /\ \A d \in Levels \ {c} : r.queue[d] = s.queue[d]
  BY <1>1, <1>2 DEF QueueSet
<1>4. ASSUME NEW kind, NEW addr
      PROVE  Live(f, 0, kind, addr) = Live(q, 0, kind, addr)
  <2>1. Num(ReadyFirst(q), kind, addr) = Num(q, kind, addr)
    BY NumReadyFirst
  <2>2. Live(f, 0, kind, addr) = Num(f, kind, addr)
    BY LiveFirst
  <2>3. Live(q, 0, kind, addr) = Num(q, kind, addr)
    BY LiveFirst
  <2>4. QED
    BY <1>3, <2>1, <2>2, <2>3
<1>5. QED
  BY <1>1, <1>2, <1>3, <1>4 DEF Requeued

\* After it nothing is left that is done with.
LEMMA LastPass ==
  ASSUME NEW s, NEW c \in Caches, s.queue[c] \in Seq(PacketSet(c)), NEW n \in Nat,
         AllDone(s.queue[c], n), NEW r, QueueSet(s, c, Select(s.queue[c], FALSE), r),
         r.blocks = s.blocks, r.abort = s.abort, r.queue[c] \in Seq(PacketSet(c))
  PROVE  Requeued(s, c, n, r, 0)
<1>1. PICK q \in Seq(PacketSet(c)) : q = s.queue[c]
  OBVIOUS
<1>2. PICK f \in Seq(PacketSet(c)) : f = r.queue[c]
  OBVIOUS
<1>3. /\ f = Select(q, FALSE) /\ r.mshr = s.mshr
      /\ \A d \in Levels \ {c} : r.queue[d] = s.queue[d]
  BY <1>1, <1>2 DEF QueueSet
<1>4. ASSUME NEW kind, NEW addr
      PROVE  Live(f, 0, kind, addr) = Live(q, n, kind, addr)
  <2>1. Num(Select(q, FALSE), kind, addr) = Live(q, n, kind, addr)
    BY <1>1, LiveLast
  <2>2. Live(f, 0, kind, addr) = Num(f, kind, addr)
    BY LiveFirst
  <2>3. QED
    BY <1>3, <2>1, <2>2
<1>5. QED
  BY <1>1, <1>2, <1>3, <1>4 DEF Requeued

\* The Tick of a cache.
LEMMA CacheTickExact ==
  ASSUME NEW s, Typed(s), NEW c \in Caches, NEW victim, Evicts(victim),
         Alone(s) => Sound(s, 0)
  PROVE  LET r == CacheTick(s, c, victim) IN Alone(r) => Sound(r, 0)
<1>1. c \in Levels /\ s.queue[c] \in Seq(PacketSet(c))
  BY DEF Levels, Typed, QueuesTyped
<1>2. PICK n : n = Len(Select(s.queue[c], TRUE))
  OBVIOUS
<1>3. PICK first : first = ReadyFirst(s.queue[c])
  OBVIOUS
<1>4. DueFirst(c, s.queue[c], n, first)
  BY <1>1, <1>2, <1>3, ReadyFirstEffect
<1>5. first \in Seq(PacketSet(c)) /\ n \in Nat
  BY <1>4 DEF DueFirst
<1>6. PICK start : start = [s EXCEPT !.queue[c] = ReadyFirst(@)]
  OBVIOUS
<1>7. start = WithQueue(s, c, first)
  BY <1>3, <1>6 DEF WithQueue
<1>8. PICK seq : seq = [i \in 1 .. n |-> i]
  OBVIOUS
<1>9. PICK x : x = AllProcessed(start, c, n, victim, seq)
  OBVIOUS
<1>10. PICK r : r = [x EXCEPT !.queue[c] = Select(@, FALSE)]
  OBVIOUS
<1>11. CacheTick(s, c, victim) = r
  <2>1. CacheTick(s, c, victim) =
          [AllProcessed([s EXCEPT !.queue[c] = ReadyFirst(@)], c,
                        Len(Select(s.queue[c], TRUE)), victim,
                        [i \in 1 .. Len(Select(s.queue[c], TRUE)) |-> i])
             EXCEPT !.queue[c] = Select(@, FALSE)]
    BY Zenon DEF CacheTick, AllProcessed
  <2>2. AllProcessed([s EXCEPT !.queue[c] = ReadyFirst(@)], c,
                     Len(Select(s.queue[c], TRUE)), victim,
                     [i \in 1 .. Len(Select(s.queue[c], TRUE)) |-> i]) = x
    BY <1>2, <1>6, <1>8, <1>9, Zenon
  <2>3. QED
    BY <1>10, <2>1, <2>2, Zenon
<1>12. /\ Typed(start) /\ start.abort = s.abort /\ start.blocks = s.blocks
       /\ start.queue[c] = first /\ QueueSet(s, c, ReadyFirst(s.queue[c]), start)
  <2>1. /\ Typed(start) /\ start.blocks = s.blocks /\ start.mshr = s.mshr
        /\ start.abort = s.abort /\ start.out = s.out
        /\ \A d \in Levels \ {c} : start.queue[d] = s.queue[d]
        /\ start.queue[c] = first
    BY <1>1, <1>5, <1>7, QueueChange
  <2>2. QED
    BY <1>3, <2>1 DEF QueueSet
<1>13. ASSUME Alone(start)
       PROVE  Sound(start, 0)
  <2>0. Sound(s, 0)
    BY <1>12, <1>13 DEF QueueSet, Alone
  <2>1. Requeued(s, c, 0, start, 0)
    BY <1>1, <1>5, <1>12, FirstPass
  <2>2. Passes(c, 0) = 0
    BY DEF Passes
  <2>3. QED
    BY <2>0, <2>1, <2>2, RequeuedExact
<1>14. TickingExact([c |-> c, from |-> start], n, x)
  BY <1>4, <1>8, <1>9, <1>12, <1>13, AllProcessedExact
<1>15. /\ Typed(x) /\ TickedQueue(c, n, first, x.queue[c])
       /\ Alone(x) => Sound(x, Passes(c, n))
  BY <1>12, <1>14 DEF TickingExact, Ticking
<1>16. x.queue[c] \in Seq(PacketSet(c))
  BY <1>1, <1>15 DEF Typed, QueuesTyped
<1>17. PICK y \in Seq(PacketSet(c)) : y = Select(x.queue[c], FALSE)
  <2>1. FALSE \in BOOLEAN
    OBVIOUS
  <2>2. Select(x.queue[c], FALSE) \in Seq(PacketSet(c))
    BY <1>1, <1>16, <2>1, SelectOrder
  <2>3. QED
    BY <2>2
<1>18. /\ r.queue[c] = y /\ r.blocks = x.blocks /\ r.abort = x.abort
       /\ QueueSet(x, c, Select(x.queue[c], FALSE), r)
  <2>1. r = WithQueue(x, c, y)
    BY <1>10, <1>17 DEF WithQueue
  <2>2. /\ r.blocks = x.blocks /\ r.mshr = x.mshr
        /\ r.abort = x.abort /\ r.out = x.out
        /\ \A d \in Levels \ {c} : r.queue[d] = x.queue[d]
        /\ r.queue[c] = y
    <3>1. Typed(x) /\ y \in Seq(PacketSet(c)) /\ c \in Levels
      BY <1>1, <1>15, <1>17
    <3>2. QED
      BY <2>1, <3>1, QueueChange
  <2>3. QED
    BY <1>17, <2>2 DEF QueueSet
<1>19. Requeued(x, c, n, r, 0)
  <2>1. AllDone(x.queue[c], n)
    BY <1>1, <1>4, <1>15, <1>16, LaterReady
  <2>2. QED
    BY <1>5, <1>16, <1>17, <1>18, <2>1, LastPass
<1>20. ASSUME Alone(r)
       PROVE  Sound(r, Passes(c, 0))
  <2>1. Alone(x)
    BY <1>18, <1>20 DEF QueueSet, Alone
  <2>2. QED
    BY <1>15, <1>19, <2>1, RequeuedExact
<1>21. QED
  BY <1>11, <1>20 DEF Passes

\* The inductive invariant.
ExactInv == Alone(State) => Sound(State, 0)

\* A state with these queues, entries and blocks, at rest.
LEMMA ExactSame ==
  ASSUME NEW s, Sound(s, 0), NEW r, r.mshr = s.mshr, r.blocks = s.blocks,
         r.queue["L2"] = s.queue["L2"], r.queue["Mem"] = s.queue["Mem"],
         r.abort = s.abort \/ r.abort = "useafterfree"
  PROVE  Sound(r, 0)
<1>1. \A d, a : InL2(r, 0, d, a) = InL2(s, 0, d, a)
  BY DEF InL2, WaitNum, Waiting
<1>2. \A d \in Caches : \A a \in Addresses : Holding(r, d, a) = Holding(s, d, a)
  BY DEF Holding
<1>3. AsExact(s, 0, r, 0)
  BY <1>1, <1>2 DEF AsExact, Awaits
<1>4. WholeExact(s, 0) => WholeExact(r, 0)
  BY <1>3, AsExactKeeps
<1>5. QED
  BY <1>4 DEF Sound

\* A Tick leaves the state that its level's operator makes, or the program has
\* used a deleted packet.
LEMMA BecomesExact ==
  ASSUME NEW r, Becomes(r), Alone(r) => Sound(r, 0)
  PROVE  ExactInv'
<1>1. /\ queue' = r.queue /\ blocks' = r.blocks /\ mshr' = r.mshr
      /\ abort' = r.abort \/ abort' = "useafterfree"
  BY DEF Becomes
<1>2. PICK s : s = State'
  OBVIOUS
<1>3. /\ s.queue = r.queue /\ s.blocks = r.blocks /\ s.mshr = r.mshr
      /\ s.abort = r.abort \/ s.abort = "useafterfree"
  BY <1>1, <1>2 DEF State
<1>4. ASSUME Alone(s)
      PROVE  Sound(s, 0)
  <2>1. Sound(r, 0)
    BY <1>3, <1>4 DEF Alone
  <2>2. QED
    BY <1>3, <2>1, ExactSame
<1>5. QED
  BY <1>2, <1>4 DEF ExactInv

\* Every Tick keeps it.
LEMMA TickExact ==
  ASSUME TimingInv, ExactInv, Tick
  PROVE  ExactInv'
<1>1. Typed(State) /\ (Alone(State) => Sound(State, 0))
  BY DEF TimingInv, ExactInv
<1>2. CASE TickMem
  <2>1. PICK b \in BOOLEAN : b = (\E i \in DOMAIN queue["Mem"] : Ready(queue["Mem"][i]))
    OBVIOUS
  <2>2. PICK v \in Victims(b) : Becomes(MemTick(State, v))
    BY <1>2, <2>1 DEF TickMem
  <2>3. Evicts(v)
    BY VictimsEvict
  <2>4. PICK r : r = MemTick(State, v)
    OBVIOUS
  <2>5. Alone(r) => Alone(State)
    <3>1. MemTicked(State, r)
      BY <1>1, <2>3, <2>4, MemTickEffect
    <3>2. Settles(State, r)
      BY <3>1 DEF MemTicked
    <3>3. QED
      BY <3>2, AloneSettled
  <2>6. Alone(r) => Sound(r, 0)
    BY <1>1, <2>3, <2>4, <2>5, MemTickExact
  <2>7. QED
    BY <2>2, <2>4, <2>6, BecomesExact
<1>3. ASSUME NEW c \in Caches, \E v \in Victims(FALSE) : Becomes(CacheTick(State, c, v))
      PROVE  ExactInv'
  <2>1. PICK v \in Victims(FALSE) : Becomes(CacheTick(State, c, v))
    BY <1>3
  <2>2. Evicts(v)
    <3>1. FALSE \in BOOLEAN
      OBVIOUS
    <3>2. QED
      BY <3>1, VictimsEvict
  <2>3. PICK r : r = CacheTick(State, c, v)
    OBVIOUS
  <2>4. Alone(r) => Sound(r, 0)
    BY <1>1, <2>2, <2>3, CacheTickExact
  <2>5. QED
    BY <2>1, <2>3, <2>4, BecomesExact
<1>4. "L2" \in Caches /\ "L1I" \in Caches /\ "L1D" \in Caches
  BY DEF Caches
<1>5. QED
  BY <1>2, <1>3, <1>4 DEF Tick, TickL2, TickL1I, TickL1D

\* The core's requests go to the level 1 caches.
LEMMA RequestedBelow ==
  ASSUME TimingInv, NEW data \in DataRequests \cup {NULL},
         NEW fetch \in TextWords \cup {NULL}, NEW s1, NEW s2,
         Requested(data, fetch, s1, s2)
  PROVE  s2.queue["L2"] = queue["L2"] /\ s2.queue["Mem"] = queue["Mem"]
<1>1. Typed(State) /\ State.queue = queue
  BY DEF TimingInv, State
<1>2. "L2" \in Levels \ {"L1I", "L1D"} /\ "Mem" \in Levels \ {"L1I", "L1D"}
  BY DEF Levels, Caches
<1>3. Typed(s1) /\ s1.queue["L2"] = queue["L2"] /\ s1.queue["Mem"] = queue["Mem"]
  <2>1. CASE data = NULL
    BY <1>1, <2>1 DEF Requested
  <2>2. CASE data # NULL
    <3>1. PICK q \in PacketSet("L1D") : q = [RequestPacket(data) EXCEPT !.ready = Delay["L1D"]]
      BY <2>2, RequestTyped
    <3>2. s1 = recvReq(State, "L1D", RequestPacket(data))
      BY <2>2 DEF Requested
    <3>3. Asked(State, "L1D", q, s1)
      BY <1>1, <3>1, <3>2, AskEffect
    <3>4. QED
      BY <1>1, <1>2, <3>3 DEF Asked
  <2>3. QED
    BY <2>1, <2>2
<1>4. CASE fetch = NULL
  BY <1>3, <1>4 DEF Requested
<1>5. CASE fetch # NULL
  <2>1. PICK q \in PacketSet("L1I") :
          q = [Packet("fetch", fetch, <<>>) EXCEPT !.ready = Delay["L1I"]]
    BY <1>5, RequestTyped
  <2>2. s2 = recvReq(s1, "L1I", Packet("fetch", fetch, <<>>))
    BY <1>5 DEF Requested
  <2>3. Asked(s1, "L1I", q, s2)
    BY <1>3, <2>1, <2>2, AskEffect
  <2>4. QED
    BY <1>2, <1>3, <2>3 DEF Asked
<1>6. QED
  BY <1>4, <1>5

\* The core's cycle.
LEMMA CoreExact ==
  ASSUME TimingInv, ExactInv, CoreCycle
  PROVE  ExactInv'
<1>1. PICK data \in DataRequests \cup {NULL}, fetch \in TextWords \cup {NULL} :
        Core(data, fetch)
  BY DEF CoreCycle
<1>2. PICK s1, s2 : Requested(data, fetch, s1, s2) /\ queue' = Elapsed(s2.queue)
  BY <1>1, CoreRequests
<1>3. Typed(s2) /\ s2.queue["L2"] = queue["L2"] /\ s2.queue["Mem"] = queue["Mem"]
  BY <1>2, RequestedTyped, RequestedBelow
<1>4. "L2" \in Levels /\ "Mem" \in Levels
  BY DEF Levels, Caches
<1>5. \A c \in {"L2", "Mem"} : \A kind, addr :
        Num(queue'[c], kind, addr) = Num(queue[c], kind, addr)
  <2> TAKE c \in {"L2", "Mem"}
  <2> TAKE kind, addr
  <2>1. QueuesTyped(s2.queue) /\ c \in Levels
    BY <1>3, <1>4 DEF Typed
  <2>2. Num(Elapsed(s2.queue)[c], kind, addr) = Num(s2.queue[c], kind, addr)
    BY <2>1, ElapsedCounts
  <2>3. QED
    BY <1>2, <1>3, <2>2
<1>6. TimingInv'
  BY CoreSteps
<1>7. queue["L2"] \in Seq(PacketSet("L2")) /\ queue'["L2"] \in Seq(PacketSet("L2"))
  BY <1>4, <1>6 DEF TimingInv, Typed, QueuesTyped, State
<1>8. \A kind, addr : Live(queue'["L2"], 0, kind, addr) = Live(queue["L2"], 0, kind, addr)
  <2> TAKE kind, addr
  <2>1. Live(queue["L2"], 0, kind, addr) = Num(queue["L2"], kind, addr)
    BY <1>7, LiveFirst
  <2>2. Live(queue'["L2"], 0, kind, addr) = Num(queue'["L2"], kind, addr)
    BY <1>7, LiveFirst
  <2>3. QED
    BY <1>5, <2>1, <2>2
<1>9. blocks' = blocks /\ mshr' = mshr /\ abort' = abort
  BY <1>1 DEF Core
<1>10. PICK s : s = State
  OBVIOUS
<1>11. PICK r : r = State'
  OBVIOUS
<1>12. /\ s.queue = queue /\ s.mshr = mshr /\ s.blocks = blocks /\ s.abort = abort
       /\ r.queue = queue' /\ r.mshr = mshr /\ r.blocks = blocks /\ r.abort = abort
  BY <1>9, <1>10, <1>11 DEF State
<1>13. \A d, a : InL2(r, 0, d, a) = InL2(s, 0, d, a)
  BY <1>8, <1>12 DEF InL2, WaitNum, Waiting
<1>14. \A a : InMem(r.queue["Mem"], a) = InMem(s.queue["Mem"], a)
  BY <1>5, <1>12 DEF InMem
<1>15. \A d, a : Holding(r, d, a) = Holding(s, d, a)
  BY <1>12 DEF Holding
<1>16. AsExact(s, 0, r, 0)
  BY <1>12, <1>13, <1>14, <1>15 DEF AsExact, Awaits
<1>17. WholeExact(s, 0) => WholeExact(r, 0)
  BY <1>16, AsExactKeeps
<1>18. Alone(r) => Sound(s, 0)
  BY <1>10, <1>12 DEF ExactInv, Alone
<1>19. Alone(r) => Sound(r, 0)
  BY <1>12, <1>17, <1>18 DEF Sound
<1>20. QED
  BY <1>11, <1>19 DEF ExactInv

\* At first no entry waits and nothing is asked.
LEMMA ExactInit ==
  Init => ExactInv
<1> SUFFICES ASSUME Init PROVE ExactInv
  OBVIOUS
<1>1. PICK s : s = State
  OBVIOUS
<1>2. /\ \A c \in Levels : s.queue[c] = <<>>
      /\ s.mshr = [c \in Caches |-> [i \in 1 .. MshrEntries[c] |-> EmptyEntry]]
      /\ s.abort = "none"
  BY <1>1 DEF Init, Constructed, State
<1>3. \A c \in Caches : \A i \in 1 .. MshrEntries[c] : s.mshr[c][i].sub = <<>>
  BY <1>2 DEF EmptyEntry
<1>4. "L2" \in Levels /\ "Mem" \in Levels /\ "L2" \in Caches /\ {"L1I", "L1D"} \subseteq Caches
  BY DEF Levels, Caches
<1>5. \A c \in Caches : \A a : ~Awaits(s, c, a)
  <2>1. \A c \in Caches : 1 \in 1 .. MshrEntries[c]
    BY Geometry
  <2>2. QED
    BY <1>3, <2>1 DEF Awaits
<1>6. ASSUME NEW kind, NEW a
      PROVE  WaitNum(s, "L2", kind, a) = 0
  <2>1. \A i \in 1 .. MshrSubentries["L2"] : ~(i <= Len(<<>>))
    <3>1. Len(<<>>) = 0 /\ MshrSubentries["L2"] \in Nat
      BY <1>4, Geometry
    <3>2. QED
      BY <3>1
  <2>2. \A w \in (1 .. MshrEntries["L2"]) \X (1 .. MshrSubentries["L2"]) :
          ~(w[2] <= Len(s.mshr["L2"][w[1]].sub))
    BY <1>3, <1>4, <2>1
  <2>3. Waiting(s, "L2", kind, a) = {}
    BY <2>2 DEF Waiting
  <2>4. Cardinality({}) = 0
    BY FS_EmptySet
  <2>5. QED
    BY <2>3, <2>4 DEF WaitNum
<1>7. ASSUME NEW kind, NEW a
      PROVE  Live(s.queue["L2"], 0, kind, a) = 0
  <2>1. s.queue["L2"] = <<>> /\ <<>> \in Seq(PacketSet("L2"))
    BY <1>2, <1>4
  <2>2. Live(<<>>, 0, kind, a) = Num(<<>>, kind, a)
    BY <2>1, LiveFirst
  <2>3. QED
    BY <2>1, <2>2, NumEmpty
<1>8. \A d, a : InL2(s, 0, d, a) = 0
  BY <1>6, <1>7 DEF InL2
<1>9. \A a : InMem(s.queue["Mem"], a) = 0
  BY <1>2, <1>4, NumEmpty DEF InMem
<1>10. \A c \in Caches : \A a : OneIf(Awaits(s, c, a)) = 0
  BY <1>5 DEF OneIf
<1>11. HalfExact(s, 0)
  BY <1>4, <1>5, <1>8, <1>10 DEF HalfExact, Exact1, Absent
<1>12. Exact2(s) /\ Absent(s, "L2")
  BY <1>4, <1>5, <1>9, <1>10 DEF Exact2, Absent
<1>13. QED
  BY <1>1, <1>2, <1>11, <1>12 DEF ExactInv, Sound, WholeExact

\* Every step keeps it.
LEMMA ExactStep ==
  TimingInv /\ ExactInv /\ [Next]_hvars => ExactInv'
<1> SUFFICES ASSUME TimingInv, ExactInv, [Next]_hvars PROVE ExactInv'
  OBVIOUS
<1>1. CASE Tick
  BY <1>1, TickExact
<1>2. CASE CoreCycle
  BY <1>2, CoreExact
<1>3. CASE Aborted \/ UNCHANGED hvars
  <2>1. State' = State
    BY <1>3 DEF Aborted, hvars, hierarchy, State
  <2>2. QED
    BY <2>1 DEF ExactInv
<1>4. QED
  BY <1>1, <1>2, <1>3 DEF Next

\* The invariant holds in every reachable state.
LEMMA ExactAlways ==
  Spec => []ExactInv
<1>1. TimingInv /\ ExactInv /\ [Next]_hvars => ExactInv'
  BY ExactStep
<1>2. QED
  BY <1>1, ExactInit, TimingAlways, PTL DEF Spec

\* The entries of a block are the first, or none.
LEMMA EntriesAwaiting ==
  ASSUME TimingInv, Alone(State), NEW c \in Caches, NEW addr
  PROVE  /\ Cardinality(Entries(State, c, addr)) = OneIf(Awaits(State, c, addr))
         /\ Entries(State, c, addr) # {} => Awaits(State, c, addr)
<1>1. 1 \in 1 .. MshrEntries[c] /\ (1 .. MshrEntries[c]) \ {1} = 2 .. MshrEntries[c]
  BY Geometry
<1>2. DOMAIN State.mshr[c] = 1 .. MshrEntries[c]
  BY DEF TimingInv, Typed, MshrTyped
<1>3. 1 \in DOMAIN State.mshr[c]
      /\ \A i \in DOMAIN State.mshr[c] : i # 1 => State.mshr[c][i].sub = <<>>
  BY <1>1, <1>2 DEF Alone
<1>4. CASE Awaits(State, c, addr)
  <2>1. Entries(State, c, addr) = {1}
    BY <1>3, <1>4 DEF Entries, Awaits
  <2>2. Cardinality({1}) = 1
    BY FS_Singleton
  <2>3. QED
    BY <1>4, <2>1, <2>2 DEF OneIf
<1>5. CASE ~Awaits(State, c, addr)
  <2>1. Entries(State, c, addr) = {}
    BY <1>3, <1>5 DEF Entries, Awaits
  <2>2. Cardinality({}) = 0
    BY FS_EmptySet
  <2>3. QED
    BY <1>5, <2>1, <2>2 DEF OneIf
<1>6. QED
  BY <1>4, <1>5

\* The assertion "no MSHR entry found" fails only after a cache has had two misses
\* outstanding, whatever the number of its MSHR entries, the geometry, the delays,
\* the victims and the requests of the core.
THEOREM EntriesAreFound ==
  Spec => []LookupFailsOverlapped
<1>1. ExactInv => LookupFailsOverlapped
  <2> SUFFICES ASSUME ExactInv, Alone(State) PROVE abort # "noentry"
    BY DEF LookupFailsOverlapped, Overlapped
  <2>1. QED
    BY DEF ExactInv, Sound, State
<1>2. QED
  BY <1>1, ExactAlways, PTL

\* Until then no cache waits for a block that it holds: a fill never finds its block
\* there, and never overwrites what has been stored in it since.
THEOREM AwaitedBlocksAreAbsent ==
  Spec => []MshrExact
<1>1. TimingInv /\ ExactInv => MshrExact
  <2> SUFFICES ASSUME TimingInv, ExactInv, abort = "none", Alone(State), NEW c \in Caches,
                      NEW a \in Addresses, Has(c, a)
               PROVE  Entries(State, c, BlockAddress(a)) = {}
    BY DEF MshrExact, Overlapped
  <2>1. WholeExact(State, 0)
    BY DEF ExactInv, Sound, State
  <2>2. Absent(State, c)
    BY <2>1 DEF WholeExact, HalfExact, Caches
  <2>3. BlockAddress(a) \in Addresses /\ Holding(State, c, BlockAddress(a)) # {}
    BY HoldingBlock DEF Has
  <2>4. ~Awaits(State, c, BlockAddress(a))
    BY <2>2, <2>3 DEF Absent
  <2>5. QED
    BY <2>4, EntriesAwaiting
<1>2. QED
  BY <1>1, TimingAlways, ExactAlways, PTL

\* And the reads below a cache are exactly those its entry waits for: no answer is
\* lost, none comes twice, and no request is left over from an entry released.
THEOREM RequestsArePerEntry ==
  Spec => []RequestPerEntry
<1>1. TimingInv /\ ExactInv => RequestPerEntry
  <2> SUFFICES ASSUME TimingInv, ExactInv, abort = "none", Alone(State),
                      NEW c \in Caches, NEW b \in Blocks
               PROVE  ReadsBelow(State, c, b * BlkSize)
                        = Cardinality(Entries(State, c, b * BlkSize))
    BY DEF RequestPerEntry, Overlapped
  <2>1. WholeExact(State, 0)
    BY DEF ExactInv, Sound, State
  <2>2. PICK addr \in Addresses : addr = b * BlkSize
    BY BlockAddresses
  <2>3. "L2" \in Levels /\ State.queue["L2"] \in Seq(PacketSet("L2"))
    BY DEF TimingInv, Typed, QueuesTyped, Levels, Caches
  <2>4. \A kind : Pending(State, "L2", kind, addr)
                    = Live(State.queue["L2"], 0, kind, addr) + WaitNum(State, "L2", kind, addr)
    <3> TAKE kind
    <3>1. Live(State.queue["L2"], 0, kind, addr) = Num(State.queue["L2"], kind, addr)
      BY <2>3, LiveFirst
    <3>2. QED
      BY <3>1 DEF Pending, WaitNum
  <2>5. ReadsBelow(State, c, addr) = OneIf(Awaits(State, c, addr))
    <3>1. CASE c = "L2"
      <4>1. ReadsBelow(State, c, addr) = InMem(State.queue["Mem"], addr)
        <5>1. \A kind : Pending(State, "Mem", kind, addr) = Num(State.queue["Mem"], kind, addr) + 0
          BY DEF Pending
        <5>2. State.queue["Mem"] \in Seq(PacketSet("Mem"))
          BY DEF TimingInv, Typed, QueuesTyped, Levels
        <5>3. \A kind : Num(State.queue["Mem"], kind, addr) \in Nat
          BY <5>2, NumType
        <5>4. \A kind : Pending(State, "Mem", kind, addr) = Num(State.queue["Mem"], kind, addr)
          BY <5>1, <5>3
        <5>5. QED
          BY <3>1, <5>4 DEF ReadsBelow, InMem
      <4>2. QED
        BY <2>1, <3>1, <4>1 DEF WholeExact, Exact2
    <3>2. CASE c \in {"L1I", "L1D"}
      <4>1. ReadsBelow(State, c, addr) = InL2(State, 0, c, addr)
        BY <2>4, <3>2 DEF ReadsBelow, InL2, KindOf
      <4>2. Exact1(State, 0, c)
        BY <2>1, <3>2 DEF WholeExact, HalfExact
      <4>3. QED
        BY <4>1, <4>2 DEF Exact1
    <3>3. QED
      BY <3>1, <3>2 DEF Caches
  <2>6. QED
    BY <2>2, <2>5, EntriesAwaiting
<1>2. QED
  BY <1>1, TimingAlways, ExactAlways, PTL
===============================================================================
