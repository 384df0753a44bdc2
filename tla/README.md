# A TLA+ model of the CSE530 MIPS pipeline simulator

The program in `src/src` is a cycle-accurate simulator of a five-stage in-order
MIPS core with a branch predictor, split level 1 caches, a shared L2 and main
memory. This directory holds TLA+ modules of it, the TLC configurations that
check them, and TLAPS proofs about them. Line numbers refer to `src/src`.

## 1. The system

| Part | State | Operations | Talks to |
| --- | --- | --- | --- |
| `PipeState` (`pipe.cpp`) | five op slots, `PC`, `REGS`, `HI`, `LO`, the scheduled recovery, `RUN_BIT` | `pipeCycle`: write-back, memory, execute, decode, fetch, recovery; `recvResp` | sends packets to L1I and L1D, which call `recvResp` from their Ticks; calls the predictor |
| `DynamicBranchPredictor` | BTB (array of valid, PC, target), return address ring with next index and `uint8_t` count | `getTarget`, `predictTaken`, `update`, `pushRAS`, `popRAS` | called by fetch, decode and execute |
| `Cache` as L1I, L1D, L2 (`cache.cpp`) | blocks by set and way, MSHR entries with subentries, queue of pending packets | `recvReq`, `processCacheMiss`, `recvResp`, `writeBack`, `Tick`, `dumpRead` | requests go down and are queued; responses go up at once; a fill may send a write-back down |
| `BaseMemory` | regions of bytes, queue | `recvReq`, `Tick`, `dumpRead` | answers the L2 |
| replacement policies | LRU order, PLRU tree (of copies only) | `getVictim`, `update` (never called by the cache) | called by `recvResp` |
| `Simulator` | the clock | `cycle`, `run`, `go`, dumps | Ticks memory, L2, L1I, L1D, then `pipeCycle`, then the clock |
| shell, loader, configuration (`main.cpp`, `util.h`) | | commands | I/O |
| prefetcher, static predictor | | | empty, or never constructed |

The program has one thread. Its hard behaviours are those of hardware: five
stages of a cycle that act in reverse order on each other's outputs; requests
that are refused and offered again; answers that come many cycles later, to ops
flushed meanwhile; recoveries of two branches in one cycle; speculation that
must leave no trace; and in the hierarchy, misses, write-backs and evictions of
the same block in flight at the same time, with responses that run inside the
Tick of another component. `PROJECT.json` lists each such hazard at its line.

What makes the parts correct: the pipeline executes exactly the program
(`ImplementsISA`) and never stops short (`KeepsExecuting`); the predictor
says only what it was told; the hierarchy is one memory (`BehavesAsMemory`),
answers every request, and none of its assertions fails; and the two together,
loaded and clocked as the program does it, execute the program
(`SystemImplementsISA`, `SystemKeepsExecuting`, `NoAssertion`).

## 2. Modules

| Module | Models |
| --- | --- |
| `MIPS` | the instruction set: decode and arithmetic switches, as operators |
| `ISA` | abstract specification: one whole instruction per step |
| `BranchPredictor` | BTB and return address stack: state and operators |
| `Predictor` | the predictor called in any order, with a history of what it was told |
| `Pipeline` | the core: one action per path through each stage function |
| `PipelineProperties` | its properties, the refinement mapping to `ISA`, fairness |
| `MemPort` | abstract specification of the hierarchy, as the core sees it |
| `MemHierarchy` | the three caches and memory: one action per Tick |
| `MemProperties` | its properties and the mapping to `MemPort` |
| `System` | the whole simulator: loader, `Simulator::cycle`, the core on the caches |
| `SystemProperties` | its properties: `PipelineProperties` over the hierarchy's latest values |
| `Recency` | the hierarchy with a history of use, for the LRU policy |
| `Assembly` | instructions to write programs in |
| `MCPipeline`, `MCMem`, `MCSystem` | small instances |
| `PredictorProofs`, `PipelineProofs` | proofs about the core and its predictor |
| `FoldInduction` | what a fold over a sequence preserves, for any length |
| `MemEffects`, `MemProofs`, `MemCopies`, `MemCoherence`, `MemInclusion` | proofs about the hierarchy: the functions of the code; the Ticks and the specification; where a block's copies are; the values; what the L2 holds |

`System` extends `MIPS`, `MemHierarchy` and its properties and instantiates
`Pipeline` as `Pipe`; `SystemProperties` instantiates `PipelineProperties`. `Pipeline`
and `Predictor` extend `BranchPredictor`; `PipelineProperties` instantiates `ISA`,
`MemProperties` instantiates `MemPort`.

**Pipeline and the code.** A cycle is the sequence of values of `stage`: in
`"tick"` the Ticks may answer any requests, in any order (`LoadResp`,
`StoreResp`, `FetchResp`: the cases of `recvResp`), and `EndTick` calls
`pipeCycle`; then one action each for `pipeStageWb`, `Mem`, `Execute`, `Decode`
and `Fetch`, which are the code's early returns and cases (for example
`MemEmpty`, `MemDone`, `MemIssue`, `MemWait`), and the recovery. The op slots
are records, `NULL` for a null pointer. The caches are the environment: they
take or refuse a request and hold at most one load or store (`dataReq`: the
core never has two) and a number of fetches per address (`fetchReqs`: flushed
ones are still answered). `prog` and `mem` are the text and data as the
hierarchy answers them; that the hierarchy does so is what `MemPort` states and
module `MemHierarchy` is checked for.

Abstractions: a word is a number below `WordSize` and the unit of address, so
byte and half-word accesses are whole words; R-type and I-type arithmetic is the
constant operator `Alu`, multiplication and division `Mul`; HI and LO are one
register. `Pipe_Op.stall` is left out, because it is only ever nonzero after the
op has left the stage that counts it down, and so are the statistics counters.
Text and data are disjoint (no self-modifying programs: the L1I has no
coherence with the L1D). `pipeStageExecute` runs only with `mem_op` null and
`pipeStageMem` only with `wb_op` null, so the forwarding paths from those slots
in the code can never be taken; the model keeps the path from `wb_op` to
Execute.

**MemHierarchy and the code.** `recvReq` only queues; `recvResp` runs at once,
inside the caller's Tick, and may recurse: L2 fill, L1 fill, L1 write-back into
the L2's queue. A Tick is therefore one action over the whole state, built from
operators that take the state as a record and return it, named after the
functions. The loops of the code are folds over the queue or the entry they walk
(`Process`, `ServeL1`, `ServeL2`, `ServeMem`), so that what one turn does can be
reasoned about. `Entries` are the valid MSHR entries for an address, `Matching` the
search of `processCacheMiss`, `Takes` its result and `processCacheMiss` its effect when that is
true; `ReadyFirst` is what `std::partition` leaves.
`phase` is the order of calls in `Simulator::cycle`. Ready times are
relative to the clock; a delay is at least 1. Memory adds its delay to the ready
time the packet was copied with, which is the current cycle because a cache
processes a packet in the cycle it is ready (`MemTypeOK`: no ready time is
negative). An assertion that fails ends the program: `abort` says which. Two undefined
behaviours are nondeterministic outcomes, `abort = "useafterfree"`: the
queue's clean-up reads packets deleted in the same Tick (`reused`), and
`std::for_each` walks a vector to which a nested call may append. `getVictim` is
the choice each policy makes in a full set: any way for random, and way 0 for LRU
and PLRU, whose order and trees are only changed in copies. Memory has the program's
regions: `getMemRegion` keeps the strict `<`, and a request outside them is a failed
assertion. `getLocation` masks the block number where `getAddress` multiplies, as the
code does; the mask is the constant operator `BitAnd`, which the instances give
as the bitwise and, and `MaskAssumption` is the condition under which the two agree (power-of-two
set counts), which the code does not check.

**System and the code.** The state is the union of the other two models' states. A
text word of `store` is an instruction. `loadProgram` and `initialize` write the images into it,
every file at the same address. In a cycle, `Answered` is one of the four Ticks
with `recvResp` applied to what it answers, in order; `Step` is a stage that asks
nothing of the caches; `AskData`, `AskAgain` and `AskNext` are the stages that offer a
packet, `recvReq`'s answer being `Room`; `Clock` is the end of `pipeCycle` with
`currCycle++`. The guards and assignments of the core are those of `Pipeline`'s
actions, conjoined: nothing of the core is modelled twice except `recvResp`, which
here takes packets in place of a choice of the environment, and fails its assertion
(`invalidResp`) when a store's answer is not for the address in `mem_op`. The actions of
`Pipeline` that the environment takes on its own (`LoadResp`, `StoreResp`,
`FetchResp`) are not used.

A definition named as a mutant in its comment belongs to no specification: it
is a plausible bug which the property named in `PROJECT.json` must notice.

## 3. Runs

Passing:

| Run | Instance | Shows |
| --- | --- | --- |
| `pipeline_control` | 4 words, 3 registers, all 512 programs of three slots over eight control instructions, BTB and RAS of one entry; 7.2M states, about 2 minutes | `TypeOK`, `DecodeHasSuccessor`, `OwnInstruction`, `BTBOnlyBranches`, `ImplementsISA` |
| `pipeline_data` | 8 words, 1024 programs of loads, stores, arithmetic, HI/LO moves; 1.8M states | `DataAnswerHasOwner`, `NoLostRequest`, `WbValueReady`, `NoOverwrite`, `ImplementsISA` |
| `pipeline_live` | four programs, three of which loop or may loop | `KeepsExecuting` |
| `predictor` | BTB 2, ring 2, count modulo 5, 3 addresses; 372k states | `PTypeOK`, `BTBUnique`, `BTBFaithful`, `BTBRemembers`, `RASNewest` |
| `hierarchy` | one text and two data blocks of two words, L1s of one block, an L2 of two sets of two ways, one MSHR entry each (two subentries in the L2), two fetches in flight; 259k states | `BehavesAsMemory`, `DataAnswered`, `FetchesAnswered`, `MshrEntryFound`, `MshrExact`, `RequestPerEntry`, `WriteBackAccepted`, `RegionsRespected`, `QueuesSorted`, `MemTypeOK` |
| `overlap` | two text words and two data blocks, an L2 that holds all the blocks, two MSHR entries each and a memory delay of 6, so that misses overlap; 696k states, about a minute | `RequestsHeld`, `OneEntryPerBlock`, `LookupFailsOverlapped`, `BehavesAsMemory` |
| `system` | core and hierarchy: 8 text and 8 data words in two-word blocks, 136 command lines, an L1I of two ways under LRU, an L1D of one way, an L1I delay of 2 and level 1 queues of one request; 211k states, about a minute | `SystemImplementsISA`, `NoAssertion`, `SystemKeepsExecuting` |

Disagreements between the code and what it, or its documents, say:

| Run | Property violated | Cause |
| --- | --- | --- |
| `mshr_lookup` | `MshrEntryFound` | `cache.cpp:303` assigns instead of comparing, so an answer serves MSHR entry 0 |
| `inclusion` | `Inclusive` | an L2 eviction does not invalidate the level 1 copy (readme: inclusive policy) |
| `dump` | `DumpIsLatest` | `dumpRead` does not look at write-backs in flight |
| `removal` | `ServicedRemoved` | the clean-up of a queue reads packets that were deleted |
| `recency` | `LRUKeepsRecent` | `LRURepl` rotates a copy of its order (and `update` is never called): it always evicts way 0 |

The first, third and fourth were also reproduced with the simulator built
from this source: overlapping misses end in the `no MSHR entry found` assertion; a dump right
after a dirty eviction with `access_delay_l2` 20 prints the old value; and an address
sanitizer reports the read of a deleted packet.

Two more, seen in single steps of the code and checked by no run: `popRAS` is called
for JALR and not for JR, where the readme (line 37) asks for returns; and HI and LO are
written in Execute, so after the exit call `registerDump` may show what a MULT behind
the call has computed (`archHILO` is the value without it).

**One MSHR entry or several.** Line 303 serves the first MSHR entry, whichever block has
arrived. Requests take the first free entry, so that entry is the right one until
a miss has taken another: `Overlapped` (an entry after the first is in use; as
nothing ever releases it, this lasts). The program always runs with 8 by 2 and 32 by 8,
because `main.cpp` never loads the MSHR keys of the configuration, and misses overlap in it when,
for instance, a fetch misses in the L2 while a load is in memory. What follows then is not only the
assertion of `mshr_lookup`. When the first entry was released and taken again, for
another block, before the second answer comes, that answer is put in the other block's place
and no assertion fails: a load is answered with the text word of an older fetch. If
it is a store that waited, the L1D holds, dirty, a block the L2 does not have; its
write-back misses, waits in the L2 as a write packet, and its answer fails `cache.cpp:340`,
although the L2 has evicted nothing. Both happen in the instance of `overlap`, whose memory
delay of 6 leaves time for them (there, with a delay of 2, neither does); TLC finds the wrong load when
`Overlapped'` is taken out of `BehavesAsMemory`, which is why it is there.

So the properties are of two kinds. `RequestsHeld` and `OneEntryPerBlock` hold
whatever line 303 does, also after wrong data: the core's requests are neither lost
nor doubled and misses of a block share an entry. `BehavesAsMemory`, `MshrExact`,
`RequestPerEntry` and `LookupFailsOverlapped` hold until misses overlap. `overlap` has
two entries per cache and checks both kinds. `hierarchy` has one entry in each cache: there
no miss ever overlaps, and every other mechanism (retries, write-backs, evictions, flushed
fetches, subentries) runs to the end of every behaviour. What a hierarchy with several entries
would do with a comparison at line 303 is checked by no run.

The L2 of `hierarchy` evicts, and an eviction of a block an L1 holds leads to the assertion at
`cache.cpp:340` (`"writeanswer"`): its properties say what holds until an assertion
fails or the heap is corrupted. `system` has one MSHR entry and an L2 with room for every
block for these two reasons, and continues past the use after free only as long as
it has no effect. What it adds is the core and the hierarchy together; it says nothing of
inclusion, which with one MSHR entry only an eviction in the L2 breaks.

**Bounds.** `FetchCap` and `MaxFetches` bound the fetches in flight: a flushed
fetch of the same address and a live one already meet with 2. A BTB and a ring of one
entry make both full at once; `Predictor` has two of each. `CountMod` (256 in
the program) is small so that the count wraps; in `predictor` it is no multiple of
the ring's size, the harder case. `WordSize` 4 gives branches forward, backward and to 0;
8 leaves room for a chain of four instructions, longer than any forwarding
distance. `QueueCap` is 3 (100 in the program): the tightest with
which a write-back always finds room; 2 is not enough. Delays of 1 in the caches and 2 (in `overlap` 6) in
memory keep a packet in each queue for different times; two data blocks with one
L1D way make every change of block an eviction. Two-word blocks of which the core
accesses the first word of one and the second of the other show the offset and the
merging of a store into its block.

In `system` a queue of one request makes the L1I refuse a fetch behind an
abandoned one (the L1D never refuses: the core has one load or store at a time);
the L1I's delay of 2 lets a flush overtake an answer; the programs load and store in the
same and in different blocks of a one-way data cache, so that blocks are evicted dirty and
fetched again. A program is a counter, two slots of any of eight instructions (so every pair
meets), a load, and an end that loops or makes the exit call; in eight of the command
lines a second file overwrites the counter.

**Fairness.** `system`: `SysFairSpec` assumes only that `Simulator::go` goes on
calling `cycle`: unless the machine stops, steps of `Cycle` go on being taken. It is weak
fairness of `Cycle`, written without ENABLED because every step of it changes `stage` or `phase`
and one is always enabled (deadlock is checked). Nothing is assumed of the
caches, which makes it the check of the fairness that `pipeline_live` assumes:
there, `Simulator::go` runs the stages without fail
(`WF` of the cycle); a refused request is offered again every cycle and taken once
the queue has room, and the caches answer every request after finitely many Ticks,
but the answer is not possible in every state in between, hence strong fairness
of the acceptances and answers. That the caches deserve it is what
`DataAnswered` and `FetchesAnswered` check. `hierarchy`: `Running` says that
`phase` keeps moving until the program aborts, which is weak fairness of `Next`
written without ENABLED, since `Next` always moves `phase`.

**Deadlock** is checked in every run. `Halted` and `Aborted` are stuttering
actions: a run that has ended stays ended.

## 4. Proofs

For all values of the constants satisfying the named assumptions (word size, number
of registers, programs, table sizes, all timings of the environment):

* `PredictorProofs`: `PTypeCorrect`, `UniqueEntries`, `Faithful`, `Remembers`,
  `NewestCall`. `BTBFaithful` is not inductive: `getTarget` reads the first entry of a PC,
  so an older duplicate could come to light when the first is cleared. The invariant
  `BTBInv` adds uniqueness and says of every valid entry that it agrees with what its
  branch was last told. `RASNewest` speaks of the top of the ring only; `RASInv` says of
  each of the newest calls, as far back as both the count and the ring reach, in which slot it
  is, so that a pop uncovers the right one. When the `uint8_t` count wraps to 0 it
  holds of nothing, and of one call more after each push. It begins with the
  lemmas on `First` (the least index exists, by well-foundedness of < on Nat),
  `update` and the ring, which `PipelineProofs` uses too.
* `PipelineProofs`: `TypeCorrect`, `AnswersOwned`, `DecodeSafe`,
  `InstructionsOwn`, `RequestsKept`, `ForwardedExists`. The invariant is built in three
  layers. `TypeInv` is typing with `DataAnswerHasOwner`: `recvResp` writes through
  `mem_op`, so typing needs to know that an answer finds one. `FrontInv` adds
  `FreshOps`: an op before the memory stage has never been offered to the data
  cache, else a later stage would take its flags for its own. `BackInv` adds
  `ValuesReady`: where a value is produced, by stage and kind. Each layer is
  preserved given the ones before it, one step per action.
* `PipelineProofs` ends with `Refinement` (`Spec => ImplementsISA`), `BTBBranches`, `SlotsKept`.
  The first is the main result: every step of the pipeline is one instruction of
  `ISA`, the exit call, or changes nothing that `ISA` sees. It needs four more layers.
  `StageInv` says where in the cycle ops and recoveries can be (a Decode recovery only while
  its branch is in `execute_op`, an Execute recovery only while its is in `mem_op`).
  `OpsInv` says what an op carries before and after decode. `PathInv` says that the
  PCs behind an op are those of the instructions that follow it, up to
  the recovery that is scheduled: at a non-branch they are sequential, which needs
  that the BTB holds branches only (`BranchesInv`), and behind `mem_op` they are one of its
  successors. `ValueInv` says that the operands of the op in `mem_op` are the
  registers as the older instructions leave them, although one of those may still be in
  `wb_op`, and that its result is what `ISA` computes; a store's value is that of its
  register when the request was taken. `AnswerCommits`, `DoneCommits` and `OthersStutter`
  then map the three kinds of step.

* `MemProofs`: `QueuesAreSorted`, `RegionsAreRespected`, `TypesAreKept`, `RequestsAreHeld`,
  `BlocksHaveOneEntry`, for every geometry, policy, delay, queue and MSHR size and any
  number of requests, with several misses outstanding and whatever assertion is
  about to fail. (`RegionsAreRespected` has the hypothesis `RegionsCover`, that every
  block the core uses has a region: the code's strict `<` denies a region its last block.)
  A Tick is a fold of folds over queues and MSHR entries. `FoldInduction` proves,
  by induction on the length, that a fold keeps what one of its steps keeps; its step, base and
  invariant are constant operators, so each fold of the hierarchy is an instance.
  `MemEffects` begins with the lemmas on addresses (`getAddress` undoes `getLocation`, which needs
  `MaskAssumption`), queues and MSHR entries, and then says for each function of the
  code, from `writeBack` up to `CacheTick` and `MemTick`, what it does to each part of the
  state, as a relation between the state before and after; `MemProofs` draws the
  conclusions for the actions. There are two layers of invariant.
  `TimingInv` is typing with the order of the queues. `QueuesSorted` is not inductive
  alone: `processCacheMiss` puts a packet off by writing its ready time in place, and the order survives
  only because every packet then ready is either served or put off to the same
  time, and because no packet behind is due before the next cycle; that a
  packet's ready time is at most its level's delay is in its type.
  `RequestsInv` says of each address how often it is in the queue and in the
  subentries of its level 1 cache, and that the valid MSHR entries have different
  addresses. Within a Tick `RequestsHeld` is broken: while the i-th ready packet is
  processed, the ones before it are still in the queue although some have moved to an
  MSHR. `Live` counts the others, and `Counting` is the relation that each turn keeps.

  `EntriesAreFound`, `AwaitedBlocksAreAbsent` and `RequestsArePerEntry` hold until misses
  overlap, for any number of MSHR entries: the program's 8 and 32 too. The
  invariant is `Alone(State) => Sound(State, 0)`; that a step which starts with misses overlapping
  ends so (`OverlappedStays`) and that within a Tick nothing wrong is done before the
  second entry is taken are what the number of entries adds. None of the three is inductive alone: that an answer finds its entry
  needs that there is one read below for each entry that waits, and that reads below
  match the entries needs that an answer has one. `WholeExact` is the three together, for
  both sides of the L2: `HalfExact` for the level 1 caches (the reads in the L2's
  queue or waiting in its entry are those they wait for, and their blocks are absent), `Exact2`
  for memory's queue. `Sound` is that or an abort of another kind. Within a fill of the L2
  `Exact2` is suspended, because the request is gone from memory's queue and the entry is still
  valid, and within the L2's Tick the count of its queue runs over what is `Live`. `Answering`
  and `Asks` are the two ways a step changes a count and an entry together.

* `MemCoherence`: `BehavesAsOneMemory` (`Spec => BehavesAsMemory`), the
  refinement of `MemPort` and the main result on the hierarchy: for every geometry, number of
  MSHR entries, policy, delay, queue size and sequence of requests it gives each load the
  value last stored, until an assertion fails or misses overlap.
  `Memory`, the refinement mapping, reads each word where the newest copy is. The proof
  gives it a name that does not depend on places: `CoherentInv` says that there is an
  image `m` of memory with which the copies of every line `Agree`. With *hidden* short for
  "L1D's copy is dirty, or a write-back of the line waits in the L2's queue or MSHR":
  a copy in L1D is `m`'s, and no write-back of the line waits at the L2; a write-back at
  the L2 is `m`'s; a copy in the L2 is `m`'s or hidden, and then no write-back of the line
  waits at memory; a write-back at memory is `m`'s or hidden; if nothing is hidden, the L2
  is clean and no write-back waits at memory, the store is `m`'s; a copy in L1I is `m`'s.
  That is not inductive alone. A line must be in at most one way of a cache, a packet that
  waits in an entry must be for the entry's line, and a write-back of a line must be ahead
  of the reads of it in the L2's queue and in memory's, for a read that overtakes
  it would bring the old copy up (`Shaped`); and whatever is in the L1D must be
  the core's one request (`Owned`).
  Inside a Tick the order is the delicate part: the L2 puts a packet off by writing its ready
  time, and a read passes no write-back of its line only because whatever was put off is
  of a line that is absent and that the MSHR does not take (`PutOffs`), and both stay so
  until the Tick ends.
  `MemCopies` proves what keeps the agreement when packets are answered, move or a block is
  put in a cache; `MemCoherence` takes one packet of each Tick, then the Ticks. `Right`
  carries image, order and answers through the folds: after the k-th packet
  the copies agree with the image `After` the answers given, of which a Tick of the hierarchy
  gives at most one for data. At rest `m` is `Memory`, so a Tick is an `Answer` of
  `MemPort` or a stutter, and the core's cycle an `Issue`.

* `MemInclusion`: `WriteBacksAccepted`. Its hypothesis `Ample` is about the L2: no more
  blocks in a set than it has ways (`L2HoldsAll`), and room for four packets in its queue
  (100 in the program). For any level 1 caches and numbers of MSHR entries it then refuses
  no write-back until misses overlap. The proof goes by what such an L2 keeps until then: it
  holds every line of L1I's and L1D's copies.
  That is not inductive: a write-back that the L1D has sent must still find its block,
  or it waits in the L2's entry as a write, keeps the entry from the read that would follow it and
  is answered. `Included` adds the lines of the write-backs in the L2's queue, and that only reads
  wait in its entry. That a fill of the L2 finds a free way is a count: the ways
  of a set that are valid hold different blocks of the set, of which the new one is none
  (`FreeWay`, by cardinality). That a write-back finds room needs the order of the queue:
  the L1D asks for a line after it has sent the last victim and sends the next one
  only when it is answered, so at most one write-back is left, ahead of its load, and none
  while the load waits in the entry (`Turns`). Between Ticks the queue then holds at most a
  fetch, a load and a write-back (`RoomAtRest`: the counts of the reads come from `WholeExact`); `Room`
  keeps the place for the victim through the folds. Both are carried with `Right`,
  packet by packet.

The assumptions are those of the modules: nonempty word and register ranges, `Alu`
and `Mul` return words, `NULL` is no op and no request, tables are not empty.
`Instruction` says which fields the decode switch can give together (a branch has a
condition; only JR and JALR are of kind `"jumpreg"`).

With these, every safety property of the runs of `Pipeline` and `Predictor` is proved.

So is every safety property of the passing runs of `MemHierarchy`, `RegionsRespected` and
`WriteBackAccepted` under the hypotheses above; what implies `MshrEntryFound` is `LookupFailsOverlapped`,
since with one entry in each cache no misses overlap.
(`hierarchy` checks `WriteBackAccepted` with an L2 that evicts and a queue of three, which
no theorem covers.)

Only model-checked are, of `System`, `SystemImplementsISA` and `NoAssertion`. `System` composes the two components by sharing
their variables; the theorems on `Pipeline` and `MemHierarchy` are about the components'
specifications, and to lift them needs that every step of the composition is one of each.
Liveness (`KeepsExecuting`, `SystemKeepsExecuting`, `DataAnswered`, `FetchesAnswered`) stays with TLC:
the prover handles neither fairness nor ENABLED.

## 5. Not modelled

* Bytes and half-words: an access is a whole word. LB, LH, SB and SH pick bytes of it.
* Block sizes of 256 bytes and more: `Block` takes a `uint8_t`; this is below
  the level of the model.
* Access delays of 0: a write-back sent during the receiver's Tick would be
  ready when the Tick ends, and dropped. `HierarchyAssumption` excludes them.
* Set counts that are no power of two (`MaskAssumption`), as above.
* In `System`: fetches that speculation sends outside the text (the words of an
  address space are all in it), and data in text blocks or text in data blocks: the L1I has no
  coherence with the L1D, and self-modifying programs would see it.
* The shell. `run n` is `go` cut short: it counts cycles, where `help` says
  instructions. `input`, `high` and `low` write registers between cycles at the
  user's will; dumps print (what `memDump` reads is `DumpRead`). The configuration file's parsing.
* The prefetcher (empty) and the static predictor (never constructed), statistics,
  debug output.
* `RAS_next` is a `uint8_t` too: in a ring of more than 256 slots it would wrap before the
  ring does, together with `RAS_count`, so nothing observes it. The model leaves it out.
* A taken branch to address 0 has an arbitrary successor in `ISA`, because the code
  uses `branch_dest = 0` as the mark "already taken" and does not check it.

## 6. What could come next

**From the components to `System`.** A refinement of `MemHierarchy!Spec` and of `Pipeline`'s by
`System` would lift the theorems, and with both refinements give `SystemImplementsISA`.

**Larger instances** of `system` (an L2 with evictions, once the inclusion finding is
repaired; several MSHR entries, once line 303 is), and delays of 0 as a finding of
their own.
