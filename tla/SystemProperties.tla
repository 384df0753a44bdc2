---------------------------- MODULE SystemProperties ----------------------------
(***************************************************************************)
(* What the whole simulator promises the program it runs.                  *)
(***************************************************************************)
EXTENDS System

\* The core as its properties see it: a data word is its latest value, wherever
\* that is.
Whole == INSTANCE PipelineProperties WITH
           Programs <- Images, InitMem <- [a \in Word |-> 0],
           prog <- text, mem <- [a \in Word |-> Latest(DataAddress(a))],
           dataReq <- dataReqSeen, fetchReqs <- fetches

\* With real caches for its memory the machine still executes exactly the
\* instructions of the program that was loaded, each with its effect on the
\* registers and on the latest value of each word, wherever that value is: a
\* fetch or a load never brings what a store, an eviction or a fill has made old.
SystemImplementsISA == Whole!ImplementsISA

\* No assertion fails, while the L2 has room for every block and each cache works
\* on one miss: the hierarchy's, for the requests this core makes, nor the core's,
\* that a store's answer is for the address in mem_op.
NoAssertion == abort \in {"none", "useafterfree"} /\ ~invalidResp

\* An instruction commits when it has its answer, or leaves the memory stage.
Commit == Whole!MemPending /\ ~Whole!MemPending'

\* The machine never stops short of the exit call: only that Simulator::go goes
\* on calling cycle is assumed, nothing of when the caches answer.
SystemKeepsExecuting ==
  <>(Whole!archHalted \/ Failed) \/ []<><<Commit>>_mem_op
================================================================================
