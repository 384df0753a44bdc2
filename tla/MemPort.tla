-------------------------------- MODULE MemPort --------------------------------
(***************************************************************************)
(* What the memory hierarchy promises the core, and what module Pipeline   *)
(* assumes of it: one memory, at most one load or store outstanding, and   *)
(* any number of fetches.  A request is answered once, in any later Tick;  *)
(* a load or a fetch brings the word's latest value and a store has taken  *)
(* effect when its answer comes.                                           *)
(***************************************************************************)
EXTENDS Naturals, Sequences, FiniteSets

CONSTANT NULL

VARIABLES
  mem,               \* the latest value of every word
  dataReq,           \* the load or store outstanding, or NULL
  fetches,           \* how many fetches of each word are outstanding
  answers            \* the answers of the last step, in order

portVars == <<mem, dataReq, fetches, answers>>

Count(a) ==
  Cardinality({i \in DOMAIN answers' :
                 answers'[i].type = "fetch" /\ answers'[i].addr = a})
DataAnswers == {i \in DOMAIN answers' : answers'[i].type # "fetch"}

Issue ==
  /\ answers' = <<>>
  /\ UNCHANGED mem
  /\ dataReq' = dataReq \/ dataReq = NULL
  /\ \A a \in DOMAIN fetches : fetches'[a] >= fetches[a]

Answer ==
  /\ \A i \in DOMAIN answers' :
       LET r == answers'[i]
       IN IF r.type = "fetch" THEN r.value = mem[r.addr]
          ELSE /\ dataReq # NULL
               /\ r.type = dataReq.type /\ r.addr = dataReq.addr
               /\ r.type = "load" => r.value = mem[r.addr]
  /\ \A a \in DOMAIN fetches : fetches[a] = fetches'[a] + Count(a)
  /\ IF DataAnswers = {} THEN UNCHANGED <<dataReq, mem>>
     ELSE /\ Cardinality(DataAnswers) = 1
          /\ dataReq' = NULL
          /\ mem' = IF dataReq.type = "store"
                    THEN [mem EXCEPT ![dataReq.addr] = dataReq.value] ELSE mem

PortNext == Issue \/ Answer
PortSpec == [][PortNext]_portVars
================================================================================
