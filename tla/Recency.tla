-------------------------------- MODULE Recency --------------------------------
(***************************************************************************)
(* MemHierarchy with a history of the data cache's use, to say what its    *)
(* replacement policy promises.                                            *)
(***************************************************************************)
EXTENDS MCMem

VARIABLE recent      \* recent[set]: the blocks used last, the latest first

rvars == <<hvars, recent>>

\* The distinct blocks, the one just used in front, as many as the set has ways.
Used(order, b) ==
  LET all == <<b>> \o SelectSeq(order, LAMBDA x : x # b)
  IN IF Len(all) <= NumWays["L1D"] THEN all ELSE Front(all)

RInit == Init /\ recent = [set \in 0 .. (NumSets["L1D"] - 1) |-> <<>>]

\* A load or store uses its block when it is answered; there is one at a time.
RNext ==
  /\ Next
  /\ recent' =
       [set \in DOMAIN recent |->
          IF \E i \in DOMAIN answers' :
               answers'[i].type # "fetch" /\ getLocation("L1D", dataReq.addr).set = set
          THEN Used(recent[set], BlockOf(dataReq.addr)) ELSE recent[set]]

RSpec == RInit /\ [][RNext]_rvars

\* repl_policy.h: "Least Recently Used (LRU) replacement policy": the blocks of
\* a set used last, as many as it has ways, are the ones the cache holds.
LRUKeepsRecent ==
  Policy["L1D"] = "LRU" =>
    \A set \in DOMAIN recent : \A i \in DOMAIN recent[set] :
      Has("L1D", recent[set][i] * BlkSize)
================================================================================
