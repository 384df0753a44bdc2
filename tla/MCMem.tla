--------------------------------- MODULE MCMem ---------------------------------
(***************************************************************************)
(* Small instances of MemHierarchy for TLC.                                *)
(***************************************************************************)
EXTENDS MemProperties, Bitwise

MCBitAnd(a, b) == a & b

MCInitWord(a) == IF a \in TextWords THEN 1 ELSE 0

PerCache(l1i, l1d, l2) ==
  [c \in Caches |-> CASE c = "L1I" -> l1i [] c = "L1D" -> l1d [] c = "L2" -> l2]

OneEach == PerCache(1, 1, 1)
TwoEach == PerCache(2, 2, 2)
OneOneThree == PerCache(1, 1, 3)
OneOneTwo == PerCache(1, 1, 2)
OneTwoThree == PerCache(1, 2, 3)
ThreeEach == [c \in Levels |-> 3]
Staged == [c \in Levels |-> CASE c = "Mem" -> 2 [] OTHER -> 1]

\* Memory slow enough for a later miss to reach the L2 while an earlier is out.
Slow == [c \in Levels |-> CASE c = "Mem" -> 6 [] OTHER -> 1]

AllRandom == PerCache("Random", "Random", "Random")
AllLRU == PerCache("LRU", "LRU", "LRU")

\* Three blocks of text, then four of data; the last of each is not used.
MCRegions ==
  {[start |-> 0, size |-> 3 * BlkSize], [start |-> 3 * BlkSize, size |-> 4 * BlkSize]}

\* The core stays clear of a region's last block.
ASSUME CoverAssumption == RegionsCover
================================================================================
