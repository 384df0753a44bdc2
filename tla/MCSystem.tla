-------------------------------- MODULE MCSystem --------------------------------
(***************************************************************************)
(* Small instances of System for TLC.                                      *)
(***************************************************************************)
EXTENDS SystemProperties, Assembly, Bitwise

MCBitAnd(a, b) == a & b

PerCache(l1i, l1d, l2) == [L1I |-> l1i, L1D |-> l1d, L2 |-> l2]

MCNumSets == PerCache(1, 1, 2)
MCNumWays == PerCache(2, 1, 4)
MCPolicy == PerCache("LRU", "LRU", "Random")
OneEach == PerCache(1, 1, 1)
TwoEach == PerCache(2, 2, 2)
MCQueueCap == [L1I |-> 1, L1D |-> 1, L2 |-> 4, Mem |-> 3]
MCDelay == [L1I |-> 2, L1D |-> 1, L2 |-> 1, Mem |-> 2]

MCTextWords == Word
MCDataWords == {DataAddress(a) : a \in Word}

\* The loader decides what a word is.
Zero(a) == 0
OnlyZero == {0}

\* One unused block after the text and one after the data.
MCRegions ==
  {[start |-> 0, size |-> WordSize + BlkSize],
   [start |-> WordSize + BlkSize, size |-> WordSize + BlkSize]}

\* Two instructions of any kind in a loop that loads and stores, or that ends.
\* A second file may replace the first word, and so the operand of the call.
Slot == {lw(1, 2, 1), sw(1, 2, 0), sw(2, 0, 3), beq(1, 2, 1), bgezal(2, 1),
         jal(5), jr(1), mult(2, 1)}
Program(one, two, end) == <<addi(2, 2, 3), one, two, lw(1, 0, 3), end>>
MCCommandLines ==
  {<<Program(one, two, end)>> : one \in Slot, two \in Slot, end \in {j(0), syscall}}
    \cup {<<Program(one, one, syscall), <<addi(2, 2, 5)>>>> : one \in Slot}

\* The core stays clear of a region's last block.
ASSUME CoverAssumption == RegionsCover
================================================================================
