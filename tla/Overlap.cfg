CONSTANTS
  BlkSize = 2
  TextWords = {2, 3}
  DataWords = {6, 11}
  Values = {0, 1}
  InitWord <- MCInitWord
  BitAnd <- MCBitAnd
  NumSets <- OneOneTwo
  NumWays <- OneOneThree
  Policy <- AllRandom
  MshrEntries <- TwoEach
  MshrSubentries <- OneOneTwo
  Delay <- Slow
  Regions <- MCRegions
  QueueCap <- ThreeEach
  MaxFetches = 2
  NULL = NULL
SPECIFICATION Spec
INVARIANTS
  RequestsHeld
  OneEntryPerBlock
  LookupFailsOverlapped
PROPERTIES
  BehavesAsMemory
