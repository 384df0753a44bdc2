CONSTANTS
  BlkSize = 1
  TextWords = {1}
  DataWords = {3, 5}
  Values = {0, 1}
  InitWord <- MCInitWord
  BitAnd <- MCBitAnd
  NumSets <- OneEach
  NumWays <- OneOneTwo
  Policy <- AllRandom
  MshrEntries <- OneOneTwo
  MshrSubentries <- TwoEach
  Delay <- Staged
  Regions <- MCRegions
  QueueCap <- ThreeEach
  MaxFetches = 2
  NULL = NULL
SPECIFICATION Spec
INVARIANTS
  DumpIsLatest
