CONSTANTS
  BlkSize = 2
  TextWords = {2}
  DataWords = {6, 11}
  Values = {0, 1}
  InitWord <- MCInitWord
  BitAnd <- MCBitAnd
  NumSets <- OneOneTwo
  NumWays <- OneOneTwo
  Policy <- AllRandom
  MshrEntries <- OneEach
  MshrSubentries <- OneOneTwo
  Delay <- Staged
  Regions <- MCRegions
  QueueCap <- ThreeEach
  MaxFetches = 2
  NULL = NULL
SPECIFICATION FairSpec
INVARIANTS
  MemTypeOK
  WriteBackAccepted
  RegionsRespected
  QueuesSorted
  MshrExact
  RequestPerEntry
  MshrEntryFound
PROPERTIES
  DataAnswered
  FetchesAnswered
  BehavesAsMemory
