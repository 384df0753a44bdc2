CONSTANTS
  BlkSize = 1
  TextWords = {1}
  DataWords = {3, 4, 5}
  Values = {0, 1}
  InitWord <- MCInitWord
  BitAnd <- MCBitAnd
  NumSets <- OneEach
  NumWays <- OneTwoThree
  Policy <- AllLRU
  MshrEntries <- OneEach
  MshrSubentries <- TwoEach
  Delay <- Staged
  Regions <- MCRegions
  QueueCap <- ThreeEach
  MaxFetches = 1
  NULL = NULL
SPECIFICATION RSpec
INVARIANTS
  LRUKeepsRecent
