CONSTANTS
  WordSize = 8
  NumRegs = 3
  V0 = 2
  RA = 1
  ExitCode = 3
  StartPC = 0
  Alu <- MCAlu
  Mul <- MCMul
  btb_size = 1
  ras_size = 1
  CountMod = 4
  FetchCap = 6
  NULL = NULL
  BlkSize = 2
  NumSets <- MCNumSets
  NumWays <- MCNumWays
  Policy <- MCPolicy
  MshrEntries <- OneEach
  MshrSubentries <- TwoEach
  Delay <- MCDelay
  Regions <- MCRegions
  QueueCap <- MCQueueCap
  DataStart = 10
  TextWords <- MCTextWords
  DataWords <- MCDataWords
  Values <- OnlyZero
  InitWord <- Zero
  BitAnd <- MCBitAnd
  MaxFetches = 6
  CommandLines <- MCCommandLines
SPECIFICATION SysFairSpec
INVARIANTS
  NoAssertion
PROPERTIES
  SystemImplementsISA
  SystemKeepsExecuting
