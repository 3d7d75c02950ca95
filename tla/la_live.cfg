CONSTANTS
  BufferSize = 8
  BuffersCnt = 4
  SeqMod = 17
  Env <- EnvExit
  ReadCounts = {1,8}
  LcdWidth = 2
SPECIFICATION FairSpec
CHECK_DEADLOCK FALSE
INVARIANTS
  NeverStranded
PROPERTIES
  Implements
  Completes
  StormEnds
