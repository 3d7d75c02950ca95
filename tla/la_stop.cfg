CONSTANTS
  BufferSize = 8
  BuffersCnt = 4
  SeqMod = 17
  Env <- EnvNone
  ReadCounts = {1}
  LcdWidth = 1
SPECIFICATION FairSpec
CHECK_DEADLOCK FALSE
PROPERTIES
  StopStops
