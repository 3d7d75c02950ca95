CONSTANTS
  BufferSize = 4
  BuffersCnt = 4
  SeqMod = 1
  Env <- EnvAny
  ReadCounts = {1}
  LcdWidth = 1
SPECIFICATION Spec
CHECK_DEADLOCK FALSE
INVARIANTS
  DmaInBounds
