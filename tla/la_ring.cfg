CONSTANTS
  BufferSize = 20
  BuffersCnt = 4
  SeqMod = 48
  Env <- EnvEarly
  ReadCounts = {1, 5}
  LcdWidth = 1
SPECIFICATION Spec
CHECK_DEADLOCK FALSE
INVARIANTS
  TypeOK
  HandlerOwnsBuffer
  WindowStable
  WindowExact
