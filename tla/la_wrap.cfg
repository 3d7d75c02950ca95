CONSTANTS
  BufferSize = 36
  BuffersCnt = 4
  SeqMod = 80
  Env <- EnvNone
  ReadCounts = {2}
  LcdWidth = 2
SPECIFICATION Spec
CHECK_DEADLOCK FALSE
INVARIANTS
  DeliversWindow
