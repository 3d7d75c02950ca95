CONSTANTS
  ByteMod = 8
  ByteXor <- XorBits
  Wire = {5}
  Calls <- AllCalls
  Leftovers <- MidOrder
  Env <- NoEnv
SPECIFICATION FairSpec
CHECK_DEADLOCK FALSE
INVARIANTS
  TypeOK
  CallAnswered
  LineClean
  RaisesForAReason
PROPERTIES
  Resyncs
  CallEnds
