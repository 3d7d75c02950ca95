CONSTANTS
  ByteMod = 8
  ByteXor <- XorBits
  Wire = {5}
  Calls <- FewCalls
  Leftovers <- MidOrder
  Env <- Slow
SPECIFICATION Spec
CHECK_DEADLOCK FALSE
INVARIANTS
  NoStaleAnswer
