CONSTANTS
  ByteMod = 8
  ByteXor <- XorBits
  Wire = {5}
  Calls <- FewCalls
  Leftovers <- MidCommand
  Env <- NoEnv
SPECIFICATION Spec
CHECK_DEADLOCK FALSE
INVARIANTS
  InitCleans
