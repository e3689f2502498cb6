CONSTANTS
  Modems = {m1}
SPECIFICATION GwSpec
INVARIANTS
  BlocksUntilCanceled
CHECK_DEADLOCK FALSE
