CONSTANTS
  MaxCmds = 1
  MaxUrcs = 0
  MaxSilent = 0
  MaxSlow = 0
  MaxIoErrors = 0
  MaxGarbled = 0
  LineCap = 2
  UrcChCap = 1
  PromptEndsLine = FALSE
SPECIFICATION SerSpec
INVARIANTS
  NoPromptIsTrue
CHECK_DEADLOCK FALSE
