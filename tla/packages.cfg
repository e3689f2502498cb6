CONSTANTS
  MaxCmds = 2
  MaxUrcs = 2
  MaxSilent = 1
  MaxSlow = 1
  MaxIoErrors = 1
  MaxGarbled = 1
  LineCap = 2
  UrcChCap = 1
  PromptEndsLine = TRUE
  Callers = {c1,c2}
  Duration <- Durations
  Limit <- Limits
  MaxTime = 2
  MaxLimiters = 2
  MaxSends = 4
  Clients = {c1,c2}
  Threshold = 2
  MaxOutages = 1
  Keys = {k1}
  PerMin = 2
  Minute = 12
  Second = 2
  BucketTime = 16
  MaxPassed = 4
  Messages = {k1,k2,k3}
  Senders = {c1,c2}
  RingSize = 2
  Window = 1
  DedupTime = 1
  MaxAccepted = 4
  NoMessage = NoMessage
  MaxId = 2
  MaxPushes = 2
  MaxFaults = 2
  DlqSize = 2
  MaxLetters = 7
  MaxDrains = 3
  MaxAttempts = 3
  Probes = 2
  Patience = 3
  MaxFlaps = 3
  Files <- SomeFiles
  Env <- AnEnv
  MaxEdits = 3
  MaxSignals = 3
  Modems <- ModemPorts
  maxGSM7Chars = 16
  maxGSM7ConcatChars = 9
  maxUCS2Chars = 7
  maxUCS2ConcatChars = 4
  MaxOctets = 14
  MessagesSent <- SentMessages
  Messages8Bit <- OctetMessages
  CutBelow = 26
  MaxFailed = 3
  MaxRestarts = 1
SPECIFICATION PackagesSpec
INVARIANTS
  PackagesInv
  ResultIsTrue
  NewestUrcKept
  LimitsEnforced
  ClosedIffFewFailures
  RateIsKept
  KeptUntilReturned
  SlicesHold
  AppliedIsComplete
  BufferOutlivesUsers
  ActiveIsSetUp
  PartsCarryBody
  ReceivedIsSent
PROPERTIES
  NothingHangs
  BreakerRecovers
  SuppressesRepeats
  NotifyIsReliable
  SickIsFoundOut
  SignalIsFollowed
  ExitsWhenTold
  BackInService
CHECK_DEADLOCK FALSE
