CONSTANTS
  Ports = {m1}
  Sims = {i1}
  Tasks = {t1, t2}
  Guarded = {}
  QueueCap = 1
  MaxAt = 2
  MaxBans = 1
  MaxStalls = 0
  MaxSwaps = 0
  MaxResets = 1
  MaxTerms = 1
  None = None
SPECIFICATION WorkersFair
PROPERTIES
  BannedIsFinal
  AnsweredOrStranded
  Restarted
  ShutdownCompletes
CHECK_DEADLOCK FALSE
