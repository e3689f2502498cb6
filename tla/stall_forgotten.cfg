CONSTANTS
  Ports = {m1}
  Sims = {i1}
  Tasks = {t1}
  Guarded = {}
  QueueCap = 1
  MaxAt = 0
  MaxBans = 0
  MaxStalls = 1
  MaxSwaps = 0
  MaxResets = 0
  MaxTerms = 0
  None = None
SPECIFICATION WorkersFair
PROPERTIES
  StallEndsWorker
