CONSTANTS
  Ports = {m1, m2}
  Sims = {i1, i2}
  Tasks = {t1, t2}
  Guarded = {m1}
  QueueCap = 1
  MaxAt = 1
  MaxBans = 0
  MaxStalls = 1
  MaxSwaps = 1
  MaxResets = 0
  MaxTerms = 0
  None = None
SYMMETRY TaskSymmetry
SPECIFICATION WorkersSpec
INVARIANTS
  WorkersInv
  OnePlace
  AnswersAreTrue
  RoutedToItsSim
  GaugeCoversRunning
PROPERTIES
  StaysReachable
