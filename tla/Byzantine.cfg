SPECIFICATION FairSpec
CONSTANTS
  s = s
  a = a
  b = b
  c = c
  Self = s
  Worker = {a, b, c}
  Known = {a, b, c}
  Byz = {c}
  F = 1
  Inf = 5
  LCOf <- Ranks
  Rounds = 5
  Trainings = 2
  Again = 1
  Late = 0
  Capacity = 1
INVARIANTS
  WindowsDistinct
  FirstTrainingSafe
PROPERTIES
  ByzantineBounded
  TrainingEnds
CHECK_DEADLOCK FALSE
