SPECIFICATION FairSpec
CONSTANTS
  a = a
  b = b
  c = c
  Node = {a, b, c}
  None = None
  Peers <- Triangle
  NextHop <- TriangleHop
  Concat <- Names
  Byz = {c}
  Lossy = FALSE
  Duplicates = FALSE
  Trainer = {a}
  Trainings = 1
  Rounds = 2
  K = 2
INVARIANTS
  WorkersUseCurrentWeights
  EachWorkerOnce
  RoundsAnswered
PROPERTIES
  TrainingEnds
  FloodDies
CHECK_DEADLOCK FALSE
