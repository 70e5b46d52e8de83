SPECIFICATION FairSpec
CONSTANTS
  a = a
  b = b
  c = c
  Node = {a, b}
  None = None
  Peers <- Pair
  NextHop <- PairHop
  Concat <- Names
  Byz = {}
  Lossy = FALSE
  Duplicates = FALSE
  Trainer = {a}
  Trainings = 2
  Rounds = 2
  K = 2
PROPERTIES
  TrainingEnds
CHECK_DEADLOCK FALSE
