SPECIFICATION FairSpec
CONSTANTS
  p = p
  q = q
  f = f
  g = g
  s1 = s1
  s2 = s2
  m1 = m1
  m2 = m2
  None = None
  Peer = {p, q}
  File = {f, g}
  Search = {s1, s2}
  Matches <- OverlapMatch
  Start <- TwoAndThree
  Limit = 4
  Count <- Chunks
  Holds <- Parts
  Meta <- SameFiles
  MaxTasks = 2
  MaxAnswers = 4
INVARIANTS
  FoundIsWhole
  AnswerFindsChannel
PROPERTIES
  SearchEnds
CHECK_DEADLOCK FALSE
