SPECIFICATION PartSpec
CONSTANTS
  None = None
  a = a
  b = b
  c = c
  d = d
  p = p
  loop = loop
  page = page
  search = search
  reply = reply
  x = x
  y = y
  Node = {a, b, c, d}
  Dest = d
  Peer <- TwoWay
  Packet = {p}
  HopLimit = 3
  MaxNews = 3
  Addr = {a, b, c}
  NoIndex = None
  Flags <- SomeFlags
  Caller = {loop, page, search, reply}
  Container = {"peers", "keywords", "processes"}
  Maps = {"keywords", "processes"}
  Scripts <- Programs
  Features <- Short
  Value <- Values
  Regularization = {"", "lasso"}
  Lambda = {2}
  MaxWeight = 4
  Units = 3
  Inputs = 2
  Batches <- SmallBatches
  Gradients <- SomeSlopes
  Weights = {1}
  Gamma = {1, 2}
  MaxPasses = 2
  MaxUpdates = 1
  Total = 6
  Probs <- SomeProbs
  Labels = {1, 2, 3}
  Scale = 12
INVARIANTS
  PeersInOrder
  IterSeesOneState
  StuckOnlyOnItself
  NeverStranded
  RevisitNeedsNews
  GradientsAreSlopes
PROPERTIES
  EveryoneGoesOn
  Arrives
  StepsLikeLayer
CHECK_DEADLOCK FALSE
