SPECIFICATION Spec
CONSTANTS
  a = a
  b = b
  c = c
  Node = {a, b}
  None = None
  Text = {t1}
  PeerFlag <- Pair
  Gui = {}
  DataRaces = TRUE
  MaxID <- TwoAndOne
  MaxNet = 1
  MaxTasks = 1
PROPERTIES
  NextIDNeverDrops
CHECK_DEADLOCK FALSE
