SPECIFICATION Spec
CONSTANTS
  a = a
  b = b
  c = c
  Node = {a, b, c}
  None = None
  Text = {t1}
  PeerFlag <- Mesh
  Gui = {}
  DataRaces = TRUE
  MaxID <- OnlyA2
  MaxNet = 1
  MaxTasks = 1
SYMMETRY Symmetry
INVARIANTS
  NoRoutingLoop
  RelaysHaveRoutes
CHECK_DEADLOCK FALSE
