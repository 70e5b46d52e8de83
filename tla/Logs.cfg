SPECIFICATION FairSpec
CONSTANTS
  a = a
  b = b
  c = c
  Node = {a, b}
  None = None
  Text = {t1, t2}
  PeerFlag <- Pair
  Gui = {b}
  DataRaces = FALSE
  MaxID <- OnlyA2
  MaxNet = 1
  MaxTasks = 2
INVARIANTS
  CountMatchesLog
PROPERTIES
  RefinesRumorLog
  NextIDNeverDrops
  Converges
