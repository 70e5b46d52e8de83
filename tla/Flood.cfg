SPECIFICATION FairSpec
CONSTANTS
  a = a
  b = b
  c = c
  r1 = r1
  r2 = r2
  None = None
  Node = {a, b, c}
  Peers <- Triangle
  Routes <- AllRoutes
  Round = {r1, r2}
  Org <- ByAandC
  Budget <- TwoFive
  Holders = {c}
  Lossy = TRUE
INVARIANTS
  BudgetKept
PROPERTIES
  FloodEnds
CHECK_DEADLOCK FALSE
