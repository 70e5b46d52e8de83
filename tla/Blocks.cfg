SPECIFICATION MCSpec
CONSTANTS
  a = a
  b = b
  c = c
  d = d
  x = x
  y = y
  None = None
  Zero = Zero
  Node = {a, b}
  Block = {x1, x2, x3, x4}
  Peers <- Pair
  Miner = {a, b}
  Hops = 2
  NameNode = {a, b, c, d}
  Name = {x, y}
  NameHops = 3
  NamePeers <- Tailed
  Shares <- OneEach
  Racy = {a}
INVARIANTS
  MainIsChain
  ListInOrder
  SameBlocksSameLength
  NotedIsListed
  NamesSpread
PROPERTIES
  MainOnlyGrows
SYMMETRY Symmetry
CHECK_DEADLOCK FALSE
