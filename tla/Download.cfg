SPECIFICATION FairSpec
CONSTANTS
  a = a
  b = b
  f = f
  g = g
  o1 = o1
  o2 = o2
  ChunkSize = 2
  Word = 16
  Byte = {1}
  Node = {a, b}
  File = {f, g}
  None = None
  Order = {o1, o2}
  By <- ByA
  Of <- OfFG
  From <- FromB
  Content <- Sharing
  Owner <- OwnerB
  MaxEarly = 1
  Before = {g}
  Lossy = TRUE
  DiskFails = FALSE
INVARIANTS
  WholeFile
PROPERTIES
  ImplementsFetch
  DownloadEnds
CHECK_DEADLOCK FALSE
