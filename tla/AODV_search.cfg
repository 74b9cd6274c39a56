SPECIFICATION FairSpec
CONSTANTS
  a = a
  b = b
  c = c
  PFrom = a
  PTo = c
  QFrom = c
  QTo = a
  p = p
  q = q
  Node = {a, b, c}
  Link <- Line
  Packet = {p}
  Src <- MCSrc
  Dst <- MCDst
  NoRoute = NoRoute
  NoRequest = NoRequest
  TtlStart = 1
  TtlIncrement = 2
  TtlThreshold = 3
  NetDiameter = 4
  RreqRetries = 1
  RerrLimit <- EveryDrop
  MaxMoves = 1
  Expiring <- Never
  Moving <- BC
  Greeting = {b}
INVARIANTS
  WaitingIsSearched
PROPERTIES
  WaitingEnds
CHECK_DEADLOCK FALSE
