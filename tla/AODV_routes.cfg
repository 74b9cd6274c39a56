SPECIFICATION Spec
CONSTANTS
  a = a
  b = b
  c = c
  PFrom = a
  PTo = c
  QFrom = a
  QTo = b
  p = p
  q = q
  Node = {a, b, c}
  Link <- Triangle
  Packet = {p, q}
  Src <- MCSrc
  Dst <- MCDst
  NoRoute = NoRoute
  NoRequest = NoRequest
  TtlStart = 1
  TtlIncrement = 2
  TtlThreshold = 1
  NetDiameter = 3
  RreqRetries = 0
  RerrLimit <- EveryDrop
  MaxMoves = 1
  Expiring <- BforC
  Moving <- AC
  Greeting = {}
INVARIANTS
  TypeOK
  SequenceNumbersIssued
  InOnePlace
  NoLoop
CHECK_DEADLOCK FALSE
