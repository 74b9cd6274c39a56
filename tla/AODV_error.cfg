SPECIFICATION Spec
CONSTANTS
  a = a
  b = b
  c = c
  PFrom = a
  PTo = c
  QFrom = a
  QTo = c
  p = p
  q = q
  Node = {a, b, c}
  Link <- Line
  Packet = {p, q}
  Src <- MCSrc
  Dst <- MCDst
  NoRoute = NoRoute
  NoRequest = NoRequest
  TtlStart = 1
  TtlIncrement = 2
  TtlThreshold = 1
  NetDiameter = 3
  RreqRetries = 0
  RerrLimit <- EveryDrop
  MaxMoves = 1
  Expiring <- Never
  Moving <- BC
  Greeting = {}
PROPERTIES
  ErrorEndsUse
CHECK_DEADLOCK FALSE
