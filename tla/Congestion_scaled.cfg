SPECIFICATION Spec
CONSTANTS
  Variants = {"TAHOE"}
  Word = 32
  MSS = 3
  PeerMSS = 3
  PacketSize = 2
  InitSSThresh = 14
  Scale = 2
  First = 2
  Total = 7
  Reordering = {}
  MaxAcks = 2
  MaxDup = 4
  MaxFaults = 2
INVARIANTS
  WindowHoldsSegment
CHECK_DEADLOCK FALSE
