SPECIFICATION Spec
CONSTANTS
  Variants = {"NEWRENO"}
  Word = 32
  MSS = 3
  PeerMSS = 3
  PacketSize = 3
  InitSSThresh = 14
  Scale = 1
  First = 2
  Total = 10
  Reordering = {}
  MaxAcks = 1
  MaxDup = 6
  MaxFaults = 2
INVARIANTS
  NewRenoResends
CHECK_DEADLOCK FALSE
