SPECIFICATION Spec
CONSTANTS
  Variants = {"OLDTAHOE", "TAHOE", "RENO", "NEWRENO"}
  Word = 20
  MSS = 3
  PeerMSS = 3
  PacketSize = 3
  InitSSThresh = 14
  Scale = 1
  First = 2
  Total = 8
  Reordering = {"NEWRENO"}
  MaxAcks = 2
  MaxDup = 4
  MaxFaults = 2
INVARIANTS
  TypeOK
  FlightFitsWindow
  WindowHoldsSegment
  LostSegmentResent
PROPERTIES
  RecoveryDeflates
  GrowsByAckedBytes
CHECK_DEADLOCK FALSE
