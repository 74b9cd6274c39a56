SPECIFICATION EventFairSpec
CONSTANTS
  Ep <- MCEp
  Load <- MCLoad
  EndFlag <- MCEndFlag
  ISS <- MCISS
  LoadA = 1
  LoadB = 0
  EndA = TRUE
  EndB = FALSE
  MaxSockets = 1
  MaxSynRetries = 2
  RcvWnd = 3
  MaxWindow = 2
  HdrLength = 3
  Delayed = FALSE
  MaxTimeWait = 3
  MaxInFlight = 4
  Lossy = FALSE
  GapA = 3
  GapB = 3
  Duplicating = FALSE
  Openers = {"a"}
PROPERTIES
  ConnectionCloses
CHECK_DEADLOCK FALSE
