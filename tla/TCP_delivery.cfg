SPECIFICATION FairSpec
CONSTANTS
  Ep <- MCEp
  Load <- MCLoad
  EndFlag <- MCEndFlag
  ISS <- MCISS
  LoadA = 2
  LoadB = 0
  EndA = FALSE
  EndB = FALSE
  MaxSockets = 1
  MaxSynRetries = 2
  RcvWnd = 3
  MaxWindow = 2
  HdrLength = 3
  Delayed = TRUE
  MaxTimeWait = 3
  MaxInFlight = 2
  Lossy = TRUE
  GapA = 3
  GapB = 3
  Duplicating = FALSE
  Openers = {"a"}
PROPERTIES
  DataDelivered
CHECK_DEADLOCK FALSE
