SPECIFICATION Spec
CONSTANTS
  Ep <- MCEp
  Load <- MCLoad
  EndFlag <- MCEndFlag
  ISS <- MCISS
  LoadA = 2
  LoadB = 1
  EndA = TRUE
  EndB = TRUE
  MaxSockets = 2
  MaxSynRetries = 2
  RcvWnd = 3
  MaxWindow = 2
  HdrLength = 3
  Delayed = FALSE
  MaxTimeWait = 2
  MaxInFlight = 2
  Lossy = TRUE
  GapA = 2
  GapB = 10
  Duplicating = TRUE
  Openers = {"a"}
INVARIANTS
  ExactlyOnceInOrder
  AckedWasDelivered
  QueuedHasTimer
  NoDataLostAtClose
  TimeWaitTimerHasSocket
PROPERTIES
  FollowsDiagram
  NeverBackwards
CHECK_DEADLOCK FALSE
