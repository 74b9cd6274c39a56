SPECIFICATION Spec
CONSTANTS
  Ep <- MCEp
  Load <- MCLoad
  EndFlag <- MCEndFlag
  ISS <- MCISS
  LoadA = 2
  LoadB = 0
  EndA = TRUE
  EndB = FALSE
  MaxSockets = 1
  MaxSynRetries = 2
  RcvWnd = 3
  MaxWindow = 2
  HdrLength = 3
  Delayed = FALSE
  MaxTimeWait = 3
  MaxInFlight = 3
  Lossy = TRUE
  GapA = 10
  GapB = 10
  Duplicating = TRUE
  Openers = {"a"}
INVARIANTS
  TypeOK
  ExactlyOnceInOrder
  NothingForgotten
  QueuedHasTimer
  NoLostWakeup
PROPERTIES
  ImplementsStream
CHECK_DEADLOCK FALSE
