CONSTANTS
  None = None
  EmitPeriod = 2
  PeerTimeout = 4
  PollGap = 1
  Lateness = 1
  MaxDelay = 1
  MayLose = TRUE
  MayCrash = TRUE
  MayBeBare = TRUE
  MaxClock = 12
SPECIFICATION Spec
INVARIANTS TypeOK DeadPeerIsLost LateIsNotLost RestartIsOvercome
CHECK_DEADLOCK FALSE
