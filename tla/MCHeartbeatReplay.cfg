CONSTANTS
  None = None
  Main = Main
  Dispatcher = Dispatcher
  HandlerThreads = {Main, Dispatcher}
  p1 = p1
  p2 = p2
  PeerList <- OnePeer
  Strangers = {self}
  self = self
  QuorumSubject = quorum
  quorum = quorum
  Payloads = {0, 1}
  Malformed = Malformed
  QuorumMinLive = 1
  EmitPeriod = 1
  PeerTimeout = 2
  LoopPeriod = 3
  StepMax = 1
  BusMayDrop = FALSE
  MaxClock = 3
SPECIFICATION Spec
PROPERTY ReplayGuardHolds
CHECK_DEADLOCK FALSE
