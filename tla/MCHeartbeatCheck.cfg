CONSTANTS
  None = None
  Main = Main
  Dispatcher = Dispatcher
  HandlerThreads = {Main, Dispatcher}
  p1 = p1
  p2 = p2
  PeerList <- TwoPeers
  Strangers = {self}
  self = self
  QuorumSubject = quorum
  quorum = quorum
  Payloads <- BareAndOne
  Malformed = Malformed
  QuorumMinLive = 2
  EmitPeriod = 1
  PeerTimeout = 2
  LoopPeriod = 3
  StepMax = 1
  BusMayDrop = FALSE
  MaxClock = 5
SPECIFICATION Spec
INVARIANTS TypeOK LossPublishedInTime BeaconOnTime SubscribersInformed
PROPERTIES LostOnlyIfSilent TransitionsOnly
CHECK_DEADLOCK FALSE
