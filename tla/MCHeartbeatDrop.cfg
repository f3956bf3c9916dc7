CONSTANTS
  None = None
  Main = Main
  Dispatcher = Dispatcher
  HandlerThreads = {Main}
  p1 = p1
  p2 = p2
  PeerList <- TwoPeers
  Strangers = {self}
  self = self
  QuorumSubject = quorum
  quorum = quorum
  Payloads = {0}
  Malformed = Malformed
  QuorumMinLive = 2
  EmitPeriod = 1
  PeerTimeout = 2
  LoopPeriod = 3
  StepMax = 1
  BusMayDrop = TRUE
  MaxClock = 5
SPECIFICATION Spec
PROPERTY QuorumLossPublished
CHECK_DEADLOCK FALSE
