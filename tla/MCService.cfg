CONSTANTS
  None = None
  Main = Main
  Dispatcher = Dispatcher
  Publishers = {p1}
  p1 = p1
  Subs <- MCSubs
  Raising = {1}
  MaxDepth = 2
  DrainLimit = 2
  MaxMessages = 3
  Topics <- MCTopics
  StatusTopic <- MCStatus
  Limits = {None, 0, 2}
SPECIFICATION FairServiceSpec
INVARIANTS ServiceTypeOK CleanExit IterationsBounded
PROPERTY StopRequestHonoured
CHECK_DEADLOCK FALSE
