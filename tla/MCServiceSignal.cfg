CONSTANTS
  None = None
  Main = Main
  Dispatcher = Dispatcher
  Publishers = {}
  Subs <- MCSubs
  Raising = {1}
  MaxDepth = 1
  DrainLimit = 1
  MaxMessages = 1
  Topics <- MCTopics
  StatusTopic <- MCStatus
  Limits = {None}
SPECIFICATION FairServiceSpec
PROPERTY SignalStops
CHECK_DEADLOCK FALSE
