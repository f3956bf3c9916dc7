CONSTANTS
  Main = Main
  Dispatcher = Dispatcher
  Publishers = {p1}
  p1 = p1
  Topics <- MCTopics
  Subs <- MCSubs
  Raising = {1}
  MaxDepth = 2
  DrainLimit = 1
  MaxMessages = 3
SPECIFICATION FairSpec
INVARIANTS TypeOK Custody CountersNeverOverstate StopFlushes
PROPERTIES PromiseKept QueuedIsDispatched DispatcherExits
CHECK_DEADLOCK FALSE
