CONSTANTS
  logs = logs
  cases = cases
  MountList <- OneMount
  Period = 1
  Stall = 2
  LatencyWarn = 0
  LatencyFault = 1
  FreeWarn = 20
  FreeFault = 8
  FreeLevels <- OneFree
  Buffered = {logs}
  Conditions <- HungConditions
  Never = Never
  MaxAge = 3
SPECIFICATION FairSpec
PROPERTY ScanEnds
