CONSTANTS
  logs = logs
  cases = cases
  MountList <- MCMountList
  Period = 1
  Stall = 2
  LatencyWarn = 0
  LatencyFault = 1
  FreeWarn = 20
  FreeFault = 8
  FreeLevels <- MCFreeLevels
  Buffered = {logs}
  Conditions <- MCConditions
  Never = Never
  MaxAge = 3
SPECIFICATION Spec
INVARIANTS TypeOK OutageIsFault ProbeFileRemoved
PROPERTY ScanReports
