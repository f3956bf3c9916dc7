CONSTANTS
  NaN = NaN
  Infinity = Infinity
  MinusInfinity = MinusInfinity
  FloatMax = 10000000
  LongestWait = 1000000
  Files = {"object", "not_object", "malformed", "missing", "unreadable"}
  KeySets <- MCKeySets
  JsonValues <- MCJsonValues
  TextValues <- MCTextValues
  MaxOverrides = 2
SPECIFICATION Spec
INVARIANTS TypeOK AcceptedIsHonoured LayersInOrder RejectedAsConfigError
CHECK_DEADLOCK FALSE
