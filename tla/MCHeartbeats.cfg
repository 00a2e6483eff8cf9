SPECIFICATION HeartbeatsSpec
CONSTANTS
  Second = 2
  ClientLatency = 19
  HeartLatency = 18
INVARIANTS
  HeartbeatsTypeOK
  RecordKept
PROPERTY
  CloseEndsWaiting
