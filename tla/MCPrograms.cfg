SPECIFICATION ProgramsSpec
CONSTANTS
  Request = {q1, q2}
INVARIANTS
  ProgramsTypeOK
  NoSenderBlocked
  NilMeansRequested
  ServicesClosedOnce
  PartsClosedOnce
  RequestsEndFirst
PROPERTIES
  ProcessExits
  GatewayStops
CHECK_DEADLOCK FALSE
