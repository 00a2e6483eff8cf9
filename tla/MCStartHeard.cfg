SPECIFICATION StartSafety
INVARIANTS
  CloseRequestIsHeard
CHECK_DEADLOCK FALSE
