SPECIFICATION ClusterSpec
CONSTANTS
  s1 = s1
  NoProc = NoProc
  Proc = {p1}
  ServerID <- MCServerID
  IDOf <- MCIDOf
  Gateway = {g1}
  MaxRev = 1
  AllowOverlap = FALSE
PROPERTIES
  DeadForgotten
  LeaveQuiesces
  DeadUnlisted
  ServingIsFound
CHECK_DEADLOCK FALSE
