SPECIFICATION MembershipSpec
CONSTANTS
  s1 = s1
  NoProc = NoProc
  Proc = {p1}
  ServerID <- MCServerID
  IDOf <- MCIDOf
  AllowOverlap = TRUE
PROPERTIES
  LossIsNotified
CHECK_DEADLOCK FALSE
