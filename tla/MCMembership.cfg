SPECIFICATION RefreshSpec
CONSTANTS
  s1 = s1
  NoProc = NoProc
  Proc = {p1, p2}
  ServerID <- MCServerID
  IDOf <- MCIDOf
  AllowOverlap = TRUE
INVARIANTS
  MembershipTypeOK
  LeftStaysGone
  ListingIsLeased
PROPERTIES
  ImplementsDirectory
  RefreshHeals
CHECK_DEADLOCK FALSE
