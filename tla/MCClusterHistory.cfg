SPECIFICATION ClusterSafety
CONSTANTS
  s1 = s1
  NoProc = NoProc
  Proc = {p1, p2}
  ServerID <- MCServerID
  IDOf <- MCIDOf
  Gateway = {}
  MaxRev = 1
  AllowOverlap = FALSE
INVARIANTS
  AdvertisedWhileLeased
  OneListingInterval
CHECK_DEADLOCK FALSE
