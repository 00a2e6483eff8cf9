SPECIFICATION RegistrySpec
CONSTANTS
  p1 = p1
  p2 = p2
  q1 = q1
  s1 = s1
  s2 = s2
  NoProc = NoProc
  Proc <- MCProc
  ServerID <- MCServerID
  IDOf <- MCIDOf
  Gateway = {g1}
  MaxRev = 5
INVARIANTS
  RegistryTypeOK
  ReflectsRevision
PROPERTIES
  ImplementsReplica
  CatchesUp
CHECK_DEADLOCK FALSE
