SPECIFICATION ESSpec
CONSTANTS
  a1 = a1
  a2 = a2
  a3 = a3
  b1 = b1
  ua = ua
  ub = ub
  s1 = s1
  s2 = s2
  NoStream = NoStream
  NoServer = NoServer
  Stream = {a1, a3}
  User = {ua}
  Server = {s1, s2}
  UserOf <- MCUserOf
  ServerOf <- MCServerOf
PROPERTIES
  ServedIsResolved
CHECK_DEADLOCK FALSE
