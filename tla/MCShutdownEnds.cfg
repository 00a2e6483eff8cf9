SPECIFICATION ESSpec
CONSTANTS
  a1 = a1
  a2 = a2
  a3 = a3
  b1 = b1
  ua = ua
  ub = ub
  s1 = s1
  s2 = s2
  NoStream = NoStream
  NoServer = NoServer
  Stream = {a1, a2}
  User = {ua}
  Server = {s1}
  UserOf <- MCUserOf
  ServerOf <- MCServerOf
PROPERTIES
  ShutdownEnds
CHECK_DEADLOCK FALSE
