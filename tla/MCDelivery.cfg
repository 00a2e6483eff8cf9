SPECIFICATION DeliverySpec
CONSTANTS
  a1 = a1
  a2 = a2
  a3 = a3
  b1 = b1
  ua = ua
  ub = ub
  s1 = s1
  s2 = s2
  NoStream = NoStream
  NoServer = NoServer
  Stream = {a1,a2}
  User = {ua,ub}
  Server = {s1}
  NoUser = NoUser
  m1 = m1
  Message = {m1}
  AuthType = "jwtRSA"
  UserOf <- MCUserOf
  ServerOf <- MCServerOf
INVARIANTS
  DeliveryTypeOK
  NoLeakedHeart
  HeartHasHandler
  HandedWasCurrent
  HandedIsAudited
  AskedServedRecipient
PROPERTIES
  ImplementsMessenger
  RequestsEnd
  StoredHandlersReleased
  GoneServerForgotten
CHECK_DEADLOCK FALSE
