SPECIFICATION UsersSpec
CONSTANTS
  Handler = {h1, h2}
  Name = {n1, n2}
  Password = {w1, w2}
  ID = {i1, i2}
  NoRow = NoRow
INVARIANTS
  UsersTypeOK
  OneUserPerName
  ListMatchesSpan
PROPERTIES
  SilentUserForgotten
CHECK_DEADLOCK FALSE
