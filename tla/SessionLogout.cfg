CONSTANTS
  User = {u1, u2}
  Name = {n1, n2}
  Email = {e1, e2}
  Token = {t1, t2}
  Worker = {w1, w2}
  Operation = {"register", "login", "get", "logout"}
  NoUser = NoUser
  NoRow = NoRow
  NoToken = NoToken
  NoName = NoName
  NoEmail = NoEmail
SPECIFICATION Spec
SYMMETRY Symmetry
INVARIANT LogoutIsFinal
CHECK_DEADLOCK FALSE
