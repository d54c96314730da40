CONSTANTS
  Users = {u1}
  Conns = {c1, c2}
  Managers = {m1, m2, m3}
  NoUser = NoUser
  NoManager = NoManager
  Admin = Admin
SPECIFICATION Spec
INVARIANT
  RevokedUserHasNoConn
