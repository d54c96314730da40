CONSTANTS
  Users = {u1, u2}
  BadUsers = {u2}
  NoUser = NoUser
  Protocols <- MCProtocols
  Sessions = {s1}
  Conns = {c1, c2}
SPECIFICATION FairSpec
INVARIANTS
  RevokedUserIsCut
  RecordsAgree
PROPERTIES
  RevokedConnIsSettled
  GateSpec
