SPECIFICATION FairTrafficSpec
CONSTANTS
  Users = {u1}
  Conns = {c1}
  Managers = {m1}
  Storages = {s1, s2}
  NoUser = NoUser
  NoManager = NoManager
  NoStorage = NoStorage
  Admin = Admin
  MinTraffic = 1
  MaxBytes = 2
  MaxFaults = 1
INVARIANTS
  NothingLost
  NothingTwice
PROPERTY RetiredIsBilled
