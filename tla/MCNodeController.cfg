SPECIFICATION MCSpec
CONSTANTS
  u1 = u1
  n1 = n1
  Users = {u1, u2}
  basic = basic
  family = family
  fast = fast
  Plans <- MCPlans
  SpeedOf <- TwoSpeeds
  Configs = {n1, n2, n3}
  Absent = Absent
  NoConfig = NoConfig
  NoList = NoList
  MaxChanges = 2
  MaxFaults = 2
  MayRevert = FALSE
INVARIANTS
  ServedUsersAreLimited
  SpeedIsEnforced
  FailedReloadKeepsOld
  AcceptedIsServed
PROPERTY Converges
CHECK_DEADLOCK FALSE
