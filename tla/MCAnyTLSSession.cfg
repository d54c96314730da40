CONSTANTS
  Sessions <- MCSessions
  MaxSid = 2
  Window = 1
  Callers = {k1}
  Versions <- MCVersions
SPECIFICATION Spec
INVARIANTS
  SessionIsExclusive
  NoAnswerIsLost
  ClosedSessionHoldsNone
  ClosedClientKeepsNoSession
CHECK_DEADLOCK FALSE
