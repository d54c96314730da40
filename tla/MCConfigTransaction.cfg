CONSTANTS
  Main = Main
  Others = {route}
  Contents = {c1, c2}
  Empty = Empty
  Absent = Absent
  Broken = Broken
  MaxOps = 2
  MaxEdits = 1
  MaxTroubles = 2
SPECIFICATION FairSpec
INVARIANTS
  OriginalIsKept
  ReportIsTrue
PROPERTIES
  EditsAreNotOverwritten
  NoMixtureIsStarted
  ServiceComesBack
CHECK_DEADLOCK FALSE
