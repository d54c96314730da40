CONSTANTS
  Versions = {v1, v2}
  Configs = {c1, c2}
  None = None
  Broken = Broken
  MaxJobs = 3
  MaxEdits = 1
  MaxTroubles = 3
SPECIFICATION FairSpec
PROPERTY ServiceComesBack
CHECK_DEADLOCK FALSE
INVARIANTS
  OldKernelSurvives
  ReportIsTrue
  RollbackGoesBack
  QueuedJobIsNotOvertaken
