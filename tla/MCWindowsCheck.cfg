SPECIFICATION FairSpec
CONSTANTS
  r1 = r1
  r2 = r2
  Run = {r1, r2}
  NoRun = NoRun
  Commands <- MCCommands
CHECK_DEADLOCK FALSE
INVARIANTS
  Contained
  CleanupTrue
  OneAtATime
  SuccessTrue
PROPERTIES
  RefusalTrue
  NothingSurvives
  Ends
