SPECIFICATION FairSpec
CONSTANTS
  same = same
  slower = slower
  failing = failing
  Job = {j1, j2}
  NoJob = NoJob
  Traces = {same, slower}
  Result <- MCResult
  NoFile = NoFile
  NoExit = NoExit
  Killed = Killed
  InputsChange = TRUE
CHECK_DEADLOCK FALSE
INVARIANTS
  ReportsKept
  ErrorKeepsNothing
PROPERTIES
  Ends
