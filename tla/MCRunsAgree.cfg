SPECIFICATION Spec
CONSTANTS
  same = same
  slower = slower
  failing = failing
  Job = {j1}
  NoJob = NoJob
  Traces = {slower, failing}
  Result <- MCResult
  NoFile = NoFile
  NoExit = NoExit
  Killed = Killed
  InputsChange = TRUE
CHECK_DEADLOCK FALSE
INVARIANTS
  RunsAgree
