SPECIFICATION Spec
CONSTANTS
  Proc = {p1, p2, p3}
  Path = {"input", "output"}
  Input = {"input"}
  Old = {trace, note}
  NoFile = NoFile
  Traces = {1, 2}
  Result <- MCResult
  NoExit = NoExit
  Killed = Killed
SYMMETRY Symmetry
CHECK_DEADLOCK FALSE
INVARIANTS
  InputsKept
  SuccessKept
  FailureLeavesNothing
PROPERTIES
  OnlyOwnFiles
