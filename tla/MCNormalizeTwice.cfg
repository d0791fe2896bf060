SPECIFICATION Spec
CONSTANTS
  a = a
  b = b
  c = c
  outside = outside
  NoId = NoId
  Id = {a, b, c, outside}
  Root = Root
  External = External
  Label = {1, 2}
  Error = {timeout}
  Bucket = 2
  Before <- DigestBefore
  Inputs <- MCInputs
  Renamed <- MCRenamed
  Later <- MCLater
CHECK_DEADLOCK FALSE
INVARIANTS
  Canonical
