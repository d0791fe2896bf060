SPECIFICATION FairSpec
CONSTANTS
  a = a
  b = b
  c = c
  outside = outside
  NoId = NoId
  Id = {a, b, c, outside}
  Root = Root
  External = External
  Label = {1, 2}
  Error = {timeout}
  Bucket = 2
  Before <- DigestBefore
  Inputs <- MCInputs
CHECK_DEADLOCK FALSE
INVARIANTS
  RejectedIfMalformed
  SameTrace
  MatcherReady
PROPERTIES
  Returns
