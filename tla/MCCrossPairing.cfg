SPECIFICATION Spec
CONSTANTS
  k1 = k1
  k2 = k2
  Root = Root
  External = External
  MaxSpans = 4
  Semantic = {k1, k2}
  Traces <- MovedBranches
CHECK_DEADLOCK FALSE
INVARIANTS
  NoCrossPairing
