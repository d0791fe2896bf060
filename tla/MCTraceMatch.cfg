SPECIFICATION FairSpec
CONSTANTS
  k1 = k1
  k2 = k2
  Key = {k1, k2}
  NoParent = NoParent
  MaxCount = 2
  BaseTrace = {b1, b2, b3}
  CandTrace = {c1, c2, c3}
  Catalog <- MCCatalog
CHECK_DEADLOCK FALSE
INVARIANTS
  EachTraceOnce
  NoBlockingPair
PROPERTIES
  ImplementsVerdict
  Returns
