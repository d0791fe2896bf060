SPECIFICATION Spec
CONSTANTS
  k1 = k1
  k2 = k2
  Key = {k1, k2}
  NoParent = NoParent
  MaxCount = 2
  Trace1 = {s1, s2, s3}
  Trace2 = {t1, t2, t3}
  Catalog <- MCCatalog
SYMMETRY Symmetry
CHECK_DEADLOCK FALSE
INVARIANTS
  Mirrored
