SPECIFICATION Spec
CONSTANTS
  w1 = w1
  w2 = w2
  c1 = c1
  c2 = c2
  c3 = c3
  c4 = c4
  t1 = t1
  t2 = t2
  Writer = {w1, w2}
  Change = {c1, c2, c3, c4}
  Target = {t1, t2}
  TargetOf <- Targets
  None = None
SYMMETRY Interchangeable
INVARIANTS
  VersionsInv
  LatestIsActive
PROPERTIES
  ImplementsVersionLine
CHECK_DEADLOCK FALSE
