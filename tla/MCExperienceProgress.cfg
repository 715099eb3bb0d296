SPECIFICATION ProgressSpec
CONSTANTS
  h1 = h1
  h2 = h2
  t1 = t1
  o1 = o1
  o2 = o2
  k1 = k1
  MaxRollouts = 2
  PageSize = 1
  Handoff = {h1, h2}
  Topic = {t1}
  Outcome = {o1, o2}
  Kind = {k1}
  Conclusions <- RivalHandoffs
  Undistillable = {}
  SameSession = {h1}
  BatchSize = 1
  MaxFailures = 1
INVARIANTS
  RunsCountOnce
PROPERTIES
  RolloutsAreObserved
  HandoffsAreLearned
  RevisionsAreDecided
  AcceptedIsFrozen
CHECK_DEADLOCK FALSE
