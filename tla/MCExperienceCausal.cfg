SPECIFICATION Spec
CONSTANTS
  h1 = h1
  h2 = h2
  t1 = t1
  t2 = t2
  o1 = o1
  o2 = o2
  k1 = k1
  Handoff = {h1, h2}
  Topic = {t1, t2}
  Outcome = {o1, o2}
  Kind = {k1}
  Conclusions <- ChainedAndCausal
  Undistillable = {h2}
  SameSession = {h1}
  BatchSize = 2
INVARIANTS
  ReleasedMemoryVerified
  VerdictsNeverReverse
  FailuresAreFinal
PROPERTIES
  PracticeStopsAtVerdict
CHECK_DEADLOCK FALSE
