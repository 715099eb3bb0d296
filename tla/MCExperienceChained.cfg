SPECIFICATION Spec
CONSTANTS
  h1 = h1
  h2 = h2
  t1 = t1
  t2 = t2
  o1 = o1
  o2 = o2
  k1 = k1
  Handoff = {h1, h2}
  Topic = {t1, t2}
  Outcome = {o1, o2}
  Kind = {k1}
  Conclusions <- ChainedAndEquivalent
  Undistillable = {}
  SameSession = {h1}
  BatchSize = 2
INVARIANTS
  LifecycleInv
  ArtifactsExtendReleasedMemory
  NoEquivalentExperiences
  BatchesAreWhole
  BatchesAreIsolated
PROPERTIES
  ImplementsGovernedMemory
CHECK_DEADLOCK FALSE
