SPECIFICATION Spec
CONSTANTS
  o1 = o1
  o2 = o2
  d1 = d1
  d2 = d2
  Operator = {o1, o2}
  Draft = {d1, d2}
  Dreamed = {d1}
  Nothing = Nothing
SYMMETRY Interchangeable
INVARIANTS
  DraftsInv
  NothingLost
PROPERTIES
  ImplementsAtomicMemory
CHECK_DEADLOCK FALSE
