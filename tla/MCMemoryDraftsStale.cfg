SPECIFICATION Spec
CONSTANTS
  o1 = o1
  o2 = o2
  d1 = d1
  d2 = d2
  Operator = {o1, o2}
  Draft = {d1, d2}
  Dreamed = {}
  Nothing = Nothing
PROPERTIES
  StaleDraftsAreRejected
CHECK_DEADLOCK FALSE
