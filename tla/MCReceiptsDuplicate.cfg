SPECIFICATION Spec
CONSTANTS
  r1 = r1
  r2 = r2
  r3 = r3
  i1 = i1
  Nobody = Nobody
  Runner = {r1, r2, r3}
  Input = {i1}
  InputOf <- SameInput
INVARIANTS
  RetriesDoNotDuplicate
CHECK_DEADLOCK FALSE
