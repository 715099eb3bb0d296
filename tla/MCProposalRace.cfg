SPECIFICATION Spec
CONSTANTS
  o1 = o1
  o2 = o2
  o3 = o3
  p1 = p1
  p2 = p2
  Nothing = Nothing
  Earlier = Earlier
  Operator = {o1, o2}
  Proposal = {p1, p2}
  Verdict = {"pass", "fail"}
  Direct = {o1}
  Mode <- Modes
  ContentOf <- Contents
PROPERTIES
  OnlyApprovedIsApplied
CHECK_DEADLOCK FALSE
