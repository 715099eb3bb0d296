SPECIFICATION Spec
CONSTANTS
  o1 = o1
  o2 = o2
  o3 = o3
  p1 = p1
  p2 = p2
  Nothing = Nothing
  Earlier = o1
  Operator = {o1, o3}
  Proposal = {p1, p2}
  Verdict = {"pass", "fail"}
  Direct = {o1}
  Mode <- Modes
  ContentOf <- Contents
INVARIANTS
  ProposalsInv
  KnowledgeIsApproved
PROPERTIES
  ImplementsApprovalGate
CHECK_DEADLOCK FALSE
