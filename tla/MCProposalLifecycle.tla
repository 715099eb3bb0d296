-------------------------- MODULE MCProposalLifecycle --------------------------
(* A small instance of ProposalLifecycle: one proposal that screening cannot  *)
(* fault, one that it must; a process in each mode.                           *)
EXTENDS ProposalLifecycle

CONSTANTS o1, o2, o3, p1, p2

Contents == [p \in Proposal |->
  [sound |-> TRUE, highRisk |-> TRUE, evidence |-> TRUE, conflicts |-> p = p2,
   observed |-> "passed"]]

Modes == [o \in Operator |-> IF o = o3 THEN "nox_adapter" ELSE "standalone"]
=============================================================================
