--------------------------- MODULE ExperienceRules ---------------------------
(***************************************************************************)
(* The pure rules of governed experience learning: what the distiller, the *)
(* reconciler, the evaluator and the curriculum planner compute.           *)
(*                                                                         *)
(* Abstractions.  A conclusion of an actor handoff is a claim: its topic   *)
(* stands for the normalised condition and action, its outcome for the     *)
(* normalised expected outcome.  A digest is collision free, so a memory   *)
(* snapshot is identified with the sequence of experiences it hashes, and  *)
(* an experience with the handoff and position its id is derived from.     *)
(***************************************************************************)
EXTENDS Naturals, Sequences, FiniteSets, Functions

CONSTANTS
  Handoff,          \* ids of the actor learning handoffs
  Topic,            \* normalised (condition, action) pairs
  Outcome,          \* normalised expected outcomes
  Kind,             \* experience kinds
  Conclusions,      \* the claims each handoff concludes with, in order
  Undistillable,    \* handoffs with a conclusion the distiller refuses
  SameSession       \* handoffs sealed by the session that did the work

Claim == [topic: Topic, outcome: Outcome, kind: Kind, causal: BOOLEAN]

ASSUME HandoffAssumption ==
  /\ Conclusions \in [Handoff -> Seq(Claim)]
  /\ \A h \in Handoff : Conclusions[h] # <<>>
  /\ Undistillable \subseteq Handoff
  /\ SameSession \subseteq Handoff

-----------------------------------------------------------------------------
(* Distillation: one candidate experience for each conclusion.             *)

Candidate(h, i) == <<h, i>>
Candidates(h)   == {Candidate(h, i) : i \in DOMAIN Conclusions[h]}
Experience      == UNION {Candidates(h) : h \in Handoff}
Source(e)       == e[1]
ClaimOf(e)      == Conclusions[e[1]][e[2]]

\* A conclusion with a missing or restricted part refuses the whole handoff.
Distillable(h)  == h \notin Undistillable

Memory  == Seq(Experience)
Genesis == <<>>

-----------------------------------------------------------------------------
(* Reconciliation of one candidate with the whole current snapshot.        *)

Operation == {"add", "qualify", "no_change"}

Signature(e) == <<ClaimOf(e).topic, ClaimOf(e).outcome, ClaimOf(e).kind>>

\* Fault: only the same candidate counts as a duplicate.
HasSameCandidate(m, e) == e \in Range(m)

HasDuplicate(m, e) == \E d \in Range(m) : Signature(d) = Signature(e)

HasConflict(m, e) ==
  \E d \in Range(m) : /\ ClaimOf(d).topic = ClaimOf(e).topic
                      /\ ClaimOf(d).outcome # ClaimOf(e).outcome

OperationFor(m, e) ==
  IF HasDuplicate(m, e) THEN "no_change"
  ELSE IF HasConflict(m, e) THEN "qualify" ELSE "add"

Revised(m, e) == IF HasDuplicate(m, e) THEN m ELSE Append(m, e)

ReconcileOne(m, e) ==
  [candidate |-> e, parent |-> m,
   operation |-> OperationFor(m, e), proposed |-> Revised(m, e)]

Revision == [candidate: Experience, parent: Memory,
             operation: Operation, proposed: Memory]

-----------------------------------------------------------------------------
(* Evaluation datasets.  plan = 0 is the bootstrap dataset, plan = n the   *)
(* dataset of the n-th curriculum of the revision; a case is named by the  *)
(* practice task it comes from, the bootstrap case by 0.                   *)

Case == [task: Nat, supports: BOOLEAN, counterexample: BOOLEAN,
         parentSucceeded: BOOLEAN, candidateSucceeded: BOOLEAN,
         negativeTransfer: BOOLEAN, mechanism: BOOLEAN]

Dataset == [plan: Nat, cases: SUBSET Case]

\* The author's own result is only a baseline: it supports nothing.
BootstrapCase ==
  [task |-> 0, supports |-> FALSE, counterexample |-> FALSE,
   parentSucceeded |-> TRUE, candidateSucceeded |-> TRUE,
   negativeTransfer |-> FALSE, mechanism |-> FALSE]

BootstrapDataset == [plan |-> 0, cases |-> {BootstrapCase}]

PracticeCase(run) ==
  [task |-> run.task, supports |-> run.passed, counterexample |-> ~run.passed,
   parentSucceeded |-> TRUE, candidateSucceeded |-> run.passed,
   negativeTransfer |-> ~run.passed, mechanism |-> FALSE]

-----------------------------------------------------------------------------
(* The independent evaluator.                                              *)

Decision == {"accepted", "rejected", "needs_experiment"}

Supporting(d)   == {c \in d.cases : c.supports}
Counters(d)     == {c \in d.cases : c.counterexample}
ParentWins(d)   == {c \in d.cases : c.parentSucceeded}
CandidateWins(d) == {c \in d.cases : c.candidateSucceeded}
Transfers(d)    == {c \in d.cases : c.negativeTransfer}

\* Fault: a supporting case is taken for support of the mechanism.
CausalWithoutSupport(e, d) ==
  ClaimOf(e).causal /\ ~ \E c \in d.cases : c.supports

UnsupportedCausal(e, d) ==
  ClaimOf(e).causal /\ ~ \E c \in d.cases : c.mechanism

Regresses(d) == Cardinality(CandidateWins(d)) < Cardinality(ParentWins(d))

\* negative_transfer > 0.01, with the rate over all cases of the dataset
TransfersTooOften(d) == 100 * Cardinality(Transfers(d)) > Cardinality(d.cases)

Concerns(e, d) ==
  {c \in {"no_support", "unsupported_causal", "regression",
          "negative_transfer", "counterexamples"} :
     \/ c = "no_support"         /\ Supporting(d) = {}
     \/ c = "unsupported_causal" /\ UnsupportedCausal(e, d)
     \/ c = "regression"         /\ Regresses(d)
     \/ c = "negative_transfer"  /\ TransfersTooOften(d)
     \/ c = "counterexamples"    /\ Counters(d) # {}}

Decide(e, d) ==
  IF Regresses(d) \/ TransfersTooOften(d) THEN "rejected"
  ELSE IF \/ Supporting(d) = {}
          \/ UnsupportedCausal(e, d)
          \/ Counters(d) # {} THEN "needs_experiment"
  ELSE "accepted"

Evaluate(e, d) ==
  [revision |-> e, dataset |-> d, decision |-> Decide(e, d),
   eligible |-> Decide(e, d) = "accepted" /\ Source(e) \in SameSession]

Evaluation == [revision: Experience, dataset: Dataset,
               decision: Decision, eligible: BOOLEAN]

-----------------------------------------------------------------------------
(* The broad curriculum: one task verifies every sealed claim, a second    *)
(* one searches for counterexamples when the evaluation has concerns.      *)

Task == {1, 2}

PracticeTasks(e, d) == IF Concerns(e, d) = {} THEN {1} ELSE {1, 2}
=============================================================================
