---------------------------- MODULE NoxStateEngine ----------------------------
(***************************************************************************)
(* The NOX state engine as the two KEE workers see it (external code: what *)
(* is modelled is what the requests of experience/worker.py and            *)
(* experience/evolution_worker.py rely on): the experience event log, one  *)
(* variable per kind of event, and the active memory it alone changes.     *)
(*                                                                         *)
(* The log is append only.  An actor may have started its session under    *)
(* any memory that was ever active, so its handoff may arrive stale.       *)
(* The handoffs recorded to close practice runs (practice-handoffs) are    *)
(* written by the evolution worker and never read by either worker: they   *)
(* are not kept here.                                                      *)
(***************************************************************************)
EXTENDS ExperienceRules

VARIABLES
  active,            \* the memory NOX serves as active
  released,          \* every memory that was active so far (history)
  ready,             \* handoffs announced by experience.handoff_ready
  parentOf,          \* the parent memory each ready handoff is bound to
  distilled,         \* candidates of experience.distilled
  revisions,         \* experience.reconciled, in event order
  evaluations,       \* experience.evaluated
  curricula,         \* curriculum.planned: for each revision, the datasets of
                     \* the evaluations that were planned for, in event order
  practiceRuns,      \* practice.completed
  artifacts          \* memory.candidate_created

learningLog == <<distilled, revisions>>
practiceLog == <<curricula, practiceRuns>>
evolutionLog == <<evaluations, practiceLog, artifacts>>
governance  == <<active, released>>
intake      == <<ready, parentOf>>
noxVars     == <<governance, intake, learningLog, evolutionLog>>

PracticeRun == [revision: Experience, plan: Nat, task: Task, passed: BOOLEAN]
Artifact    == [parent: Memory, experiences: Memory, eligible: BOOLEAN]

NoxTypeOK ==
  /\ active \in Memory
  /\ released \subseteq Memory
  /\ ready \subseteq Handoff
  /\ parentOf \in [Handoff -> Memory]
  /\ distilled \subseteq Experience
  /\ revisions \in Seq(Revision)
  /\ evaluations \subseteq Evaluation
  /\ curricula \in [Experience -> Seq(Dataset)]
  /\ practiceRuns \subseteq PracticeRun
  /\ artifacts \subseteq Artifact

NoxInit ==
  /\ active = Genesis
  /\ released = {Genesis}
  /\ ready = {}
  /\ parentOf = [h \in Handoff |-> Genesis]
  /\ distilled = {}
  /\ revisions = <<>>
  /\ evaluations = {}
  /\ curricula = [e \in Experience |-> <<>>]
  /\ practiceRuns = {}
  /\ artifacts = {}

Batched(h) == \E e \in distilled : Source(e) = h
Pending    == {h \in ready : ~Batched(h)}

\* A terminal actor hands over, bound to the memory its session ran under.
HandoffReady(h) ==
  /\ h \notin ready
  /\ ready' = ready \cup {h}
  /\ \E m \in released : parentOf' = [parentOf EXCEPT ![h] = m]
  /\ UNCHANGED <<governance, learningLog, evolutionLog>>

\* The release pipeline activates a candidate that was frozen against the
\* memory that is active now.
Activate(a) ==
  /\ a.parent = active
  /\ active' = a.experiences
  /\ released' = released \cup {a.experiences}
  /\ UNCHANGED <<intake, learningLog, evolutionLog>>

\* The release pipeline rolls the active artifact back to its parent.
Rollback(a) ==
  /\ a.experiences = active
  /\ active' = a.parent
  /\ UNCHANGED <<released, intake, learningLog, evolutionLog>>

NoxNext ==
  \/ \E h \in Handoff : HandoffReady(h)
  \/ \E a \in artifacts : Activate(a) \/ Rollback(a)
=============================================================================
