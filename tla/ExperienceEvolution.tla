------------------------- MODULE ExperienceEvolution -------------------------
(***************************************************************************)
(* The independent evolution worker (experience/evolution_worker.py): one  *)
(* process per tenant and domain that reads the event log and walks over   *)
(* the revisions in event order.  Each is evaluated, practised in a        *)
(* sandbox when evidence is missing, and frozen into a candidate artifact  *)
(* once it is accepted and the active memory is the one it revises.        *)
(*                                                                         *)
(* The worker is the only writer of the events of evolutionLog, so what it *)
(* read of them at the start of a cycle and appended since is the log      *)
(* itself; of the learner's events it only knows the first `horizon`       *)
(* revisions.  Every POST is an action; EvolutionAborts, before or after   *)
(* one, drops the cycle's local state, as an exception or a restart does.  *)
(***************************************************************************)
EXTENDS NoxStateEngine

VARIABLES
  worker,    \* what the worker is doing
  horizon,   \* the number of revisions in the events it has read
  position,  \* the revision it is at
  plan,      \* the curriculum that is practised
  task,      \* the next practice task of that curriculum
  verdict,   \* the verdict of the handoff the practice runner returned
  base       \* the memory read before freezing

evolutionVars == <<worker, horizon, position, plan, task, verdict, base>>

EvolutionTypeOK ==
  /\ worker \in {"idle", "scanning", "practising", "closing", "freezing"}
  /\ horizon \in 0..Len(revisions)
  /\ position \in 0..horizon
  /\ worker # "idle" => position > 0
  /\ worker = "closing" => task \in Task
  /\ plan \in Nat
  /\ task \in Nat
  /\ verdict \in BOOLEAN
  /\ base \in Memory

EvolutionInit ==
  /\ worker = "idle"
  /\ horizon = 0
  /\ position = 0
  /\ plan = 0
  /\ task = 0
  /\ verdict = FALSE
  /\ base = Genesis

EvolutionStops ==
  /\ worker' = "idle"
  /\ horizon' = 0
  /\ position' = 0
  /\ plan' = 0
  /\ task' = 0
  /\ verdict' = FALSE
  /\ base' = Genesis

\* On to the next revision of the loop, or out of it.
NextRevision ==
  IF position < horizon
  THEN /\ worker' = "scanning"
       /\ position' = position + 1
       /\ plan' = 0
       /\ task' = 0
       /\ verdict' = FALSE
       /\ base' = Genesis
       /\ UNCHANGED horizon
  ELSE EvolutionStops

-----------------------------------------------------------------------------
(* What the worker derives from the events.                                *)

This == revisions[position]

\* artifact_revisions: an evaluated revision whose candidate is frozen.
Frozen(e) ==
  /\ \E v \in evaluations : v.revision = e
  /\ \E a \in artifacts : e \in Range(a.experiences)

Skipped(r) ==
  \/ r.operation = "no_change"
  \/ Frozen(r.candidate)
  \/ r.candidate \notin distilled

RunsOf(e, n)  == {run \in practiceRuns : run.revision = e /\ run.plan = n}
TasksOf(e, n) == PracticeTasks(e, curricula[e][n])

\* Fault: a curriculum is complete once one of its tasks has run.
CompleteOnAnyRun(e, n) == RunsOf(e, n) # {}

Complete(e, n) == {run.task : run \in RunsOf(e, n)} = TasksOf(e, n)

FirstComplete(e, n) ==
  /\ n \in DOMAIN curricula[e]
  /\ Complete(e, n)
  /\ \A k \in DOMAIN curricula[e] : k < n => ~Complete(e, k)

PracticeDataset(e, n) ==
  [plan |-> n, cases |-> {PracticeCase(run) : run \in RunsOf(e, n)}]

\* Fault: the latest complete curriculum is evaluated.
LatestDatasetOf(e) ==
  LET complete == {n \in DOMAIN curricula[e] : Complete(e, n)}
  IN IF complete = {} THEN BootstrapDataset
     ELSE PracticeDataset(e, CHOOSE n \in complete : \A k \in complete : k <= n)

\* The dataset of the first complete curriculum, else the bootstrap one.
DatasetOf(e) ==
  IF \E n \in DOMAIN curricula[e] : FirstComplete(e, n)
  THEN PracticeDataset(e, CHOOSE n \in DOMAIN curricula[e] : FirstComplete(e, n))
  ELSE BootstrapDataset

\* The evaluation on record for the dataset the worker has now.
Evaluated(e) == \E v \in evaluations : v.revision = e /\ v.dataset = DatasetOf(e)

EvaluationOf(e) ==
  CHOOSE v \in evaluations : v.revision = e /\ v.dataset = DatasetOf(e)

AcceptedOf(e) ==
  {v \in evaluations : v.revision = e /\ v.decision = "accepted"}

\* The curriculum planned for the evaluation with dataset d, if there is one.
PlansFor(e, d) == {n \in DOMAIN curricula[e] : curricula[e][n] = d}

-----------------------------------------------------------------------------
(* The cycle.                                                              *)

\* GET experience-events, page by page.
ReadEvents ==
  /\ worker = "idle"
  /\ Len(revisions) > 0
  /\ worker' = "scanning"
  /\ horizon' = Len(revisions)
  /\ position' = 1
  /\ UNCHANGED <<plan, task, verdict, base, noxVars>>

Skip ==
  /\ worker = "scanning"
  /\ Skipped(This)
  /\ NextRevision
  /\ UNCHANGED noxVars

\* POST experience-evaluations.
PostEvaluation ==
  /\ worker = "scanning"
  /\ ~Skipped(This)
  /\ ~Evaluated(This.candidate)
  /\ evaluations' = evaluations
       \cup {Evaluate(This.candidate, DatasetOf(This.candidate))}
  /\ UNCHANGED <<evolutionVars, governance, intake, learningLog,
                 practiceLog, artifacts>>

\* Fault: every evaluated revision is practised, whatever the decision.
ToAnyExperiment(e) ==
  /\ worker = "scanning"
  /\ ~Skipped(This)
  /\ e = This.candidate
  /\ Evaluated(e)

ToExperiment(e) ==
  /\ worker = "scanning"
  /\ ~Skipped(This)
  /\ e = This.candidate
  /\ Evaluated(e)
  /\ EvaluationOf(e).decision = "needs_experiment"

\* POST curriculum-plans.
PostCurriculum(e) ==
  /\ ToExperiment(e)
  /\ PlansFor(e, DatasetOf(e)) = {}
  /\ curricula' = [curricula EXCEPT ![e] = Append(@, DatasetOf(e))]
  /\ UNCHANGED <<evolutionVars, governance, intake, learningLog, evaluations,
                 practiceRuns, artifacts>>

\* Fault: the first task of the curriculum is left out.
BeginAtSecondTask(e) ==
  /\ ToExperiment(e)
  /\ worker' = "practising"
  /\ plan' \in PlansFor(e, DatasetOf(e))
  /\ task' = 2
  /\ UNCHANGED <<horizon, position, verdict, base, noxVars>>

BeginPractice(e) ==
  /\ ToExperiment(e)
  /\ worker' = "practising"
  /\ plan' \in PlansFor(e, DatasetOf(e))
  /\ task' = 1
  /\ UNCHANGED <<horizon, position, verdict, base, noxVars>>

\* Tasks of the curriculum that had no completed run when the loop began.
AtTask(t) ==
  /\ worker = "practising"
  /\ t = task
  /\ t \in TasksOf(This.candidate, plan)

\* Fault: a failed run does not count, the task is run again.
Passed(t) ==
  \E run \in RunsOf(This.candidate, plan) : run.task = t /\ run.passed

Practised(t) == \E run \in RunsOf(This.candidate, plan) : run.task = t

\* The task has a run, or the practice runner has no result yet.
PassOver(t) ==
  /\ AtTask(t)
  /\ task' = t + 1
  /\ UNCHANGED <<worker, horizon, position, plan, verdict, base, noxVars>>

\* The practice runner returns a sealed, reconstructed handoff and the
\* worker POSTs it as practice handoff. Only then does complete_run compare
\* it with the run: if it is bound to another task or memory, the cycle ends.
RunnerAnswers(t) ==
  /\ AtTask(t)
  /\ ~Practised(t)
  /\ worker' = "closing"
  /\ verdict' \in BOOLEAN
  /\ UNCHANGED <<horizon, position, plan, task, base, noxVars>>

RunnerMisbinds(t) ==
  /\ AtTask(t)
  /\ ~Practised(t)
  /\ EvolutionStops
  /\ UNCHANGED noxVars

\* POST practice-runs.
PostPracticeRun ==
  /\ worker = "closing"
  /\ practiceRuns' = practiceRuns
       \cup {[revision |-> This.candidate, plan |-> plan, task |-> task,
              passed |-> verdict]}
  /\ worker' = "practising"
  /\ task' = task + 1
  /\ verdict' = FALSE
  /\ UNCHANGED <<horizon, position, plan, base, governance, intake,
                 learningLog, evaluations, curricula, artifacts>>

EndPractice ==
  /\ worker = "practising"
  /\ task \notin TasksOf(This.candidate, plan)
  /\ NextRevision
  /\ UNCHANGED noxVars

PassRejected ==
  /\ worker = "scanning"
  /\ ~Skipped(This)
  /\ Evaluated(This.candidate)
  /\ EvaluationOf(This.candidate).decision = "rejected"
  /\ NextRevision
  /\ UNCHANGED noxVars

ToFreeze ==
  /\ worker = "scanning"
  /\ ~Skipped(This)
  /\ Evaluated(This.candidate)
  /\ EvaluationOf(This.candidate).decision = "accepted"

\* Fault: the active memory is compared with the proposed one.
FreezableOnProposed(r, m) == m = r.proposed

Freezable(r, m) ==
  /\ m = r.parent
  /\ r.proposed = Append(m, r.candidate)

\* Fault: the revision's own parent is used in place of the active memory.
TrustRecordedParent ==
  /\ ToFreeze
  /\ worker' = "freezing"
  /\ base' = This.parent
  /\ UNCHANGED <<horizon, position, plan, task, verdict, noxVars>>

\* GET memory-artifacts/active: the revision was made of exactly that memory.
ReadActiveMemory ==
  /\ ToFreeze
  /\ Freezable(This, active)
  /\ worker' = "freezing"
  /\ base' = active
  /\ UNCHANGED <<horizon, position, plan, task, verdict, noxVars>>

\* The active memory is another one: the revision waits.
PassStale ==
  /\ ToFreeze
  /\ ~Freezable(This, active)
  /\ NextRevision
  /\ UNCHANGED noxVars

FrozenCandidate(e) ==
  [parent |-> base, experiences |-> Append(base, e),
   eligible |-> \A v \in AcceptedOf(e) : v.eligible]

\* POST memory-artifacts.
PostArtifact ==
  /\ worker = "freezing"
  /\ artifacts' = artifacts \cup {FrozenCandidate(This.candidate)}
  /\ NextRevision
  /\ UNCHANGED <<governance, intake, learningLog, evaluations, practiceLog>>

EvolutionAborts ==
  /\ worker # "idle"
  /\ EvolutionStops
  /\ UNCHANGED noxVars

\* The ways a cycle ends early.
EvolutionFails == EvolutionAborts \/ \E t \in Task : RunnerMisbinds(t)

EvolutionStep ==
  \/ ReadEvents \/ Skip \/ PostEvaluation
  \/ \E e \in Experience : PostCurriculum(e) \/ BeginPractice(e)
  \/ \E t \in Task : PassOver(t) \/ RunnerAnswers(t)
  \/ PostPracticeRun \/ EndPractice
  \/ PassRejected \/ ReadActiveMemory \/ PassStale \/ PostArtifact
=============================================================================
