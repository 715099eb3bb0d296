------------------------- MODULE ExperienceLifecycle -------------------------
(***************************************************************************)
(* The learner, the evolution worker and the NOX state engine together.    *)
(* The two workers never talk to each other: they meet in the event log    *)
(* and in the active memory, which NOX may change between any two of their *)
(* requests.                                                               *)
(***************************************************************************)
EXTENDS ExperienceLearner, ExperienceEvolution

vars == <<noxVars, learnerVars, evolutionVars>>

TypeOK == NoxTypeOK /\ LearnerTypeOK /\ EvolutionTypeOK

Init == NoxInit /\ LearnerInit /\ EvolutionInit

Next ==
  \/ NoxNext                           /\ UNCHANGED <<learnerVars, evolutionVars>>
  \/ (LearnerStep \/ LearnerAborts)    /\ UNCHANGED evolutionVars
  \/ (EvolutionStep \/ EvolutionFails) /\ UNCHANGED learnerVars

Spec == Init /\ [][Next]_vars

-----------------------------------------------------------------------------
(* Safety.                                                                 *)

\* The candidate was put to every task of a curriculum of its own revision,
\* passed all of them, and claims no more than an association.
IndependentlyVerified(e) ==
  /\ ~ClaimOf(e).causal
  /\ \E n \in DOMAIN curricula[e] :
       \A t \in TasksOf(e, n) :
         /\ \E run \in RunsOf(e, n) : run.task = t /\ run.passed
         /\ ~ \E run \in RunsOf(e, n) : run.task = t /\ ~run.passed

\* Every experience in a memory that was ever active was independently
\* verified: nothing enters memory on its author's word, on an incomplete
\* practice or through a parent that was never released.
\* (evolution_worker.run_once: the path from dataset to artifact.)
ReleasedMemoryVerified ==
  \A m \in released : \A e \in Range(m) : IndependentlyVerified(e)

\* A candidate artifact adds one verified experience to a memory that was
\* active: a revision chained behind an unreleased one of its batch waits.
\* (evolution_worker.run_once:514-531.)
ArtifactsExtendReleasedMemory ==
  \A a \in artifacts :
    /\ a.parent \in released
    /\ \E e \in Experience : /\ a.experiences = Append(a.parent, e)
                             /\ IndependentlyVerified(e)

Distinct(m) ==
  \A i, j \in DOMAIN m : i # j => Signature(m[i]) # Signature(m[j])

\* No frozen memory holds two equivalent experiences, although handoffs are
\* reconciled against snapshots that other batches replace meanwhile.
\* (reconciler._reconcile_one and the parent check before freezing.)
NoEquivalentExperiences == \A a \in artifacts : Distinct(a.experiences)

RevisionsOf(h) == {i \in DOMAIN revisions : Source(revisions[i].candidate) = h}

\* A handoff's batch is all or nothing and recorded once, however often the
\* learner is interrupted: each conclusion of a handoff has exactly one
\* revision, or none has. (worker.run_once, service.build_atomic_batch.)
BatchesAreWhole ==
  \A h \in Handoff :
    \/ RevisionsOf(h) = {} /\ ~Batched(h)
    \/ /\ Candidates(h) \subseteq distilled
       /\ Cardinality(RevisionsOf(h)) = Len(Conclusions[h])
       /\ {revisions[i].candidate : i \in RevisionsOf(h)} = Candidates(h)

\* m is the memory that h is bound to, and some of its first k - 1 conclusions.
Extends(m, h, k) ==
  LET n == Len(parentOf[h])
  IN /\ n <= Len(m)
     /\ SubSeq(m, 1, n) = parentOf[h]
     /\ \A j \in (n + 1)..Len(m) : Source(m[j]) = h /\ m[j][2] < k

\* A revision is made against the memory its handoff is bound to, extended
\* only by earlier conclusions of the same handoff: the candidates of two
\* handoffs never mix. (reconciler.reconcile_batch, service.process_broad_batch.)
BatchesAreIsolated ==
  \A i \in DOMAIN revisions :
    Extends(revisions[i].parent, Source(revisions[i].candidate), revisions[i].candidate[2])

\* Retries never reverse a verdict: after the bootstrap evaluation a revision
\* gets at most one more, on the first curriculum it completed, although the
\* worker is cut at any request and evaluates again from the log each cycle.
\* (evolution_worker._practice_dataset, run_once:460-467.)
VerdictsNeverReverse ==
  \A v, w \in evaluations :
    (v.revision = w.revision /\ v.dataset.plan # 0 /\ w.dataset.plan # 0) => v = w

\* A failed practice task is final: no restart between the runner's answer
\* and the next cycle lets it be run again until it passes.
\* (evolution_worker.run_once:483-510, curriculum.begin_batch.)
FailuresAreFinal ==
  \A run, other \in practiceRuns :
    (/\ run.revision = other.revision
     /\ run.plan = other.plan
     /\ run.task = other.task) => run = other

\* An artifact that may be released without review adds an experience whose
\* handoff was sealed by the session that did the work, whatever the practice
\* handoffs in between. (evaluator.evaluate:96-105, artifact.freeze_candidate:42-45.)
AutomaticReleaseIsSameSession ==
  \A a \in artifacts :
    a.eligible => Source(a.experiences[Len(a.experiences)]) \in SameSession

Decided(e) ==
  \E v \in evaluations : v.revision = e /\ v.decision # "needs_experiment"

\* Once a revision is accepted or rejected, no curriculum and no practice run
\* is recorded for it any more: the evidence behind a verdict is frozen.
\* (evolution_worker.run_once:468-513.)
PracticeStopsAtVerdict ==
  [][\A e \in Experience :
       Decided(e) => /\ curricula'[e] = curricula[e]
                     /\ \A run \in practiceRuns' \ practiceRuns :
                          run.revision # e]_vars

-----------------------------------------------------------------------------
(* The inductive invariant behind the safety properties: what the worker's *)
(* local state promises between two of its requests.                       *)

ActiveIsReleased == active \in released

\* The plan being practised belongs to the revision the worker is at, and
\* the task it is about to record has no run yet.
PracticeIsPlanned ==
  worker \in {"practising", "closing"} => plan \in DOMAIN curricula[This.candidate]

OpenTaskHasNoRun == worker = "closing" => ~Practised(task)

RunsArePlanned ==
  \A run \in practiceRuns : run.plan \in DOMAIN curricula[run.revision]

\* An acceptance rests on verification, and its eligibility on the handoff.
AcceptanceIsEarned ==
  \A v \in evaluations :
    /\ v.decision = "accepted" => IndependentlyVerified(v.revision)
    /\ v.eligible => Source(v.revision) \in SameSession

\* What the worker is about to freeze was accepted against a released memory.
FreezingIsEarned ==
  worker = "freezing" => /\ base \in released
                         /\ IndependentlyVerified(This.candidate)
                         /\ AcceptedOf(This.candidate) # {}

\* Between any two requests of either worker, the local state of the
\* evolution worker and the events on record support everything that was
\* released. (evolution_worker.run_once, curriculum.complete_run.)
EvidenceInv ==
  /\ TypeOK
  /\ ActiveIsReleased
  /\ PracticeIsPlanned
  /\ OpenTaskHasNoRun
  /\ RunsArePlanned
  /\ AcceptanceIsEarned
  /\ FreezingIsEarned
  /\ FailuresAreFinal
  /\ ArtifactsExtendReleasedMemory
  /\ AutomaticReleaseIsSameSession
  /\ ReleasedMemoryVerified

-----------------------------------------------------------------------------
(* The strengthenings behind the verdicts and the batches.                 *)

\* A second curriculum is planned for what came of the first one, and there is
\* no third.
CurriculaAreChained ==
  \A e \in Experience :
    /\ Len(curricula[e]) <= 2
    /\ curricula[e] # <<>> => curricula[e][1] = BootstrapDataset
    /\ Len(curricula[e]) = 2 =>
         Complete(e, 1) /\ curricula[e][2] = PracticeDataset(e, 1)

EvaluationsStand ==
  \A v \in evaluations :
    /\ v = Evaluate(v.revision, v.dataset)
    /\ \/ v.dataset = BootstrapDataset
       \/ /\ curricula[v.revision] # <<>> /\ Complete(v.revision, 1)
          /\ v.dataset = PracticeDataset(v.revision, 1)

PracticeIsOpen ==
  /\ worker = "closing" => task \in TasksOf(This.candidate, plan)
  /\ worker \in {"practising", "closing"} => ~Decided(This.candidate)

\* With it, the verdict on a revision rests on a curriculum that stays as it is.
\* (evolution_worker._practice_dataset:406-425, run_once:458-513.)
VerdictInv ==
  EvidenceInv /\ CurriculaAreChained /\ EvaluationsStand /\ PracticeIsOpen

\* The learner works on announced handoffs, whose parent memory stays.
LearnerIsCalled ==
  /\ fetched \cup source \subseteq ready
  /\ \A e \in distilled : Source(e) \in ready
  /\ \A i \in DOMAIN revisions : Source(revisions[i].candidate) \in ready

Reconciled(r) == r = ReconcileOne(r.parent, r.candidate)

\* The batch in progress goes through the conclusions of one handoff in order.
BatchIsSound ==
  learner = "reconciling" =>
    \E h \in Handoff :
      /\ source = {h} /\ Len(drafted) <= Len(Conclusions[h])
      /\ Extends(current, h, Len(drafted) + 1)
      /\ \A i \in DOMAIN drafted : /\ drafted[i].candidate = Candidate(h, i)
                                   /\ Reconciled(drafted[i])
                                   /\ Extends(drafted[i].parent, h, i)

\* The revisions of h come one after the other, from place k + 1 on.
Placed(h, k) ==
  /\ RevisionsOf(h) = (k + 1)..(k + Len(Conclusions[h]))
  /\ \A i \in 1..Len(Conclusions[h]) : revisions[k + i].candidate = Candidate(h, i)
  /\ Candidates(h) \subseteq distilled

BatchesArePlaced ==
  \A h \in Handoff :
    IF Batched(h) THEN \E k \in 0..Len(revisions) : Placed(h, k) ELSE RevisionsOf(h) = {}

\* What is about to be frozen is not in the memory it is added to.
FreezingIsNew == worker = "freezing" => ~HasDuplicate(base, This.candidate)

\* With it, batches and the memories they end up in stay clean.
\* (worker.run_once:149-177, reconciler.reconcile_batch:26-117.)
BatchInv ==
  /\ LearnerIsCalled /\ BatchIsSound /\ BatchesArePlaced /\ BatchesAreIsolated
  /\ \A i \in DOMAIN revisions : Reconciled(revisions[i])
  /\ \A m \in released : Distinct(m)
  /\ FreezingIsNew /\ NoEquivalentExperiences

\* The inductive invariant of the lifecycle.
LifecycleInv == VerdictInv /\ BatchInv

-----------------------------------------------------------------------------
(* What the lifecycle implements.                                          *)

VerifiedExperiences == {e \in Experience : IndependentlyVerified(e)}

Proposals ==
  {[parent |-> a.parent, experiences |-> a.experiences] : a \in artifacts}

Governed == INSTANCE GovernedMemory WITH
  verified <- VerifiedExperiences, proposals <- Proposals

\* KEE and NOX together implement the governed memory: memory changes only
\* by activating, or rolling back, a proposal that adds one independently
\* verified experience to a memory that was active before.
ImplementsGovernedMemory == Governed!Spec
=============================================================================
