-------------------------- MODULE ExperienceProgress --------------------------
(***************************************************************************)
(* The lifecycle with rollout observations and finitely many               *)
(* interruptions: what the two workers achieve by running again and again. *)
(* NOX owes nothing: it may activate, roll back, assign, or do none of it. *)
(***************************************************************************)
EXTENDS ExperienceLifecycle, RolloutObservations

CONSTANT MaxFailures    \* bound: interrupted cycles of both workers

ASSUME MaxFailuresAssumption == MaxFailures \in Nat

VARIABLE failures       \* interrupted cycles so far

progressVars == <<vars, rolloutVars, failures>>

ProgressInit == Init /\ RolloutInit /\ failures = 0

NoxRuns ==
  /\ \/ NoxNext /\ UNCHANGED rolloutVars
     \/ Assign /\ UNCHANGED noxVars
  /\ UNCHANGED <<learnerVars, evolutionVars, failures>>

LearnerRuns == LearnerStep /\ UNCHANGED <<evolutionVars, rolloutVars, failures>>

\* The rollouts come between the events and the revisions.
EvolutionRuns ==
  /\ \/ ReadEvents /\ BeginCollection
     \/ Collects /\ UNCHANGED <<evolutionVars, noxVars>>
     \/ worker # "idle" /\ ~collection.paging /\ EvolutionStep /\ UNCHANGED rolloutVars
  /\ UNCHANGED <<learnerVars, failures>>

Fails ==
  /\ failures < MaxFailures
  /\ failures' = failures + 1
  /\ \/ LearnerAborts  /\ UNCHANGED <<evolutionVars, rolloutVars>>
     \/ EvolutionFails /\ CollectionFails /\ UNCHANGED learnerVars

ProgressNext == NoxRuns \/ LearnerRuns \/ EvolutionRuns \/ Fails

\* The practice runner answers a task of the revision of e.
TaskAnswered(e, t) ==
  /\ RunnerAnswers(t)
  /\ This.candidate = e
  /\ ~collection.paging
  /\ UNCHANGED <<learnerVars, rolloutVars, failures>>

\* The replay service observes a run.
RolloutAnswered(r) == Observe(r) /\ UNCHANGED <<vars, failures>>

\* Both mains loop forever; a task or a run that a runner is asked about
\* again and again is answered at last: "pending" is not a verdict.
Fairness ==
  /\ WF_progressVars(LearnerRuns)
  /\ WF_progressVars(EvolutionRuns)
  /\ \A e \in Experience, t \in Task : SF_progressVars(TaskAnswered(e, t))
  /\ \A r \in Rollout : SF_progressVars(RolloutAnswered(r))

ProgressSpec == ProgressInit /\ [][ProgressNext]_progressVars /\ Fairness

\* A handoff does not stay pending while it and all the other pending ones
\* can be distilled and are bound to the active memory. One pending handoff
\* that is stale or cannot be distilled ends every cycle that meets it, so
\* nothing is promised beside one. (worker.run_once:163-176, main:191.)
HandoffsAreLearned ==
  \A h \in Handoff :
    []<>~(/\ h \in Pending
          /\ \A g \in Pending : parentOf[g] = active /\ Distillable(g))

ChangesMemory(e) ==
  \E i \in DOMAIN revisions :
    revisions[i].candidate = e /\ revisions[i].operation # "no_change"

\* Every revision that changes memory and claims no cause is accepted or
\* rejected in the end, whatever memory NOX activates meanwhile. (A causal
\* claim is not: no practice run of this worker verifies a mechanism.)
RevisionsAreDecided ==
  \A e \in Experience :
    []<>~(ChangesMemory(e) /\ ~ClaimOf(e).causal /\ ~Decided(e))

\* An accepted revision is frozen unless the memory it revises stops being
\* the active one.
AcceptedIsFrozen ==
  \A e \in Experience :
    []<>~(/\ AcceptedOf(e) # {}
          /\ \E i \in DOMAIN revisions : /\ revisions[i].candidate = e
                                         /\ revisions[i].parent = active
          /\ ~Frozen(e))
=============================================================================
