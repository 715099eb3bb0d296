---------------------- MODULE ExperienceLifecycleProofs ----------------------
(***************************************************************************)
(* Theorems of the experience lifecycle.                                   *)
(***************************************************************************)
EXTENDS ExperienceProgress, FiniteSetTheorems, TLAPS

USE HandoffAssumption, BatchSizeAssumption

-----------------------------------------------------------------------------
(* What the rules return.                                                  *)

LEMMA CandidateInExperience ==
  ASSUME NEW h \in Handoff, NEW i \in DOMAIN Conclusions[h]
  PROVE  Candidate(h, i) \in Experience
BY DEF Experience, Candidates

\* A candidate experience is the pair of its handoff and its position.
LEMMA ExperienceIsClaim ==
  ASSUME NEW e \in Experience
  PROVE  Source(e) \in Handoff /\ ClaimOf(e) \in Claim
<1>1. PICK h \in Handoff : \E i \in DOMAIN Conclusions[h] : e = <<h, i>>
  BY DEF Experience, Candidates, Candidate
<1>0. PICK i \in DOMAIN Conclusions[h] : e = <<h, i>>
  BY <1>1
<1>2. Conclusions[h] \in Seq(Claim)
  OBVIOUS
<1>3. Conclusions[h][i] \in Claim
  BY <1>0, <1>2
<1> QED
  BY <1>0, <1>3 DEF Source, ClaimOf

LEMMA ReconcileOneType ==
  ASSUME NEW m \in Memory, NEW e \in Experience
  PROVE  ReconcileOne(m, e) \in Revision
<1>1. OperationFor(m, e) \in Operation
  BY DEF OperationFor, Operation
<1>2. Revised(m, e) \in Memory
  BY DEF Revised, Memory
<1> QED
  BY <1>1, <1>2 DEF ReconcileOne, Revision

LEMMA PracticeTasksType ==
  ASSUME NEW e, NEW d
  PROVE  PracticeTasks(e, d) \subseteq Task /\ 1 \in PracticeTasks(e, d)
BY DEF PracticeTasks, Task

LEMMA EvaluateType ==
  ASSUME NEW e \in Experience, NEW d \in Dataset
  PROVE  Evaluate(e, d) \in Evaluation
<1>1. Decide(e, d) \in Decision
  BY DEF Decide, Decision
<1> QED
  BY <1>1 DEF Evaluate, Evaluation

LEMMA BootstrapDatasetType == BootstrapDataset \in Dataset
BY DEF BootstrapDataset, BootstrapCase, Dataset, Case

LEMMA PracticeCaseType ==
  ASSUME NEW run \in PracticeRun
  PROVE  PracticeCase(run) \in Case
BY DEF PracticeRun, PracticeCase, Case, Task

\* The dataset of a revision is the bootstrap one or that of a curriculum of
\* its own all of whose tasks have a run.
LEMMA DatasetOfCases ==
  ASSUME NEW e
  PROVE  \/ DatasetOf(e) = BootstrapDataset
         \/ \E n \in DOMAIN curricula[e] :
              Complete(e, n) /\ DatasetOf(e) = PracticeDataset(e, n)
BY DEF DatasetOf, FirstComplete

LEMMA DatasetOfType ==
  ASSUME NoxTypeOK, NEW e \in Experience
  PROVE  DatasetOf(e) \in Dataset
<1>1. CASE DatasetOf(e) = BootstrapDataset
  BY <1>1, BootstrapDatasetType
<1>2. ASSUME NEW n \in DOMAIN curricula[e], DatasetOf(e) = PracticeDataset(e, n)
      PROVE  DatasetOf(e) \in Dataset
  <2>1. curricula[e] \in Seq(Dataset)
    BY DEF NoxTypeOK
  <2>2. n \in Nat
    BY <2>1
  <2>3. \A run \in RunsOf(e, n) : run \in PracticeRun
    BY DEF RunsOf, NoxTypeOK
  <2>4. {PracticeCase(run) : run \in RunsOf(e, n)} \subseteq Case
    BY <2>3, PracticeCaseType
  <2> QED
    BY <1>2, <2>2, <2>4 DEF PracticeDataset, Dataset
<1> QED
  BY <1>1, <1>2, DatasetOfCases

-----------------------------------------------------------------------------
(* Types.                                                                  *)

LEMMA InitTypeOK == Init => TypeOK
<1> SUFFICES ASSUME Init PROVE TypeOK
  OBVIOUS
<1> USE DEF Init
<1>1. Genesis \in Memory
  BY DEF Genesis, Memory
<1>2. <<>> \in Seq(Revision) /\ <<>> \in Seq(Dataset)
  OBVIOUS
<1>3. NoxTypeOK
  <2>1. active \in Memory /\ released \subseteq Memory
    BY <1>1 DEF NoxInit
  <2>2. parentOf \in [Handoff -> Memory]
    BY <1>1 DEF NoxInit
  <2>3. revisions \in Seq(Revision) /\ curricula \in [Experience -> Seq(Dataset)]
    BY <1>2 DEF NoxInit
  <2> QED
    BY <2>1, <2>2, <2>3 DEF NoxInit, NoxTypeOK
<1>4. LearnerTypeOK
  BY <1>1, <1>2 DEF LearnerInit, LearnerTypeOK
<1>5. EvolutionTypeOK
  <2>1. horizon \in 0..Len(revisions) /\ position \in 0..horizon
    BY DEF NoxInit, EvolutionInit
  <2>2. base \in Memory
    BY <1>1 DEF EvolutionInit
  <2> QED
    BY <2>1, <2>2 DEF EvolutionInit, EvolutionTypeOK
<1> QED
  BY <1>3, <1>4, <1>5 DEF TypeOK
\* The variables that an action leaves alone, by name.
USE DEF governance, intake, learningLog, practiceLog, evolutionLog, noxVars,
        learnerVars, evolutionVars, vars

LEMMA LearnerUnchanged ==
  ASSUME LearnerTypeOK, UNCHANGED learnerVars
  PROVE  LearnerTypeOK'
BY DEF LearnerTypeOK

LEMMA NoxUnchanged ==
  ASSUME NoxTypeOK, UNCHANGED noxVars
  PROVE  NoxTypeOK'
BY DEF NoxTypeOK

\* The evolution worker only minds that the log does not get shorter.
LEMMA EvolutionUnchanged ==
  ASSUME EvolutionTypeOK, UNCHANGED evolutionVars,
         revisions \in Seq(Revision), revisions' \in Seq(Revision),
         Len(revisions) <= Len(revisions')
  PROVE  EvolutionTypeOK'
<1>1. horizon' \in 0..Len(revisions') /\ position' \in 0..horizon'
  BY DEF EvolutionTypeOK
<1> QED
  BY <1>1 DEF EvolutionTypeOK

LEMMA LearnerStopsType == LearnerStops => LearnerTypeOK'
BY DEF LearnerStops, LearnerTypeOK, Genesis, Memory

LEMMA EvolutionStopsType ==
  ASSUME EvolutionStops, revisions' \in Seq(Revision)
  PROVE  EvolutionTypeOK'
<1>1. horizon' \in 0..Len(revisions') /\ position' \in 0..horizon'
  BY DEF EvolutionStops
<1>2. base' \in Memory
  BY DEF EvolutionStops, Genesis, Memory
<1>3. worker' = "idle" /\ plan' \in Nat /\ task' \in Nat /\ verdict' \in BOOLEAN
  BY DEF EvolutionStops
<1> QED
  BY <1>1, <1>2, <1>3 DEF EvolutionTypeOK

LEMMA NextRevisionType ==
  ASSUME TypeOK, NextRevision, UNCHANGED revisions
  PROVE  EvolutionTypeOK'
<1>0. revisions' \in Seq(Revision)
  BY DEF TypeOK, NoxTypeOK
<1>1. CASE position < horizon
  <2>1. horizon' \in 0..Len(revisions') /\ position' \in 0..horizon' /\ position' > 0
    BY <1>1 DEF NextRevision, TypeOK, EvolutionTypeOK
  <2>2. base' \in Memory
    BY <1>1 DEF NextRevision, Genesis, Memory
  <2>3. worker' = "scanning" /\ plan' = 0 /\ task' = 0 /\ verdict' = FALSE
    BY <1>1 DEF NextRevision
  <2> QED
    BY <2>1, <2>2, <2>3 DEF EvolutionTypeOK
<1>2. CASE ~(position < horizon)
  BY <1>0, <1>2, EvolutionStopsType DEF NextRevision
<1> QED
  BY <1>1, <1>2

\* The revision the worker is at.
LEMMA ThisType ==
  ASSUME TypeOK, worker # "idle"
  PROVE  This \in Revision /\ This.candidate \in Experience
<1>1. position \in 1..Len(revisions)
  BY DEF TypeOK, EvolutionTypeOK
<1>2. This \in Revision
  BY <1>1 DEF This, TypeOK, NoxTypeOK
<1> QED
  BY <1>2 DEF Revision

LEMMA NoxNextType ==
  ASSUME TypeOK, NoxNext
  PROVE  NoxTypeOK' /\ UNCHANGED revisions
<1>1. ASSUME NEW h \in Handoff, HandoffReady(h)
      PROVE  NoxTypeOK' /\ UNCHANGED revisions
  <2>1. parentOf' \in [Handoff -> Memory]
    BY <1>1 DEF HandoffReady, TypeOK, NoxTypeOK
  <2>2. ready' \subseteq Handoff
    BY <1>1 DEF HandoffReady, TypeOK, NoxTypeOK
  <2> QED
    BY <1>1, <2>1, <2>2 DEF HandoffReady, TypeOK, NoxTypeOK
<1>2. ASSUME NEW a \in artifacts, Activate(a) \/ Rollback(a)
      PROVE  NoxTypeOK' /\ UNCHANGED revisions
  <2>1. a.parent \in Memory /\ a.experiences \in Memory
    BY DEF TypeOK, NoxTypeOK, Artifact
  <2> QED
    BY <1>2, <2>1 DEF Activate, Rollback, TypeOK, NoxTypeOK
<1> QED
  BY <1>1, <1>2 DEF NoxNext

LEMMA LearnerStepType ==
  ASSUME TypeOK, LearnerStep \/ LearnerAborts
  PROVE  /\ NoxTypeOK' /\ LearnerTypeOK'
         /\ Len(revisions) <= Len(revisions')
<1>0. revisions \in Seq(Revision) /\ Len(revisions) \in Nat
  BY DEF TypeOK, NoxTypeOK
<1>1. ASSUME FetchPending
      PROVE  NoxTypeOK' /\ LearnerTypeOK' /\ Len(revisions) <= Len(revisions')
  <2>1. fetched' \subseteq Handoff
    BY <1>1 DEF FetchPending, kSubset, Pending, TypeOK, NoxTypeOK
  <2>2. UNCHANGED noxVars
    BY <1>1 DEF FetchPending
  <2>3. LearnerTypeOK'
    BY <1>1, <2>1 DEF FetchPending, TypeOK, LearnerTypeOK
  <2> QED
    BY <1>0, <2>2, <2>3, NoxUnchanged DEF TypeOK
<1>2. ASSUME NEW h \in Handoff, TakeHandoff(h)
      PROVE  NoxTypeOK' /\ LearnerTypeOK' /\ Len(revisions) <= Len(revisions')
  <2>1. LearnerTypeOK'
    BY <1>2 DEF TakeHandoff, TypeOK, LearnerTypeOK, NoxTypeOK
  <2> QED
    BY <1>0, <1>2, <2>1, NoxUnchanged DEF TakeHandoff, TypeOK
<1>3. ASSUME NEW h \in Handoff, RefuseHandoff(h)
      PROVE  NoxTypeOK' /\ LearnerTypeOK' /\ Len(revisions) <= Len(revisions')
  BY <1>0, <1>3, LearnerStopsType, NoxUnchanged DEF RefuseHandoff, TypeOK
<1>4. ASSUME NEW h \in Handoff, Reconcile(h)
      PROVE  NoxTypeOK' /\ LearnerTypeOK' /\ Len(revisions) <= Len(revisions')
  <2> DEFINE e == Candidate(h, Len(drafted) + 1)
             r == ReconcileOne(current, e)
  <2>1. drafted \in Seq(Revision) /\ current \in Memory
    BY DEF TypeOK, LearnerTypeOK
  <2>2. Len(drafted) + 1 \in DOMAIN Conclusions[h]
    BY <1>4, <2>1 DEF Reconcile
  <2>3. r \in Revision
    BY <2>1, <2>2, CandidateInExperience, ReconcileOneType
  <2>4. r.proposed \in Memory
    BY <2>3 DEF Revision
  <2>5. drafted' = Append(drafted, r) /\ current' = r.proposed
    BY <1>4 DEF Reconcile
  <2> HIDE DEF r
  <2>6. drafted' \in Seq(Revision) /\ current' \in Memory
    BY <2>1, <2>3, <2>4, <2>5
  <2>7. LearnerTypeOK'
    BY <1>4, <2>6 DEF Reconcile, TypeOK, LearnerTypeOK
  <2> QED
    BY <1>0, <1>4, <2>7, NoxUnchanged DEF Reconcile, TypeOK
<1>5. ASSUME NEW h \in Handoff, SubmitBatch(h)
      PROVE  NoxTypeOK' /\ LearnerTypeOK' /\ Len(revisions) <= Len(revisions')
  <2>1. drafted \in Seq(Revision)
    BY DEF TypeOK, LearnerTypeOK
  <2>2. revisions' \in Seq(Revision) /\ Len(revisions) <= Len(revisions')
    <3>1. CASE Batched(h)
      BY <1>0, <1>5, <3>1 DEF SubmitBatch
    <3>2. CASE ~Batched(h)
      <4>1. revisions' = revisions \o drafted
        BY <1>5, <3>2 DEF SubmitBatch
      <4>2. Len(revisions \o drafted) = Len(revisions) + Len(drafted)
        BY <1>0, <2>1
      <4>3. revisions \o drafted \in Seq(Revision)
        BY <1>0, <2>1
      <4> QED
        BY <1>0, <2>1, <4>1, <4>2, <4>3
    <3> QED
      BY <3>1, <3>2
  <2>3. distilled' \subseteq Experience
    BY <1>5, CandidateInExperience DEF SubmitBatch, TypeOK, NoxTypeOK, Candidates
  <2>4. NoxTypeOK'
    BY <1>5, <2>2, <2>3 DEF SubmitBatch, TypeOK, NoxTypeOK
  <2>5. LearnerTypeOK'
    <3>1. CASE fetched = {h}
      BY <1>5, <3>1, LearnerStopsType DEF SubmitBatch
    <3>2. CASE fetched # {h}
      BY <1>5, <3>2 DEF SubmitBatch, TypeOK, LearnerTypeOK, Genesis, Memory
    <3> QED
      BY <3>1, <3>2
  <2> QED
    BY <2>2, <2>4, <2>5
<1>6. ASSUME LearnerAborts
      PROVE  NoxTypeOK' /\ LearnerTypeOK' /\ Len(revisions) <= Len(revisions')
  BY <1>0, <1>6, LearnerStopsType, NoxUnchanged DEF LearnerAborts, TypeOK
<1> QED
  BY <1>1, <1>2, <1>3, <1>4, <1>5, <1>6 DEF LearnerStep

LEMMA EvolutionStepType ==
  ASSUME TypeOK, EvolutionStep \/ EvolutionFails
  PROVE  NoxTypeOK' /\ EvolutionTypeOK' /\ UNCHANGED revisions
<1>0. revisions \in Seq(Revision) /\ Len(revisions) \in Nat
  BY DEF TypeOK, NoxTypeOK
<1>1. ASSUME ReadEvents
      PROVE  NoxTypeOK' /\ EvolutionTypeOK' /\ UNCHANGED revisions
  <2>1. horizon' \in 0..Len(revisions') /\ position' \in 0..horizon' /\ position' > 0
    BY <1>0, <1>1 DEF ReadEvents
  <2>2. EvolutionTypeOK'
    BY <1>1, <2>1 DEF ReadEvents, TypeOK, EvolutionTypeOK
  <2> QED
    BY <1>1, <2>2, NoxUnchanged DEF ReadEvents, TypeOK
<1>2. ASSUME NextRevision, UNCHANGED noxVars
      PROVE  NoxTypeOK' /\ EvolutionTypeOK' /\ UNCHANGED revisions
  BY <1>2, NextRevisionType, NoxUnchanged DEF TypeOK
<1>3. ASSUME PostEvaluation
      PROVE  NoxTypeOK' /\ EvolutionTypeOK' /\ UNCHANGED revisions
  <2> DEFINE e == This.candidate
  <2>1. e \in Experience
    BY <1>3, ThisType DEF PostEvaluation
  <2> HIDE DEF e
  <2>2. Evaluate(e, DatasetOf(e)) \in Evaluation
    BY <2>1, DatasetOfType, EvaluateType DEF TypeOK
  <2>3. evaluations' = evaluations \cup {Evaluate(e, DatasetOf(e))}
    BY <1>3 DEF PostEvaluation, e
  <2>4. evaluations' \subseteq Evaluation
    BY <2>2, <2>3 DEF TypeOK, NoxTypeOK
  <2>5. NoxTypeOK'
    BY <1>3, <2>4 DEF PostEvaluation, TypeOK, NoxTypeOK
  <2> QED
    BY <1>0, <1>3, <2>5, EvolutionUnchanged DEF PostEvaluation, TypeOK
<1>4. ASSUME NEW e \in Experience, PostCurriculum(e)
      PROVE  NoxTypeOK' /\ EvolutionTypeOK' /\ UNCHANGED revisions
  <2>1. DatasetOf(e) \in Dataset
    BY DatasetOfType DEF TypeOK
  <2>2. curricula' = [curricula EXCEPT ![e] = Append(@, DatasetOf(e))]
    BY <1>4 DEF PostCurriculum
  <2>3. curricula \in [Experience -> Seq(Dataset)]
    BY DEF TypeOK, NoxTypeOK
  <2>4. Append(curricula[e], DatasetOf(e)) \in Seq(Dataset)
    BY <2>1, <2>3
  <2>5. curricula' \in [Experience -> Seq(Dataset)]
    BY <2>2, <2>3, <2>4
  <2>6. NoxTypeOK'
    BY <1>4, <2>5 DEF PostCurriculum, TypeOK, NoxTypeOK
  <2> QED
    BY <1>0, <1>4, <2>6, EvolutionUnchanged DEF PostCurriculum, TypeOK
<1>5. ASSUME NEW e \in Experience, BeginPractice(e)
      PROVE  NoxTypeOK' /\ EvolutionTypeOK' /\ UNCHANGED revisions
  <2>1. plan' \in Nat
    <3>1. curricula[e] \in Seq(Dataset)
      BY DEF TypeOK, NoxTypeOK
    <3> QED
      BY <1>5, <3>1 DEF BeginPractice, PlansFor
  <2>2. EvolutionTypeOK'
    BY <1>5, <2>1 DEF BeginPractice, ToExperiment, TypeOK, EvolutionTypeOK
  <2> QED
    BY <1>5, <2>2, NoxUnchanged DEF BeginPractice, TypeOK
<1>6. ASSUME NEW t \in Task, PassOver(t)
      PROVE  NoxTypeOK' /\ EvolutionTypeOK' /\ UNCHANGED revisions
  <2>1. task' \in Nat
    BY <1>6 DEF PassOver, Task
  <2>2. EvolutionTypeOK'
    BY <1>6, <2>1 DEF PassOver, AtTask, TypeOK, EvolutionTypeOK
  <2> QED
    BY <1>6, <2>2, NoxUnchanged DEF PassOver, TypeOK
<1>7. ASSUME NEW t \in Task, RunnerAnswers(t)
      PROVE  NoxTypeOK' /\ EvolutionTypeOK' /\ UNCHANGED revisions
  <2>1. EvolutionTypeOK'
    BY <1>7 DEF RunnerAnswers, AtTask, TypeOK, EvolutionTypeOK
  <2> QED
    BY <1>7, <2>1, NoxUnchanged DEF RunnerAnswers, TypeOK
<1>8. ASSUME PostPracticeRun
      PROVE  NoxTypeOK' /\ EvolutionTypeOK' /\ UNCHANGED revisions
  <2> DEFINE run == [revision |-> This.candidate, plan |-> plan, task |-> task,
                     passed |-> verdict]
  <2>1. This.candidate \in Experience
    BY <1>8, ThisType DEF PostPracticeRun
  <2>2. plan \in Nat /\ task \in Task /\ verdict \in BOOLEAN
    BY <1>8 DEF PostPracticeRun, TypeOK, EvolutionTypeOK
  <2>3. run \in PracticeRun
    BY <2>1, <2>2 DEF PracticeRun
  <2>4. practiceRuns' = practiceRuns \cup {run}
    BY <1>8 DEF PostPracticeRun
  <2> HIDE DEF run
  <2>5. practiceRuns' \subseteq PracticeRun
    BY <2>3, <2>4 DEF TypeOK, NoxTypeOK
  <2>6. NoxTypeOK'
    BY <1>8, <2>5 DEF PostPracticeRun, TypeOK, NoxTypeOK
  <2>7. task' \in Nat
    BY <1>8, <2>2 DEF PostPracticeRun, Task
  <2>8. EvolutionTypeOK'
    BY <1>8, <2>7 DEF PostPracticeRun, TypeOK, EvolutionTypeOK
  <2> QED
    BY <1>8, <2>6, <2>8 DEF PostPracticeRun
<1>9. ASSUME ReadActiveMemory
      PROVE  NoxTypeOK' /\ EvolutionTypeOK' /\ UNCHANGED revisions
  <2>1. base' \in Memory
    BY <1>9 DEF ReadActiveMemory, TypeOK, NoxTypeOK
  <2>2. EvolutionTypeOK'
    BY <1>9, <2>1 DEF ReadActiveMemory, ToFreeze, TypeOK, EvolutionTypeOK
  <2> QED
    BY <1>9, <2>2, NoxUnchanged DEF ReadActiveMemory, TypeOK
<1>10. ASSUME PostArtifact
       PROVE  NoxTypeOK' /\ EvolutionTypeOK' /\ UNCHANGED revisions
  <2> DEFINE e == This.candidate
             a == FrozenCandidate(e)
  <2>1. e \in Experience
    BY <1>10, ThisType DEF PostArtifact
  <2>2. base \in Memory
    BY DEF TypeOK, EvolutionTypeOK
  <2> HIDE DEF e
  <2>3. Append(base, e) \in Memory
    BY <2>1, <2>2 DEF Memory
  <2>4. a \in Artifact
    BY <2>2, <2>3 DEF FrozenCandidate, Artifact
  <2>5. artifacts' = artifacts \cup {a}
    BY <1>10 DEF PostArtifact, e
  <2> HIDE DEF a
  <2>6. artifacts' \subseteq Artifact
    BY <2>4, <2>5 DEF TypeOK, NoxTypeOK
  <2>7. NoxTypeOK'
    BY <1>10, <2>6 DEF PostArtifact, TypeOK, NoxTypeOK
  <2> QED
    BY <1>10, <2>7, NextRevisionType DEF PostArtifact
<1>11. ASSUME EvolutionStops, UNCHANGED noxVars
       PROVE  NoxTypeOK' /\ EvolutionTypeOK' /\ UNCHANGED revisions
  BY <1>0, <1>11, EvolutionStopsType, NoxUnchanged DEF TypeOK
<1>12. CASE EvolutionFails
  BY <1>11, <1>12 DEF EvolutionFails, EvolutionAborts, RunnerMisbinds
<1>13. CASE Skip \/ EndPractice \/ PassRejected \/ PassStale
  BY <1>2, <1>13 DEF Skip, EndPractice, PassRejected, PassStale
<1> QED
  BY <1>1, <1>3, <1>4, <1>5, <1>6, <1>7, <1>8, <1>9, <1>10, <1>12, <1>13
     DEF EvolutionStep

LEMMA NextTypeOK == TypeOK /\ [Next]_vars => TypeOK'
<1> SUFFICES ASSUME TypeOK, [Next]_vars PROVE TypeOK'
  OBVIOUS
<1>0. revisions \in Seq(Revision) /\ Len(revisions) <= Len(revisions)
  BY DEF TypeOK, NoxTypeOK
<1>1. CASE NoxNext /\ UNCHANGED <<learnerVars, evolutionVars>>
  BY <1>0, <1>1, NoxNextType, LearnerUnchanged, EvolutionUnchanged DEF TypeOK
<1>2. CASE (LearnerStep \/ LearnerAborts) /\ UNCHANGED evolutionVars
  <2>1. NoxTypeOK' /\ LearnerTypeOK' /\ Len(revisions) <= Len(revisions')
    BY <1>2, LearnerStepType
  <2>2. revisions' \in Seq(Revision)
    BY <2>1 DEF NoxTypeOK
  <2> QED
    BY <1>0, <1>2, <2>1, <2>2, EvolutionUnchanged DEF TypeOK
<1>3. CASE (EvolutionStep \/ EvolutionFails) /\ UNCHANGED learnerVars
  BY <1>3, EvolutionStepType, LearnerUnchanged DEF TypeOK
<1>4. CASE UNCHANGED vars
  BY <1>0, <1>4, NoxUnchanged, LearnerUnchanged, EvolutionUnchanged DEF TypeOK
<1> QED
  BY <1>1, <1>2, <1>3, <1>4 DEF Next

\* Every variable stays in its type, for all handoffs, conclusions and batch
\* sizes.
THEOREM TypeCorrect == Spec => []TypeOK
BY InitTypeOK, NextTypeOK, PTL DEF Spec

-----------------------------------------------------------------------------
(* What an acceptance says.                                                *)

\* The bootstrap dataset supports nothing and no practice case verifies a
\* mechanism, so an accepted dataset is a practice dataset without a failed
\* run, of a candidate that claims no cause.
LEMMA AcceptedIsVerified ==
  ASSUME NEW e, Evaluate(e, DatasetOf(e)).decision = "accepted"
  PROVE  IndependentlyVerified(e)
<1> DEFINE d == DatasetOf(e)
<1>1. Supporting(d) # {} /\ ~UnsupportedCausal(e, d) /\ Counters(d) = {}
  BY DEF Evaluate, Decide
<1>2. d # BootstrapDataset
  BY <1>1 DEF Supporting, BootstrapDataset, BootstrapCase
<1>3. PICK n \in DOMAIN curricula[e] : Complete(e, n) /\ d = PracticeDataset(e, n)
  BY <1>2, DatasetOfCases
<1>4. d.cases = {PracticeCase(run) : run \in RunsOf(e, n)}
  BY <1>3 DEF PracticeDataset
<1>5. ~ClaimOf(e).causal
  <2>1. \A c \in d.cases : ~c.mechanism
    BY <1>4 DEF PracticeCase
  <2> QED
    BY <1>1, <2>1 DEF UnsupportedCausal
<1>6. \A run \in RunsOf(e, n) : run.passed
  <2>1. \A run \in RunsOf(e, n) : ~PracticeCase(run).counterexample
    BY <1>1, <1>4 DEF Counters
  <2> QED
    BY <2>1 DEF PracticeCase
<1>7. \A t \in TasksOf(e, n) : \E run \in RunsOf(e, n) : run.task = t
  BY <1>3 DEF Complete
<1> QED
  BY <1>5, <1>6, <1>7 DEF IndependentlyVerified

\* The evaluation on record is one of the revision.
LEMMA EvaluationOfEvaluated ==
  ASSUME NEW e, Evaluated(e)
  PROVE  EvaluationOf(e) \in evaluations /\ EvaluationOf(e).revision = e
BY DEF Evaluated, EvaluationOf

\* Appending a curriculum leaves the earlier ones as they are.
LEMMA CurriculaGrow ==
  ASSUME NoxTypeOK, NEW e \in Experience, PostCurriculum(e)
  PROVE  \A x \in Experience : \A n \in DOMAIN curricula[x] :
           n \in DOMAIN curricula'[x] /\ curricula'[x][n] = curricula[x][n]
<1>1. curricula \in [Experience -> Seq(Dataset)] /\ DatasetOf(e) \in Dataset
  BY DatasetOfType DEF NoxTypeOK
<1>2. curricula' = [curricula EXCEPT ![e] = Append(curricula[e], DatasetOf(e))]
  BY DEF PostCurriculum
<1>3. SUFFICES ASSUME NEW x \in Experience, NEW n \in DOMAIN curricula[x]
               PROVE  n \in DOMAIN curricula'[x] /\ curricula'[x][n] = curricula[x][n]
  OBVIOUS
<1>4. CASE x = e
  <2>1. curricula'[e] = Append(curricula[e], DatasetOf(e))
    BY <1>1, <1>2
  <2>2. curricula[e] \in Seq(Dataset)
    BY <1>1
  <2> QED
    BY <1>1, <1>4, <2>1, <2>2
<1>5. CASE x # e
  BY <1>1, <1>2, <1>5
<1> QED
  BY <1>4, <1>5

\* Verified once, verified for good: curricula only grow, and a step that
\* adds a run adds the first one of its task.
LEMMA VerifiedIsStable ==
  ASSUME NEW e \in Experience, IndependentlyVerified(e),
         \A n \in DOMAIN curricula[e] :
           n \in DOMAIN curricula'[e] /\ curricula'[e][n] = curricula[e][n],
         practiceRuns \subseteq practiceRuns',
         \A run \in practiceRuns' \ practiceRuns :
           ~ \E other \in practiceRuns : /\ other.revision = run.revision
                                         /\ other.plan = run.plan
                                         /\ other.task = run.task
  PROVE  IndependentlyVerified(e)'
<1>1. PICK n \in DOMAIN curricula[e] :
        \A t \in TasksOf(e, n) :
          /\ \E run \in RunsOf(e, n) : run.task = t /\ run.passed
          /\ ~ \E run \in RunsOf(e, n) : run.task = t /\ ~run.passed
  BY DEF IndependentlyVerified
<1>2. n \in DOMAIN curricula'[e] /\ TasksOf(e, n)' = TasksOf(e, n)
  BY <1>1 DEF TasksOf
<1>3. ASSUME NEW t \in TasksOf(e, n)
      PROVE  /\ \E run \in RunsOf(e, n)' : run.task = t /\ run.passed
             /\ ~ \E run \in RunsOf(e, n)' : run.task = t /\ ~run.passed
  <2>1. PICK good \in RunsOf(e, n) : good.task = t /\ good.passed
    BY <1>1, <1>3
  <2>2. good \in RunsOf(e, n)'
    BY <2>1 DEF RunsOf
  <2>3. ASSUME NEW run \in RunsOf(e, n)', run.task = t
        PROVE  run.passed
    <3>1. CASE run \in practiceRuns
      BY <1>1, <1>3, <2>3, <3>1 DEF RunsOf
    <3>2. CASE run \notin practiceRuns
      BY <2>1, <2>3, <3>2 DEF RunsOf
    <3> QED
      BY <3>1, <3>2
  <2> QED
    BY <2>1, <2>2, <2>3
<1> QED
  BY <1>2, <1>3 DEF IndependentlyVerified

-----------------------------------------------------------------------------
(* The inductive invariant.                                                *)

LEMMA RangeOfAppend ==
  ASSUME NEW m \in Memory, NEW e \in Experience
  PROVE  Range(Append(m, e)) \subseteq Range(m) \cup {e}
BY DEF Range, Memory

\* The revision the worker is at is still the same one.
LEMMA ThisIsStable ==
  ASSUME TypeOK, worker # "idle", position' = position,
         \A i \in 1..Len(revisions) : revisions'[i] = revisions[i]
  PROVE  This' = This
BY DEF This, TypeOK, EvolutionTypeOK

LEMMA RevisionsGrow ==
  ASSUME TypeOK, LearnerStep \/ LearnerAborts
  PROVE  \A i \in 1..Len(revisions) : revisions'[i] = revisions[i]
<1>1. CASE UNCHANGED revisions
  BY <1>1
<1>2. CASE \E h \in Handoff : SubmitBatch(h) /\ ~Batched(h)
  <2>1. revisions' = revisions \o drafted
    BY <1>2 DEF SubmitBatch
  <2>2. revisions \in Seq(Revision) /\ drafted \in Seq(Revision)
    BY DEF TypeOK, NoxTypeOK, LearnerTypeOK
  <2> QED
    BY <2>1, <2>2
<1> QED
  BY <1>1, <1>2 DEF LearnerStep, LearnerAborts, FetchPending, TakeHandoff,
                    RefuseHandoff, Reconcile, SubmitBatch

LEMMA VerifiedUnchanged ==
  ASSUME UNCHANGED <<curricula, practiceRuns>>
  PROVE  \A e : IndependentlyVerified(e)' <=> IndependentlyVerified(e)
BY DEF IndependentlyVerified, TasksOf, RunsOf

\* What is said of the log alone survives a step that leaves the worker's
\* part of it, and the released memories, alone.
LEMMA LogUnchanged ==
  ASSUME EvidenceInv, UNCHANGED <<evolutionLog, released>>
  PROVE  /\ RunsArePlanned' /\ AcceptanceIsEarned' /\ FailuresAreFinal'
         /\ ArtifactsExtendReleasedMemory' /\ AutomaticReleaseIsSameSession'
         /\ ReleasedMemoryVerified'
<1>1. \A e : IndependentlyVerified(e)' <=> IndependentlyVerified(e)
  BY VerifiedUnchanged
<1>2. RunsArePlanned' /\ FailuresAreFinal' /\ AutomaticReleaseIsSameSession'
  BY DEF EvidenceInv, RunsArePlanned, FailuresAreFinal, AutomaticReleaseIsSameSession
<1>3. AcceptanceIsEarned'
  BY <1>1 DEF EvidenceInv, AcceptanceIsEarned
<1>4. ArtifactsExtendReleasedMemory'
  BY <1>1 DEF EvidenceInv, ArtifactsExtendReleasedMemory
<1>5. ReleasedMemoryVerified'
  BY <1>1 DEF EvidenceInv, ReleasedMemoryVerified
<1> QED
  BY <1>2, <1>3, <1>4, <1>5

\* What is said of the worker's local state survives the steps of others.
LEMMA LocalUnchanged ==
  ASSUME EvidenceInv, UNCHANGED <<evolutionVars, evolutionLog>>,
         released \subseteq released',
         \A i \in 1..Len(revisions) : revisions'[i] = revisions[i]
  PROVE  PracticeIsPlanned' /\ OpenTaskHasNoRun' /\ FreezingIsEarned'
<1>1. worker # "idle" => This' = This
  BY ThisIsStable DEF EvidenceInv
<1>2. PracticeIsPlanned'
  BY <1>1 DEF EvidenceInv, PracticeIsPlanned
<1>3. OpenTaskHasNoRun'
  BY <1>1 DEF EvidenceInv, OpenTaskHasNoRun, Practised, RunsOf
<1>4. FreezingIsEarned'
  BY <1>1, VerifiedUnchanged DEF EvidenceInv, FreezingIsEarned, AcceptedOf
<1> QED
  BY <1>2, <1>3, <1>4

\* A worker that is idle or scanning holds nothing.
LEMMA NothingHeld ==
  ASSUME worker' \in {"idle", "scanning"}
  PROVE  PracticeIsPlanned' /\ OpenTaskHasNoRun' /\ FreezingIsEarned'
BY DEF PracticeIsPlanned, OpenTaskHasNoRun, FreezingIsEarned

LEMMA NextRevisionHoldsNothing ==
  ASSUME NextRevision
  PROVE  worker' \in {"idle", "scanning"}
BY DEF NextRevision, EvolutionStops

LEMMA EvidenceInit == Init => EvidenceInv
<1> SUFFICES ASSUME Init PROVE EvidenceInv
  OBVIOUS
<1>1. TypeOK
  BY InitTypeOK
<1>2. ActiveIsReleased /\ RunsArePlanned /\ AcceptanceIsEarned /\ FailuresAreFinal
  BY DEF Init, NoxInit, ActiveIsReleased, RunsArePlanned, AcceptanceIsEarned,
         FailuresAreFinal
<1>3. PracticeIsPlanned /\ OpenTaskHasNoRun /\ FreezingIsEarned
  BY DEF Init, EvolutionInit, PracticeIsPlanned, OpenTaskHasNoRun, FreezingIsEarned
<1>4. ArtifactsExtendReleasedMemory /\ AutomaticReleaseIsSameSession
  BY DEF Init, NoxInit, ArtifactsExtendReleasedMemory, AutomaticReleaseIsSameSession
<1>5. ReleasedMemoryVerified
  BY DEF Init, NoxInit, Genesis, ReleasedMemoryVerified, Range
<1> QED
  BY <1>1, <1>2, <1>3, <1>4, <1>5 DEF EvidenceInv

LEMMA NoxKeepsEvidence ==
  ASSUME EvidenceInv, NoxNext, UNCHANGED <<learnerVars, evolutionVars>>
  PROVE  EvidenceInv'
<1>0. TypeOK'
  BY NextTypeOK DEF EvidenceInv, Next
<1>1. UNCHANGED <<revisions, evolutionLog>> /\ released \subseteq released'
  BY DEF NoxNext, HandoffReady, Activate, Rollback
<1>2. PracticeIsPlanned' /\ OpenTaskHasNoRun' /\ FreezingIsEarned'
  BY <1>1, LocalUnchanged
<1>3. CASE \E h \in Handoff : HandoffReady(h)
  <2>1. UNCHANGED <<evolutionLog, governance>>
    BY <1>3 DEF HandoffReady
  <2>2. ActiveIsReleased'
    BY <2>1 DEF EvidenceInv, ActiveIsReleased
  <2> QED
    BY <1>0, <1>2, <2>1, <2>2, LogUnchanged DEF EvidenceInv
<1>4. ASSUME NEW a \in artifacts, Rollback(a)
      PROVE  EvidenceInv'
  <2>1. UNCHANGED <<evolutionLog, released>> /\ active' = a.parent
    BY <1>4 DEF Rollback
  <2>2. ActiveIsReleased'
    BY <2>1 DEF EvidenceInv, ActiveIsReleased, ArtifactsExtendReleasedMemory
  <2> QED
    BY <1>0, <1>2, <2>1, <2>2, LogUnchanged DEF EvidenceInv
<1>5. ASSUME NEW a \in artifacts, Activate(a)
      PROVE  EvidenceInv'
  <2>1. /\ active' = a.experiences
        /\ released' = released \cup {a.experiences}
        /\ UNCHANGED evolutionLog
    BY <1>5 DEF Activate
  <2>2. \A e : IndependentlyVerified(e)' <=> IndependentlyVerified(e)
    BY <2>1, VerifiedUnchanged
  <2>3. PICK e \in Experience :
          /\ a.parent \in released
          /\ a.experiences = Append(a.parent, e)
          /\ IndependentlyVerified(e)
    BY DEF EvidenceInv, ArtifactsExtendReleasedMemory
  <2>4. a.parent \in Memory
    BY <2>3 DEF EvidenceInv, TypeOK, NoxTypeOK
  <2>5. \A x \in Range(a.experiences) : IndependentlyVerified(x)
    BY <2>3, <2>4, RangeOfAppend DEF EvidenceInv, ReleasedMemoryVerified
  <2>6. ReleasedMemoryVerified'
    BY <2>1, <2>2, <2>5 DEF EvidenceInv, ReleasedMemoryVerified
  <2>7. ActiveIsReleased' /\ RunsArePlanned' /\ FailuresAreFinal'
        /\ AutomaticReleaseIsSameSession'
    BY <2>1 DEF EvidenceInv, ActiveIsReleased, RunsArePlanned, FailuresAreFinal,
                AutomaticReleaseIsSameSession
  <2>8. AcceptanceIsEarned' /\ ArtifactsExtendReleasedMemory'
    BY <2>1, <2>2 DEF EvidenceInv, AcceptanceIsEarned, ArtifactsExtendReleasedMemory
  <2> QED
    BY <1>0, <1>2, <2>6, <2>7, <2>8 DEF EvidenceInv
<1> QED
  BY <1>3, <1>4, <1>5 DEF NoxNext

LEMMA LearnerKeepsEvidence ==
  ASSUME EvidenceInv, LearnerStep \/ LearnerAborts, UNCHANGED evolutionVars
  PROVE  EvidenceInv'
<1>1. TypeOK'
  BY NextTypeOK DEF EvidenceInv, Next
<1>2. UNCHANGED <<evolutionLog, governance>>
  BY DEF LearnerStep, LearnerAborts, FetchPending, TakeHandoff, RefuseHandoff,
         Reconcile, SubmitBatch
<1>3. PracticeIsPlanned' /\ OpenTaskHasNoRun' /\ FreezingIsEarned'
  BY <1>2, RevisionsGrow, LocalUnchanged DEF EvidenceInv
<1>4. ActiveIsReleased'
  BY <1>2 DEF EvidenceInv, ActiveIsReleased
<1> QED
  BY <1>1, <1>2, <1>3, <1>4, LogUnchanged DEF EvidenceInv

\* Steps of the evolution worker that only change its local state.
LEMMA LocalStepKeepsEvidence ==
  ASSUME EvidenceInv, TypeOK', UNCHANGED noxVars,
         PracticeIsPlanned', OpenTaskHasNoRun', FreezingIsEarned'
  PROVE  EvidenceInv'
BY LogUnchanged DEF EvidenceInv, ActiveIsReleased

LEMMA PracticeStepKeepsEvidence ==
  ASSUME EvidenceInv, TypeOK',
         \/ \E e \in Experience : BeginPractice(e)
         \/ \E t \in Task : PassOver(t) \/ RunnerAnswers(t)
  PROVE  EvidenceInv'
<1>1. /\ UNCHANGED <<noxVars, position>>
      /\ worker # "idle" /\ worker' \in {"practising", "closing"}
  BY DEF BeginPractice, ToExperiment, PassOver, RunnerAnswers, AtTask
<1>2. This' = This
  BY <1>1, ThisIsStable DEF EvidenceInv
<1>3. PracticeIsPlanned'
  <2>1. CASE \E e \in Experience : BeginPractice(e)
    BY <1>1, <1>2, <2>1 DEF BeginPractice, ToExperiment, PlansFor, PracticeIsPlanned
  <2>2. CASE \E t \in Task : PassOver(t) \/ RunnerAnswers(t)
    BY <1>1, <1>2, <2>2 DEF PassOver, RunnerAnswers, AtTask, EvidenceInv,
                            PracticeIsPlanned
  <2> QED
    BY <2>1, <2>2
<1>4. OpenTaskHasNoRun'
  <2>1. CASE \E t \in Task : RunnerAnswers(t)
    BY <1>1, <1>2, <2>1 DEF RunnerAnswers, AtTask, OpenTaskHasNoRun, Practised, RunsOf
  <2>2. CASE \/ \E e \in Experience : BeginPractice(e)
             \/ \E t \in Task : PassOver(t)
    BY <2>2 DEF BeginPractice, PassOver, AtTask, OpenTaskHasNoRun
  <2> QED
    BY <2>1, <2>2
<1>5. FreezingIsEarned'
  BY <1>1 DEF FreezingIsEarned
<1> QED
  BY <1>1, <1>3, <1>4, <1>5, LocalStepKeepsEvidence

LEMMA ReadActiveMemoryKeepsEvidence ==
  ASSUME EvidenceInv, TypeOK', ReadActiveMemory
  PROVE  EvidenceInv'
<1> DEFINE e == This.candidate
<1>1. /\ UNCHANGED <<noxVars, position>>
      /\ worker = "scanning" /\ worker' = "freezing" /\ base' = active
  BY DEF ReadActiveMemory, ToFreeze
<1>2. This' = This
  BY <1>1, ThisIsStable DEF EvidenceInv
<1>3. /\ EvaluationOf(e) \in evaluations
      /\ EvaluationOf(e).revision = e
      /\ EvaluationOf(e).decision = "accepted"
  BY EvaluationOfEvaluated DEF ReadActiveMemory, ToFreeze
<1>4. IndependentlyVerified(e) /\ AcceptedOf(e) # {}
  BY <1>3 DEF EvidenceInv, AcceptanceIsEarned, AcceptedOf
<1>5. FreezingIsEarned'
  BY <1>1, <1>2, <1>4, VerifiedUnchanged
     DEF FreezingIsEarned, EvidenceInv, ActiveIsReleased, AcceptedOf
<1>6. PracticeIsPlanned' /\ OpenTaskHasNoRun'
  BY <1>1 DEF PracticeIsPlanned, OpenTaskHasNoRun
<1> QED
  BY <1>1, <1>5, <1>6, LocalStepKeepsEvidence

LEMMA PostEvaluationKeepsEvidence ==
  ASSUME EvidenceInv, TypeOK', PostEvaluation
  PROVE  EvidenceInv'
<1> DEFINE e == This.candidate
           v == Evaluate(e, DatasetOf(e))
<1>1. /\ worker' = "scanning"
      /\ evaluations' = evaluations \cup {v}
      /\ UNCHANGED <<governance, practiceLog, artifacts>>
  BY DEF PostEvaluation
<1>2. \A x : IndependentlyVerified(x)' <=> IndependentlyVerified(x)
  BY <1>1, VerifiedUnchanged
<1>3. v.revision = e /\ (v.eligible => Source(e) \in SameSession)
  BY DEF Evaluate
<1>4. v.decision = "accepted" => IndependentlyVerified(e)
  BY AcceptedIsVerified
<1> HIDE DEF v
<1>5. AcceptanceIsEarned'
  BY <1>1, <1>2, <1>3, <1>4 DEF EvidenceInv, AcceptanceIsEarned
<1>6. PracticeIsPlanned' /\ OpenTaskHasNoRun' /\ FreezingIsEarned'
  BY <1>1, NothingHeld
<1>7. ActiveIsReleased' /\ RunsArePlanned' /\ FailuresAreFinal'
      /\ AutomaticReleaseIsSameSession'
  BY <1>1 DEF EvidenceInv, ActiveIsReleased, RunsArePlanned, FailuresAreFinal,
              AutomaticReleaseIsSameSession
<1>8. ArtifactsExtendReleasedMemory' /\ ReleasedMemoryVerified'
  BY <1>1, <1>2 DEF EvidenceInv, ArtifactsExtendReleasedMemory, ReleasedMemoryVerified
<1> QED
  BY <1>5, <1>6, <1>7, <1>8 DEF EvidenceInv

\* Every experience that is spoken of in a memory is a typed one.
LEMMA ReleasedExperiences ==
  ASSUME TypeOK, NEW m \in released, NEW e \in Range(m)
  PROVE  e \in Experience
BY DEF TypeOK, NoxTypeOK, Memory, Range

\* What rests on verified experiences survives a step that keeps them so.
LEMMA VerifiedKept ==
  ASSUME EvidenceInv, UNCHANGED <<governance, evaluations, artifacts>>,
         \A e \in Experience : IndependentlyVerified(e) => IndependentlyVerified(e)'
  PROVE  /\ AcceptanceIsEarned' /\ ArtifactsExtendReleasedMemory'
         /\ ReleasedMemoryVerified' /\ ActiveIsReleased'
         /\ AutomaticReleaseIsSameSession'
<1>1. AcceptanceIsEarned'
  <2>1. \A v \in evaluations : v.revision \in Experience
    BY DEF EvidenceInv, TypeOK, NoxTypeOK, Evaluation
  <2> QED
    BY <2>1 DEF EvidenceInv, AcceptanceIsEarned
<1>2. ArtifactsExtendReleasedMemory'
  BY DEF EvidenceInv, ArtifactsExtendReleasedMemory
<1>3. ReleasedMemoryVerified'
  BY ReleasedExperiences DEF EvidenceInv, ReleasedMemoryVerified
<1>4. ActiveIsReleased' /\ AutomaticReleaseIsSameSession'
  BY DEF EvidenceInv, ActiveIsReleased, AutomaticReleaseIsSameSession
<1> QED
  BY <1>1, <1>2, <1>3, <1>4

LEMMA PostCurriculumKeepsEvidence ==
  ASSUME EvidenceInv, TypeOK', NEW e \in Experience, PostCurriculum(e)
  PROVE  EvidenceInv'
<1>1. /\ worker' = "scanning"
      /\ UNCHANGED <<governance, evaluations, practiceRuns, artifacts>>
  BY DEF PostCurriculum, ToExperiment
<1>2. \A x \in Experience : \A n \in DOMAIN curricula[x] :
        n \in DOMAIN curricula'[x] /\ curricula'[x][n] = curricula[x][n]
  BY CurriculaGrow DEF EvidenceInv, TypeOK
<1>3. \A x \in Experience : IndependentlyVerified(x) => IndependentlyVerified(x)'
  BY <1>1, <1>2, VerifiedIsStable
<1>4. RunsArePlanned'
  <2>1. \A run \in practiceRuns : run.revision \in Experience
    BY DEF EvidenceInv, TypeOK, NoxTypeOK, PracticeRun
  <2> QED
    BY <1>1, <1>2, <2>1 DEF EvidenceInv, RunsArePlanned
<1>5. FailuresAreFinal'
  BY <1>1 DEF EvidenceInv, FailuresAreFinal
<1>6. PracticeIsPlanned' /\ OpenTaskHasNoRun' /\ FreezingIsEarned'
  BY <1>1, NothingHeld
<1> QED
  BY <1>1, <1>3, <1>4, <1>5, <1>6, VerifiedKept DEF EvidenceInv

LEMMA PostPracticeRunKeepsEvidence ==
  ASSUME EvidenceInv, TypeOK', PostPracticeRun
  PROVE  EvidenceInv'
<1> DEFINE e == This.candidate
           run == [revision |-> e, plan |-> plan, task |-> task, passed |-> verdict]
<1>1. /\ worker = "closing" /\ worker' = "practising"
      /\ practiceRuns' = practiceRuns \cup {run}
      /\ UNCHANGED <<plan, position, revisions, governance, evaluations,
                     curricula, artifacts>>
  BY DEF PostPracticeRun
<1>2. This' = This
  BY <1>1, ThisIsStable DEF EvidenceInv
<1>3. /\ run.revision = e /\ run.plan = plan /\ run.task = task
      /\ plan \in DOMAIN curricula[e]
  BY <1>1 DEF EvidenceInv, PracticeIsPlanned
<1>4. ~ \E other \in practiceRuns :
          other.revision = e /\ other.plan = plan /\ other.task = task
  BY <1>1 DEF EvidenceInv, OpenTaskHasNoRun, Practised, RunsOf
<1>5. PracticeIsPlanned' /\ OpenTaskHasNoRun' /\ FreezingIsEarned'
  BY <1>1, <1>2, <1>3 DEF PracticeIsPlanned, OpenTaskHasNoRun, FreezingIsEarned
<1> HIDE DEF run, e
<1>6. \A x \in Experience : IndependentlyVerified(x) => IndependentlyVerified(x)'
  BY <1>1, <1>3, <1>4, VerifiedIsStable
<1>7. RunsArePlanned'
  BY <1>1, <1>3 DEF EvidenceInv, RunsArePlanned
<1>8. FailuresAreFinal'
  BY <1>1, <1>3, <1>4 DEF EvidenceInv, FailuresAreFinal
<1> QED
  BY <1>1, <1>5, <1>6, <1>7, <1>8, VerifiedKept DEF EvidenceInv

LEMMA PostArtifactKeepsEvidence ==
  ASSUME EvidenceInv, TypeOK', PostArtifact
  PROVE  EvidenceInv'
<1> DEFINE e == This.candidate
           a == FrozenCandidate(e)
<1>1. /\ artifacts' = artifacts \cup {a}
      /\ UNCHANGED <<governance, evaluations, practiceLog>>
  BY DEF PostArtifact
<1>2. e \in Experience
  BY ThisType DEF PostArtifact, EvidenceInv
<1>3. base \in released /\ IndependentlyVerified(e) /\ AcceptedOf(e) # {}
  BY DEF PostArtifact, EvidenceInv, FreezingIsEarned
<1>4. base \in Seq(Experience)
  BY DEF EvidenceInv, TypeOK, EvolutionTypeOK, Memory
<1>5. PracticeIsPlanned' /\ OpenTaskHasNoRun' /\ FreezingIsEarned'
  BY NextRevisionHoldsNothing, NothingHeld DEF PostArtifact
<1> HIDE DEF e
<1>6. /\ a.parent = base /\ a.experiences = Append(base, e)
      /\ a.eligible <=> \A v \in AcceptedOf(e) : v.eligible
  BY DEF FrozenCandidate
<1>7. a.experiences[Len(a.experiences)] = e
  BY <1>2, <1>4, <1>6
<1>8. a.eligible => Source(e) \in SameSession
  BY <1>3, <1>6 DEF AcceptedOf, EvidenceInv, AcceptanceIsEarned
<1> HIDE DEF a
<1>9. \A x : IndependentlyVerified(x)' <=> IndependentlyVerified(x)
  BY <1>1, VerifiedUnchanged
<1>10. ArtifactsExtendReleasedMemory'
  BY <1>1, <1>2, <1>3, <1>6, <1>9 DEF EvidenceInv, ArtifactsExtendReleasedMemory
<1>11. AutomaticReleaseIsSameSession'
  BY <1>1, <1>7, <1>8 DEF EvidenceInv, AutomaticReleaseIsSameSession
<1>12. AcceptanceIsEarned' /\ ReleasedMemoryVerified'
  BY <1>1, <1>9 DEF EvidenceInv, AcceptanceIsEarned, ReleasedMemoryVerified
<1>13. ActiveIsReleased' /\ RunsArePlanned' /\ FailuresAreFinal'
  BY <1>1 DEF EvidenceInv, ActiveIsReleased, RunsArePlanned, FailuresAreFinal
<1> QED
  BY <1>5, <1>10, <1>11, <1>12, <1>13 DEF EvidenceInv

LEMMA EvolutionKeepsEvidence ==
  ASSUME EvidenceInv, EvolutionStep \/ EvolutionFails, UNCHANGED learnerVars
  PROVE  EvidenceInv'
<1>0. TypeOK'
  BY NextTypeOK DEF EvidenceInv, Next
<1>1. ASSUME worker' \in {"idle", "scanning"}, UNCHANGED noxVars
      PROVE  EvidenceInv'
  BY <1>0, <1>1, NothingHeld, LocalStepKeepsEvidence
<1>2. CASE EvolutionFails \/ ReadEvents
  BY <1>1, <1>2 DEF EvolutionFails, EvolutionAborts, RunnerMisbinds,
                    EvolutionStops, ReadEvents
<1>3. CASE Skip \/ EndPractice \/ PassRejected \/ PassStale
  BY <1>1, <1>3, NextRevisionHoldsNothing
     DEF Skip, EndPractice, PassRejected, PassStale
<1>4. CASE \/ \E e \in Experience : BeginPractice(e)
           \/ \E t \in Task : PassOver(t) \/ RunnerAnswers(t)
  BY <1>0, <1>4, PracticeStepKeepsEvidence
<1>5. CASE ReadActiveMemory
  BY <1>0, <1>5, ReadActiveMemoryKeepsEvidence
<1>6. CASE PostEvaluation
  BY <1>0, <1>6, PostEvaluationKeepsEvidence
<1>7. CASE \E e \in Experience : PostCurriculum(e)
  BY <1>0, <1>7, PostCurriculumKeepsEvidence
<1>8. CASE PostPracticeRun
  BY <1>0, <1>8, PostPracticeRunKeepsEvidence
<1>9. CASE PostArtifact
  BY <1>0, <1>9, PostArtifactKeepsEvidence
<1> QED
  BY <1>2, <1>3, <1>4, <1>5, <1>6, <1>7, <1>8, <1>9 DEF EvolutionStep

LEMMA EvidenceStep == EvidenceInv /\ [Next]_vars => EvidenceInv'
<1> SUFFICES ASSUME EvidenceInv, [Next]_vars PROVE EvidenceInv'
  OBVIOUS
<1>1. CASE NoxNext /\ UNCHANGED <<learnerVars, evolutionVars>>
  BY <1>1, NoxKeepsEvidence
<1>2. CASE (LearnerStep \/ LearnerAborts) /\ UNCHANGED evolutionVars
  BY <1>2, LearnerKeepsEvidence
<1>3. CASE (EvolutionStep \/ EvolutionFails) /\ UNCHANGED learnerVars
  BY <1>3, EvolutionKeepsEvidence
<1>4. CASE UNCHANGED vars
  <2>1. TypeOK'
    BY NextTypeOK DEF EvidenceInv
  <2>2. PracticeIsPlanned' /\ OpenTaskHasNoRun' /\ FreezingIsEarned'
    BY <1>4, LocalUnchanged
  <2> QED
    BY <1>4, <2>1, <2>2, LocalStepKeepsEvidence
<1> QED
  BY <1>1, <1>2, <1>3, <1>4 DEF Next

\* The evidence invariant holds throughout, for any number of handoffs,
\* conclusions, interruptions and activations.
THEOREM EvidenceKept == Spec => []EvidenceInv
BY EvidenceInit, EvidenceStep, PTL DEF Spec

\* Nothing enters released memory without independent verification.
THEOREM ReleasedVerified == Spec => []ReleasedMemoryVerified
<1>1. EvidenceInv => ReleasedMemoryVerified
  BY DEF EvidenceInv
<1> QED
  BY <1>1, EvidenceKept, PTL

\* Every frozen candidate adds one verified experience to a memory that was
\* active.
THEOREM ArtifactsExtendReleased == Spec => []ArtifactsExtendReleasedMemory
<1>1. EvidenceInv => ArtifactsExtendReleasedMemory
  BY DEF EvidenceInv
<1> QED
  BY <1>1, EvidenceKept, PTL

\* No practice task of a curriculum is ever run to a second verdict.
THEOREM FailuresStay == Spec => []FailuresAreFinal
<1>1. EvidenceInv => FailuresAreFinal
  BY DEF EvidenceInv
<1> QED
  BY <1>1, EvidenceKept, PTL

\* Only what a same-session handoff concluded is released without review.
THEOREM AutomaticReleaseIsEarned == Spec => []AutomaticReleaseIsSameSession
<1>1. EvidenceInv => AutomaticReleaseIsSameSession
  BY DEF EvidenceInv
<1> QED
  BY <1>1, EvidenceKept, PTL

-----------------------------------------------------------------------------
(* The lifecycle implements the governed memory.                           *)

\* A step that only appends a curriculum verifies nothing: its tasks have no
\* run, and it has a task.
LEMMA PostCurriculumVerifiesNothing ==
  ASSUME EvidenceInv, NEW e \in Experience, PostCurriculum(e)
  PROVE  VerifiedExperiences' = VerifiedExperiences
<1>1. UNCHANGED practiceRuns
  BY DEF PostCurriculum
<1>2. \A x \in Experience : \A n \in DOMAIN curricula[x] :
        n \in DOMAIN curricula'[x] /\ curricula'[x][n] = curricula[x][n]
  BY CurriculaGrow DEF EvidenceInv, TypeOK
<1>3. \A x \in Experience : IndependentlyVerified(x) => IndependentlyVerified(x)'
  BY <1>1, <1>2, VerifiedIsStable
<1>4. ASSUME NEW x \in Experience, IndependentlyVerified(x)'
      PROVE  IndependentlyVerified(x)
  <2>1. PICK n \in DOMAIN curricula'[x] :
          \A t \in TasksOf(x, n)' :
            /\ \E run \in RunsOf(x, n)' : run.task = t /\ run.passed
            /\ ~ \E run \in RunsOf(x, n)' : run.task = t /\ ~run.passed
    BY <1>4 DEF IndependentlyVerified
  <2>2. RunsOf(x, n)' = RunsOf(x, n)
    BY <1>1 DEF RunsOf
  <2>3. 1 \in TasksOf(x, n)'
    BY DEF TasksOf, PracticeTasks
  <2>4. n \in DOMAIN curricula[x]
    BY <2>1, <2>2, <2>3 DEF RunsOf, EvidenceInv, RunsArePlanned
  <2>5. TasksOf(x, n)' = TasksOf(x, n)
    BY <1>2, <2>4 DEF TasksOf
  <2> QED
    BY <1>4, <2>1, <2>2, <2>4, <2>5 DEF IndependentlyVerified
<1> QED
  BY <1>3, <1>4 DEF VerifiedExperiences

\* A practice run verifies at most the candidate it is a run of.
LEMMA PostPracticeRunVerifiesOne ==
  ASSUME EvidenceInv, PostPracticeRun
  PROVE  \/ VerifiedExperiences' = VerifiedExperiences
         \/ /\ This.candidate \in Experience \ VerifiedExperiences
            /\ VerifiedExperiences' = VerifiedExperiences \cup {This.candidate}
<1> DEFINE e == This.candidate
           run == [revision |-> e, plan |-> plan, task |-> task, passed |-> verdict]
<1>1. UNCHANGED curricula /\ practiceRuns' = practiceRuns \cup {run}
  BY DEF PostPracticeRun
<1>2. run.revision = e /\ run.plan = plan /\ run.task = task
  OBVIOUS
<1>3. ~ \E other \in practiceRuns :
          other.revision = e /\ other.plan = plan /\ other.task = task
  BY DEF PostPracticeRun, EvidenceInv, OpenTaskHasNoRun, Practised, RunsOf
<1>4. e \in Experience
  BY ThisType DEF PostPracticeRun, EvidenceInv
<1> HIDE DEF run, e
<1>5. \A x \in Experience : IndependentlyVerified(x) => IndependentlyVerified(x)'
  BY <1>1, <1>2, <1>3, VerifiedIsStable
<1>6. ASSUME NEW x \in Experience, x # e, IndependentlyVerified(x)'
      PROVE  IndependentlyVerified(x)
  <2>1. \A n : RunsOf(x, n)' = RunsOf(x, n)
    BY <1>1, <1>2, <1>6 DEF RunsOf
  <2> QED
    BY <1>1, <1>6, <2>1 DEF IndependentlyVerified, TasksOf
<1>7. \/ VerifiedExperiences' = VerifiedExperiences
      \/ /\ e \in Experience \ VerifiedExperiences
         /\ VerifiedExperiences' = VerifiedExperiences \cup {e}
  BY <1>4, <1>5, <1>6 DEF VerifiedExperiences
<1> QED
  BY <1>7 DEF e

LEMMA GovernedInit == Init => Governed!Init
<1> SUFFICES ASSUME Init PROVE Governed!Init
  OBVIOUS
<1>1. VerifiedExperiences = {}
  BY DEF Init, NoxInit, VerifiedExperiences, IndependentlyVerified
<1>2. Proposals = {}
  BY DEF Init, NoxInit, Proposals
<1> QED
  BY <1>1, <1>2 DEF Init, NoxInit, Governed!Init

LEMMA GovernedStutter ==
  ASSUME UNCHANGED <<governance, artifacts>>,
         VerifiedExperiences' = VerifiedExperiences
  PROVE  UNCHANGED Governed!governedVars
BY DEF Proposals, Governed!governedVars

LEMMA GovernedStep ==
  EvidenceInv /\ [Next]_vars => [Governed!Next]_(Governed!governedVars)
<1> SUFFICES ASSUME EvidenceInv, [Next]_vars
             PROVE  [Governed!Next]_(Governed!governedVars)
  OBVIOUS
<1>1. ASSUME UNCHANGED practiceLog
      PROVE  VerifiedExperiences' = VerifiedExperiences
  BY <1>1, VerifiedUnchanged DEF VerifiedExperiences
<1>2. ASSUME UNCHANGED <<governance, practiceLog, artifacts>>
      PROVE  UNCHANGED Governed!governedVars
  BY <1>1, <1>2, GovernedStutter
<1>3. CASE NoxNext
  <2>1. CASE \E h \in Handoff : HandoffReady(h)
    BY <1>2, <2>1 DEF HandoffReady
  <2>2. ASSUME NEW a \in artifacts, Activate(a) \/ Rollback(a)
        PROVE  Governed!Next
    <3> DEFINE p == [parent |-> a.parent, experiences |-> a.experiences]
    <3>1. p \in Proposals /\ p.parent = a.parent /\ p.experiences = a.experiences
      BY DEF Proposals
    <3>2. UNCHANGED <<practiceLog, artifacts>>
      BY <2>2 DEF Activate, Rollback
    <3>3. VerifiedExperiences' = VerifiedExperiences /\ Proposals' = Proposals
      BY <1>1, <3>2 DEF Proposals
    <3> HIDE DEF p
    <3>4. Governed!Activate(p) \/ Governed!Rollback(p)
      BY <2>2, <3>1, <3>3
         DEF Activate, Rollback, Governed!Activate, Governed!Rollback
    <3> QED
      BY <3>1, <3>4 DEF Governed!Next
  <2> QED
    BY <1>3, <2>1, <2>2 DEF NoxNext
<1>4. CASE LearnerStep \/ LearnerAborts
  BY <1>2, <1>4 DEF LearnerStep, LearnerAborts, FetchPending, TakeHandoff,
                    RefuseHandoff, Reconcile, SubmitBatch
<1>5. CASE \E e \in Experience : PostCurriculum(e)
  BY <1>5, PostCurriculumVerifiesNothing, GovernedStutter DEF PostCurriculum
<1>6. CASE PostPracticeRun
  <2>1. CASE VerifiedExperiences' = VerifiedExperiences
    BY <1>6, <2>1, GovernedStutter DEF PostPracticeRun
  <2>2. CASE /\ This.candidate \in Experience \ VerifiedExperiences
             /\ VerifiedExperiences' = VerifiedExperiences \cup {This.candidate}
    <3>1. UNCHANGED <<Proposals, active, released>>
      BY <1>6 DEF PostPracticeRun, Proposals
    <3>2. Governed!Verify(This.candidate)
      BY <2>2, <3>1 DEF Governed!Verify
    <3> QED
      BY <2>2, <3>2 DEF Governed!Next
  <2> QED
    BY <1>6, <2>1, <2>2, PostPracticeRunVerifiesOne
<1>7. CASE PostArtifact
  <2> DEFINE e == This.candidate
             a == FrozenCandidate(e)
  <2>1. e \in Experience /\ base \in released /\ IndependentlyVerified(e)
    BY <1>7, ThisType DEF PostArtifact, EvidenceInv, FreezingIsEarned
  <2>2. /\ artifacts' = artifacts \cup {a}
        /\ UNCHANGED <<governance, practiceLog>>
    BY <1>7 DEF PostArtifact
  <2> HIDE DEF e
  <2>3. a.parent = base /\ a.experiences = Append(base, e)
    BY DEF FrozenCandidate
  <2> HIDE DEF a
  <2>4. Proposals' = Proposals \cup {[parent |-> base, experiences |-> Append(base, e)]}
    BY <2>2, <2>3 DEF Proposals
  <2>5. Governed!Propose(base, e)
    BY <1>1, <2>1, <2>2, <2>4 DEF Governed!Propose, VerifiedExperiences
  <2> QED
    BY <2>1, <2>5 DEF Governed!Next
<1>8. CASE EvolutionFails
  BY <1>2, <1>8 DEF EvolutionFails, EvolutionAborts, RunnerMisbinds
<1>9. CASE \/ ReadEvents \/ Skip \/ EndPractice \/ PassRejected
           \/ ReadActiveMemory \/ PassStale
           \/ \E e \in Experience : BeginPractice(e)
           \/ \E t \in Task : PassOver(t) \/ RunnerAnswers(t)
  BY <1>2, <1>9 DEF ReadEvents, Skip, EndPractice, PassRejected, ReadActiveMemory,
                    PassStale, BeginPractice, PassOver, RunnerAnswers
<1>10. CASE PostEvaluation
  BY <1>2, <1>10 DEF PostEvaluation
<1>11. CASE UNCHANGED vars
  BY <1>2, <1>11
<1> QED
  BY <1>3, <1>4, <1>5, <1>6, <1>7, <1>8, <1>9, <1>10, <1>11
     DEF Next, EvolutionStep

\* KEE's workers and NOX together implement the governed memory, whatever
\* they learn and however they are interrupted.
THEOREM LifecycleImplementsGovernedMemory == Spec => ImplementsGovernedMemory
BY GovernedInit, GovernedStep, EvidenceKept, PTL
   DEF Spec, ImplementsGovernedMemory, Governed!Spec

-----------------------------------------------------------------------------
(* Verdicts.                                                               *)

\* Sequences that are not longer than two, and what appending makes of one.
LEMMA ShortSequence ==
  ASSUME NEW S, NEW s \in Seq(S), Len(s) <= 2
  PROVE  /\ DOMAIN s = 1..Len(s) /\ Len(s) \in 0..2
         /\ s # <<>> <=> Len(s) \in 1..2
         /\ \A n \in DOMAIN s : n = 1 \/ (n = 2 /\ Len(s) = 2)
<1>1. Len(s) \in Nat /\ DOMAIN s = 1..Len(s)
  OBVIOUS
<1>2. s = <<>> <=> Len(s) = 0
  OBVIOUS
<1>3. Len(s) \in 0..2
  BY <1>1
<1>4. s # <<>> <=> Len(s) \in 1..2
  BY <1>2, <1>3
<1>5. \A n \in 1..Len(s) : n = 1 \/ (n = 2 /\ Len(s) = 2)
  <2> DEFINE k == Len(s)
  <2> HIDE DEF k
  <2>1. k \in Int /\ k <= 2
    BY <1>3 DEF k
  <2>2. \A n \in 1..k : n = 1 \/ (n = 2 /\ k = 2)
    BY <2>1
  <2> QED
    BY <2>2 DEF k
<1> QED
  BY <1>1, <1>3, <1>4, <1>5

LEMMA AppendedLast ==
  ASSUME NEW S, NEW s \in Seq(S), NEW x \in S
  PROVE  /\ Append(s, x) \in Seq(S)
         /\ Len(Append(s, x)) = Len(s) + 1
         /\ Append(s, x)[Len(s) + 1] = x
  OBVIOUS

\* A revision is evaluated on its first curriculum once that is complete.
LEMMA DatasetIs ==
  ASSUME NoxTypeOK, CurriculaAreChained, NEW e \in Experience
  PROVE  DatasetOf(e) = IF curricula[e] # <<>> /\ Complete(e, 1)
                        THEN PracticeDataset(e, 1) ELSE BootstrapDataset
<1>0. curricula[e] \in Seq(Dataset) /\ Len(curricula[e]) <= 2
  BY DEF NoxTypeOK, CurriculaAreChained
<1>1. CASE curricula[e] # <<>> /\ Complete(e, 1)
  <2>1. 1 \in DOMAIN curricula[e] /\ FirstComplete(e, 1)
    BY <1>0, <1>1 DEF FirstComplete
  <2>2. \A n \in DOMAIN curricula[e] : FirstComplete(e, n) => n = 1
    BY <1>0, <1>1, <2>1 DEF FirstComplete
  <2>3. (CHOOSE n \in DOMAIN curricula[e] : FirstComplete(e, n)) = 1
    BY <2>1, <2>2
  <2> QED
    BY <1>1, <2>1, <2>3 DEF DatasetOf
<1>2. CASE ~(curricula[e] # <<>> /\ Complete(e, 1))
  <2>1. \A n \in DOMAIN curricula[e] : n = 1 \/ (n = 2 /\ Len(curricula[e]) = 2)
    BY <1>0, ShortSequence
  <2>2. ~ \E n \in DOMAIN curricula[e] : FirstComplete(e, n)
    BY <1>0, <1>2, <2>1 DEF FirstComplete, CurriculaAreChained
  <2> QED
    BY <1>2, <2>2 DEF DatasetOf
<1> QED
  BY <1>1, <1>2

\* The author's own result decides nothing.
LEMMA BootstrapDecidesNothing ==
  ASSUME NEW e
  PROVE  Evaluate(e, BootstrapDataset).decision = "needs_experiment"
<1> DEFINE d == BootstrapDataset
<1>1. CandidateWins(d) = {BootstrapCase} /\ ParentWins(d) = {BootstrapCase}
  BY DEF CandidateWins, ParentWins, BootstrapDataset, BootstrapCase
<1>2. Transfers(d) = {} /\ Supporting(d) = {} /\ d.cases = {BootstrapCase}
  BY DEF Transfers, Supporting, BootstrapDataset, BootstrapCase
<1>3. Cardinality({BootstrapCase}) = 1 /\ Cardinality({}) = 0
  BY FS_Singleton, FS_EmptySet
<1>4. ~Regresses(d)
  BY <1>1, <1>3 DEF Regresses
<1>5. ~TransfersTooOften(d)
  BY <1>2, <1>3 DEF TransfersTooOften
<1> QED
  BY <1>2, <1>4, <1>5 DEF Evaluate, Decide

\* What the worker still experiments with has no verdict.
LEMMA OpenIsUndecided ==
  ASSUME VerdictInv, NEW e \in Experience, ToExperiment(e)
  PROVE  ~Decided(e)
<1> SUFFICES ASSUME NEW v \in evaluations, v.revision = e, v.decision # "needs_experiment"
             PROVE  FALSE
  BY DEF Decided
<1>1. v = Evaluate(e, v.dataset)
  BY DEF VerdictInv, EvaluationsStand
<1>2. /\ curricula[e] # <<>> /\ Complete(e, 1)
      /\ v.dataset = PracticeDataset(e, 1)
  BY <1>1, BootstrapDecidesNothing DEF VerdictInv, EvaluationsStand
<1>3. v.dataset = DatasetOf(e)
  BY <1>2, DatasetIs DEF VerdictInv, EvidenceInv, TypeOK
<1>4. Evaluated(e) /\ EvaluationOf(e).decision = "needs_experiment"
  BY DEF ToExperiment
<1>5. /\ EvaluationOf(e) \in evaluations
      /\ EvaluationOf(e).revision = e /\ EvaluationOf(e).dataset = DatasetOf(e)
  BY <1>4 DEF Evaluated, EvaluationOf
<1>6. EvaluationOf(e) = v
  BY <1>1, <1>3, <1>5 DEF VerdictInv, EvaluationsStand
<1> QED
  BY <1>4, <1>6

LEMMA VerdictLogUnchanged ==
  ASSUME VerdictInv, UNCHANGED <<evaluations, practiceLog>>
  PROVE  CurriculaAreChained' /\ EvaluationsStand'
<1>1. CurriculaAreChained'
  BY DEF VerdictInv, CurriculaAreChained, Complete, TasksOf, RunsOf, PracticeDataset
<1>2. EvaluationsStand'
  BY DEF VerdictInv, EvaluationsStand, Complete, TasksOf, RunsOf, PracticeDataset
<1> QED
  BY <1>1, <1>2

\* A worker that does not practise has nothing open.
LEMMA NothingOpen ==
  ASSUME worker' \notin {"practising", "closing"}
  PROVE  PracticeIsOpen'
BY DEF PracticeIsOpen

LEMMA OthersKeepPractice ==
  ASSUME VerdictInv, UNCHANGED <<evolutionVars, evaluations, curricula>>,
         \A i \in 1..Len(revisions) : revisions'[i] = revisions[i]
  PROVE  PracticeIsOpen'
<1>1. worker # "idle" => This' = This
  BY ThisIsStable DEF VerdictInv, EvidenceInv
<1> QED
  BY <1>1 DEF VerdictInv, PracticeIsOpen, TasksOf, Decided

LEMMA PracticeStepKeepsVerdicts ==
  ASSUME VerdictInv, TypeOK',
         \/ \E e \in Experience : BeginPractice(e)
         \/ \E t \in Task : PassOver(t) \/ RunnerAnswers(t)
  PROVE  PracticeIsOpen'
<1>1. /\ UNCHANGED <<noxVars, position>>
      /\ worker # "idle" /\ worker' \in {"practising", "closing"}
  BY DEF BeginPractice, ToExperiment, PassOver, RunnerAnswers, AtTask
<1>2. This' = This
  BY <1>1, ThisIsStable DEF VerdictInv, EvidenceInv
<1>3. ~Decided(This.candidate)
  <2>1. CASE \E e \in Experience : BeginPractice(e)
    BY <2>1, OpenIsUndecided DEF BeginPractice, ToExperiment
  <2>2. CASE \E t \in Task : PassOver(t) \/ RunnerAnswers(t)
    BY <2>2 DEF PassOver, RunnerAnswers, AtTask, VerdictInv, PracticeIsOpen
  <2> QED
    BY <2>1, <2>2
<1>4. ~Decided(This.candidate)'
  BY <1>1, <1>2, <1>3 DEF Decided
<1>5. worker' = "closing" => task' \in TasksOf(This.candidate, plan)'
  BY <1>1, <1>2 DEF BeginPractice, PassOver, RunnerAnswers, AtTask, TasksOf
<1> QED
  BY <1>4, <1>5 DEF PracticeIsOpen

LEMMA PostEvaluationKeepsVerdicts ==
  ASSUME VerdictInv, TypeOK', PostEvaluation
  PROVE  CurriculaAreChained' /\ EvaluationsStand' /\ PracticeIsOpen'
<1> DEFINE e == This.candidate
           v == Evaluate(e, DatasetOf(e))
<1>1. /\ worker' = "scanning"
      /\ evaluations' = evaluations \cup {v}
      /\ UNCHANGED practiceLog
  BY DEF PostEvaluation
<1>2. e \in Experience
  BY ThisType DEF PostEvaluation, VerdictInv, EvidenceInv
<1>3. v.revision = e /\ v.dataset = DatasetOf(e) /\ v = Evaluate(v.revision, v.dataset)
  BY DEF Evaluate
<1>4. \/ v.dataset = BootstrapDataset
      \/ /\ curricula[v.revision] # <<>> /\ Complete(v.revision, 1)
         /\ v.dataset = PracticeDataset(v.revision, 1)
  BY <1>2, <1>3, DatasetIs DEF VerdictInv, EvidenceInv, TypeOK
<1> HIDE DEF v
<1>5. CurriculaAreChained'
  BY <1>1 DEF VerdictInv, CurriculaAreChained, Complete, TasksOf, RunsOf, PracticeDataset
<1>6. EvaluationsStand'
  <2> SUFFICES ASSUME NEW w \in evaluations'
               PROVE  /\ w = Evaluate(w.revision, w.dataset)
                      /\ \/ w.dataset = BootstrapDataset
                         \/ /\ curricula[w.revision] # <<>> /\ Complete(w.revision, 1)
                            /\ w.dataset = PracticeDataset(w.revision, 1)
    BY <1>1 DEF EvaluationsStand, Complete, TasksOf, RunsOf, PracticeDataset
  <2>1. CASE w = v
    BY <1>3, <1>4, <2>1
  <2>2. CASE w \in evaluations
    BY <2>2 DEF VerdictInv, EvaluationsStand
  <2> QED
    BY <1>1, <2>1, <2>2
<1> QED
  BY <1>1, <1>5, <1>6, NothingOpen

LEMMA PostCurriculumKeepsVerdicts ==
  ASSUME VerdictInv, TypeOK', NEW e \in Experience, PostCurriculum(e)
  PROVE  CurriculaAreChained' /\ EvaluationsStand' /\ PracticeIsOpen'
<1>1. /\ worker' = "scanning"
      /\ UNCHANGED <<evaluations, practiceRuns>>
      /\ curricula' = [curricula EXCEPT ![e] = Append(curricula[e], DatasetOf(e))]
      /\ PlansFor(e, DatasetOf(e)) = {}
  BY DEF PostCurriculum, ToExperiment
<1>2. NoxTypeOK /\ curricula \in [Experience -> Seq(Dataset)] /\ DatasetOf(e) \in Dataset
  BY DatasetOfType DEF VerdictInv, EvidenceInv, TypeOK, NoxTypeOK
<1>3. \A x \in Experience : \A n \in DOMAIN curricula[x] :
        n \in DOMAIN curricula'[x] /\ curricula'[x][n] = curricula[x][n]
  BY <1>2, CurriculaGrow
<1>4. curricula'[e] = Append(curricula[e], DatasetOf(e))
  BY <1>1, <1>2
<1>5. ASSUME NEW x \in Experience, curricula[x] # <<>>
      PROVE  /\ curricula'[x] # <<>> /\ curricula'[x][1] = curricula[x][1]
             /\ Complete(x, 1)' = Complete(x, 1)
             /\ PracticeDataset(x, 1)' = PracticeDataset(x, 1)
  <2>1. 1 \in DOMAIN curricula[x]
    BY <1>2, <1>5
  <2>2. 1 \in DOMAIN curricula'[x] /\ curricula'[x][1] = curricula[x][1]
    BY <1>3, <2>1
  <2>3. curricula'[x] # <<>>
    BY <2>2
  <2>4. RunsOf(x, 1)' = RunsOf(x, 1) /\ TasksOf(x, 1)' = TasksOf(x, 1)
    BY <1>1, <2>2 DEF RunsOf, TasksOf
  <2> QED
    BY <2>2, <2>3, <2>4 DEF Complete, PracticeDataset
<1>6. ASSUME curricula[e] # <<>>
      PROVE  /\ Complete(e, 1) /\ Len(curricula[e]) = 1
             /\ DatasetOf(e) = PracticeDataset(e, 1)
  <2>1. Len(curricula[e]) \in 1..2
    <3>1. curricula[e] \in Seq(Dataset) /\ Len(curricula[e]) <= 2
      BY <1>2 DEF VerdictInv, CurriculaAreChained
    <3> QED
      BY <1>6, <3>1, ShortSequence
  <2>2. \A n \in 1..Len(curricula[e]) : curricula[e][n] # DatasetOf(e)
    BY <1>1, <1>2 DEF PlansFor
  <2>3. Complete(e, 1) /\ DatasetOf(e) = PracticeDataset(e, 1)
    BY <1>2, <1>6, <2>1, <2>2, DatasetIs DEF VerdictInv, CurriculaAreChained
  <2> QED
    BY <2>1, <2>2, <2>3 DEF VerdictInv, CurriculaAreChained
<1>7. CurriculaAreChained'
  <2> SUFFICES ASSUME NEW x \in Experience
               PROVE  /\ Len(curricula'[x]) <= 2
                      /\ curricula'[x] # <<>> => curricula'[x][1] = BootstrapDataset
                      /\ Len(curricula'[x]) = 2 =>
                           Complete(x, 1)' /\ curricula'[x][2] = PracticeDataset(x, 1)'
    BY DEF CurriculaAreChained
  <2>1. CASE x # e
    <3>1. curricula'[x] = curricula[x] /\ curricula[x] \in Seq(Dataset)
      BY <1>1, <1>2, <2>1
    <3>2. /\ Len(curricula[x]) <= 2
          /\ curricula[x] # <<>> => curricula[x][1] = BootstrapDataset
          /\ Len(curricula[x]) = 2 =>
               Complete(x, 1) /\ curricula[x][2] = PracticeDataset(x, 1)
      BY DEF VerdictInv, CurriculaAreChained
    <3>3. Len(curricula[x]) = 2 => curricula[x] # <<>>
      BY <3>1, <3>2, ShortSequence
    <3> QED
      BY <1>5, <3>1, <3>2, <3>3
  <2>2. CASE x = e /\ curricula[e] = <<>>
    <3>1. DatasetOf(e) = BootstrapDataset
      BY <1>2, <2>2, DatasetIs DEF VerdictInv
    <3>2. curricula'[e] = <<BootstrapDataset>>
      BY <1>4, <2>2, <3>1
    <3> QED
      BY <2>2, <3>2
  <2>3. CASE x = e /\ curricula[e] # <<>>
    <3>1. Len(curricula'[e]) = 2 /\ curricula'[e][2] = DatasetOf(e)
      <4>1. curricula[e] \in Seq(Dataset) /\ Len(curricula[e]) = 1
        BY <1>2, <1>6, <2>3
      <4>2. /\ Len(curricula'[e]) = Len(curricula[e]) + 1
            /\ curricula'[e][Len(curricula[e]) + 1] = DatasetOf(e)
        <5> DEFINE d == DatasetOf(e)
                   c == curricula[e]
        <5>1. d \in Dataset /\ c \in Seq(Dataset) /\ curricula'[e] = Append(c, d)
          BY <1>2, <1>4, <4>1
        <5> HIDE DEF c, d
        <5>2. Len(Append(c, d)) = Len(c) + 1 /\ Append(c, d)[Len(c) + 1] = d
          BY <5>1, AppendedLast
        <5> QED
          BY <5>1, <5>2 DEF c, d
      <4> QED
        BY <4>1, <4>2
    <3> QED
      BY <1>5, <1>6, <2>3, <3>1 DEF VerdictInv, CurriculaAreChained
  <2> QED
    BY <2>1, <2>2, <2>3
<1>8. EvaluationsStand'
  <2>1. \A v \in evaluations : v.revision \in Experience
    BY <1>2 DEF NoxTypeOK, Evaluation
  <2> QED
    BY <1>1, <1>5, <2>1 DEF VerdictInv, EvaluationsStand
<1> QED
  BY <1>1, <1>7, <1>8, NothingOpen

\* A complete curriculum gets no more runs.
LEMMA CompleteStays ==
  ASSUME VerdictInv, PostPracticeRun,
         NEW e \in Experience, NEW n \in DOMAIN curricula[e], Complete(e, n)
  PROVE  /\ Complete(e, n)'
         /\ PracticeDataset(e, n)' = PracticeDataset(e, n)
<1> DEFINE new == [revision |-> This.candidate, plan |-> plan, task |-> task, passed |-> verdict]
<1>1. /\ worker = "closing" /\ UNCHANGED curricula
      /\ practiceRuns' = practiceRuns \cup {new}
  BY DEF PostPracticeRun
<1>2. ~Practised(task) /\ task \in TasksOf(This.candidate, plan)
  BY <1>1 DEF VerdictInv, EvidenceInv, OpenTaskHasNoRun, PracticeIsOpen
<1>3. ~(This.candidate = e /\ plan = n)
  BY <1>2 DEF Complete, Practised
<1>4. RunsOf(e, n)' = RunsOf(e, n)
  BY <1>1, <1>3 DEF RunsOf
<1>5. TasksOf(e, n)' = TasksOf(e, n)
  BY <1>1 DEF TasksOf
<1> QED
  BY <1>4, <1>5 DEF Complete, PracticeDataset

LEMMA PostPracticeRunKeepsVerdicts ==
  ASSUME VerdictInv, TypeOK', PostPracticeRun
  PROVE  CurriculaAreChained' /\ EvaluationsStand' /\ PracticeIsOpen'
<1>1. /\ worker = "closing" /\ worker' = "practising"
      /\ UNCHANGED <<position, revisions, evaluations, curricula>>
  BY DEF PostPracticeRun
<1>2. This' = This
  BY <1>1, ThisIsStable DEF VerdictInv, EvidenceInv
<1>3. ASSUME NEW e \in Experience, curricula[e] # <<>>, Complete(e, 1)
      PROVE  Complete(e, 1)' /\ PracticeDataset(e, 1)' = PracticeDataset(e, 1)
  <2>1. curricula[e] \in Seq(Dataset)
    BY DEF VerdictInv, EvidenceInv, TypeOK, NoxTypeOK
  <2>2. 1 \in DOMAIN curricula[e]
    BY <1>3, <2>1
  <2> QED
    BY <1>3, <2>2, CompleteStays
<1>4. CurriculaAreChained'
  <2>1. \A e \in Experience : curricula[e] \in Seq(Dataset)
    BY DEF VerdictInv, EvidenceInv, TypeOK, NoxTypeOK
  <2>2. \A e \in Experience : Len(curricula[e]) = 2 => curricula[e] # <<>>
    BY <2>1, ShortSequence
  <2> QED
    BY <1>1, <1>3, <2>2 DEF VerdictInv, CurriculaAreChained
<1>5. EvaluationsStand'
  <2>1. \A v \in evaluations : v.revision \in Experience
    BY DEF VerdictInv, EvidenceInv, TypeOK, NoxTypeOK, Evaluation
  <2> QED
    BY <1>1, <1>3, <2>1 DEF VerdictInv, EvaluationsStand
<1>6. PracticeIsOpen'
  BY <1>1, <1>2 DEF VerdictInv, PracticeIsOpen, Decided
<1> QED
  BY <1>4, <1>5, <1>6

LEMMA EvolutionKeepsVerdicts ==
  ASSUME VerdictInv, TypeOK', EvolutionStep \/ EvolutionFails
  PROVE  CurriculaAreChained' /\ EvaluationsStand' /\ PracticeIsOpen'
<1>1. CASE EvolutionFails \/ ReadEvents
  <2>1. UNCHANGED noxVars /\ worker' \in {"idle", "scanning"}
    BY <1>1 DEF EvolutionFails, EvolutionAborts, RunnerMisbinds, EvolutionStops, ReadEvents
  <2> QED
    BY <2>1, NothingOpen, VerdictLogUnchanged
<1>2. CASE Skip \/ EndPractice \/ PassRejected \/ PassStale \/ PostArtifact
  <2>1. UNCHANGED <<evaluations, practiceLog>> /\ worker' \in {"idle", "scanning"}
    BY <1>2, NextRevisionHoldsNothing DEF Skip, EndPractice, PassRejected, PassStale, PostArtifact
  <2> QED
    BY <2>1, NothingOpen, VerdictLogUnchanged
<1>3. CASE \/ \E e \in Experience : BeginPractice(e)
           \/ \E t \in Task : PassOver(t) \/ RunnerAnswers(t)
  <2>1. UNCHANGED <<evaluations, practiceLog>>
    BY <1>3 DEF BeginPractice, PassOver, RunnerAnswers
  <2> QED
    BY <1>3, <2>1, PracticeStepKeepsVerdicts, VerdictLogUnchanged
<1>4. CASE ReadActiveMemory
  <2>1. UNCHANGED <<evaluations, practiceLog>> /\ worker' = "freezing"
    BY <1>4 DEF ReadActiveMemory
  <2> QED
    BY <2>1, NothingOpen, VerdictLogUnchanged
<1>5. CASE PostEvaluation
  BY <1>5, PostEvaluationKeepsVerdicts
<1>6. CASE \E e \in Experience : PostCurriculum(e)
  BY <1>6, PostCurriculumKeepsVerdicts
<1>7. CASE PostPracticeRun
  BY <1>7, PostPracticeRunKeepsVerdicts
<1> QED
  BY <1>1, <1>2, <1>3, <1>4, <1>5, <1>6, <1>7 DEF EvolutionStep

LEMMA VerdictStep == VerdictInv /\ [Next]_vars => VerdictInv'
<1> SUFFICES ASSUME VerdictInv, [Next]_vars PROVE VerdictInv'
  OBVIOUS
<1>1. EvidenceInv'
  BY EvidenceStep DEF VerdictInv
<1>2. CASE (EvolutionStep \/ EvolutionFails) /\ UNCHANGED learnerVars
  BY <1>1, <1>2, EvolutionKeepsVerdicts DEF VerdictInv, EvidenceInv
<1>3. CASE \/ NoxNext /\ UNCHANGED <<learnerVars, evolutionVars>>
           \/ (LearnerStep \/ LearnerAborts) /\ UNCHANGED evolutionVars
           \/ UNCHANGED vars
  <2>1. UNCHANGED <<evolutionVars, evolutionLog>>
    BY <1>3 DEF NoxNext, HandoffReady, Activate, Rollback, LearnerStep, LearnerAborts,
                FetchPending, TakeHandoff, RefuseHandoff, Reconcile, SubmitBatch
  <2>2. \A i \in 1..Len(revisions) : revisions'[i] = revisions[i]
    BY <1>3, RevisionsGrow DEF VerdictInv, EvidenceInv, NoxNext, HandoffReady, Activate, Rollback
  <2> QED
    BY <1>1, <2>1, <2>2, OthersKeepPractice, VerdictLogUnchanged DEF VerdictInv
<1> QED
  BY <1>2, <1>3 DEF Next

LEMMA VerdictInit == Init => VerdictInv
<1> SUFFICES ASSUME Init PROVE VerdictInv
  OBVIOUS
<1>1. curricula = [e \in Experience |-> <<>>] /\ evaluations = {} /\ worker = "idle"
  BY DEF Init, NoxInit, EvolutionInit
<1> QED
  BY <1>1, EvidenceInit DEF VerdictInv, CurriculaAreChained, EvaluationsStand, PracticeIsOpen

LEMMA VerdictsHold == Spec => []VerdictInv
BY VerdictInit, VerdictStep, PTL DEF Spec

\* However often cycles are cut, a revision gets one verdict at most after its
\* bootstrap evaluation. (evolution_worker._practice_dataset:406-425,
\* run_once:458-467.)
THEOREM VerdictsStay == Spec => []VerdictsNeverReverse
<1>1. VerdictInv => VerdictsNeverReverse
  <2>1. BootstrapDataset.plan = 0
    BY DEF BootstrapDataset
  <2> QED
    BY <2>1 DEF VerdictInv, EvaluationsStand, VerdictsNeverReverse
<1> QED
  BY <1>1, VerdictsHold, PTL

\* Nothing is planned or practised for a revision that has its verdict.
\* (evolution_worker.run_once:468-513.)
THEOREM PracticeStops == Spec => PracticeStopsAtVerdict
<1> DEFINE Stops(e) == /\ curricula'[e] = curricula[e]
                       /\ \A run \in practiceRuns' \ practiceRuns : run.revision # e
           Step == \A e \in Experience : Decided(e) => Stops(e)
<1>1. ASSUME VerdictInv, Next, NEW e \in Experience, Decided(e)
      PROVE  Stops(e)
  <2>1. CASE UNCHANGED practiceLog
    BY <2>1
  <2>2. CASE \E x \in Experience : PostCurriculum(x)
    <3>1. PICK x \in Experience : PostCurriculum(x)
      BY <2>2
    <3>2. x # e
      BY <1>1, <3>1, OpenIsUndecided DEF PostCurriculum
    <3>3. curricula \in [Experience -> Seq(Dataset)]
      BY <1>1 DEF VerdictInv, EvidenceInv, TypeOK, NoxTypeOK
    <3> QED
      BY <3>1, <3>2, <3>3 DEF PostCurriculum
  <2>3. CASE PostPracticeRun
    <3>1. This.candidate # e
      BY <1>1, <2>3 DEF PostPracticeRun, VerdictInv, PracticeIsOpen
    <3> QED
      BY <2>3, <3>1 DEF PostPracticeRun
  <2> QED
    BY <1>1, <2>1, <2>2, <2>3
       DEF Next, NoxNext, HandoffReady, Activate, Rollback, LearnerStep, LearnerAborts,
           FetchPending, TakeHandoff, RefuseHandoff, Reconcile, SubmitBatch,
           EvolutionFails, EvolutionAborts, RunnerMisbinds, EvolutionStep, ReadEvents, Skip,
           PostEvaluation, BeginPractice, PassOver, RunnerAnswers, EndPractice, PassRejected,
           ReadActiveMemory, PassStale, PostArtifact
<1>2. VerdictInv /\ [Next]_vars => [Step]_vars
  BY <1>1
<1> QED
  BY <1>2, VerdictsHold, PTL DEF Spec, PracticeStopsAtVerdict

-----------------------------------------------------------------------------
(* Batches.                                                                *)

\* What the sequence operators return, for the memories and the batches.
LEMMA WholeSubSeq ==
  ASSUME NEW S, NEW s \in Seq(S)
  PROVE  SubSeq(s, 1, Len(s)) = s
OBVIOUS

LEMMA SubSeqOfAppend ==
  ASSUME NEW S, NEW s \in Seq(S), NEW x \in S, NEW n \in 0..Len(s)
  PROVE  SubSeq(Append(s, x), 1, n) = SubSeq(s, 1, n)
OBVIOUS

LEMMA AppendedElements ==
  ASSUME NEW S, NEW s \in Seq(S), NEW x \in S
  PROVE  /\ DOMAIN s = 1..Len(s) /\ Len(s) \in Nat
         /\ Append(s, x) \in Seq(S) /\ Len(Append(s, x)) = Len(s) + 1
         /\ DOMAIN Append(s, x) = 1..(Len(s) + 1)
         /\ \A j \in 1..Len(s) : Append(s, x)[j] = s[j]
         /\ Append(s, x)[Len(s) + 1] = x
OBVIOUS

LEMMA ConclusionsOf ==
  ASSUME NEW h \in Handoff
  PROVE  /\ Conclusions[h] \in Seq(Claim)
         /\ DOMAIN Conclusions[h] = 1..Len(Conclusions[h])
         /\ Len(Conclusions[h]) \in Nat /\ Len(Conclusions[h]) >= 1
<1>1. Conclusions[h] \in Seq(Claim) /\ Conclusions[h] # <<>>
  OBVIOUS
<1> QED
  BY <1>1

LEMMA CandidateParts ==
  ASSUME NEW h, NEW i
  PROVE  Candidate(h, i)[2] = i /\ Source(Candidate(h, i)) = h
BY DEF Candidate, Source

\* A memory stays free of equivalent experiences when one without an
\* equivalent in it is added.
LEMMA DistinctAppend ==
  ASSUME NEW m \in Memory, NEW e \in Experience, Distinct(m), ~HasDuplicate(m, e)
  PROVE  Distinct(Append(m, e))
<1>1. /\ DOMAIN m = 1..Len(m) /\ Len(m) \in Nat
      /\ DOMAIN Append(m, e) = 1..(Len(m) + 1)
      /\ \A j \in 1..Len(m) : Append(m, e)[j] = m[j]
      /\ Append(m, e)[Len(m) + 1] = e
  BY AppendedElements DEF Memory
<1>2. \A j \in 1..Len(m) : Signature(m[j]) # Signature(e)
  BY <1>1 DEF HasDuplicate, Range
<1>3. \A j \in 1..(Len(m) + 1) : j \in 1..Len(m) \/ j = Len(m) + 1
  BY <1>1
<1> QED
  BY <1>1, <1>2, <1>3 DEF Distinct

\* One more conclusion reconciled keeps the snapshot an extension.
LEMMA ExtendedByOne ==
  ASSUME NEW h \in Handoff, NEW k \in Nat, NEW m \in Memory, Extends(m, h, k),
         parentOf \in [Handoff -> Memory], Candidate(h, k) \in Experience
  PROVE  Extends(Revised(m, Candidate(h, k)), h, k + 1)
<1> DEFINE c == Candidate(h, k)
           n == Len(parentOf[h])
<1>1. /\ m \in Seq(Experience) /\ Len(m) \in Nat
      /\ parentOf[h] \in Seq(Experience) /\ n \in Nat
  BY DEF Memory
<1>2. /\ n <= Len(m) /\ SubSeq(m, 1, n) = parentOf[h]
      /\ \A j \in (n + 1)..Len(m) : Source(m[j]) = h /\ m[j][2] < k
  BY DEF Extends
<1>3. \A j \in (n + 1)..Len(m) : m[j][2] < k + 1
  <2> SUFFICES ASSUME NEW j \in (n + 1)..Len(m) PROVE m[j][2] < k + 1
    OBVIOUS
  <2>1. m[j] \in Experience
    BY <1>1
  <2>2. m[j][2] \in Nat
    <3>1. PICK g \in Handoff : \E i \in DOMAIN Conclusions[g] : m[j] = <<g, i>>
      BY <2>1 DEF Experience, Candidates, Candidate
    <3> QED
      BY <3>1, ConclusionsOf
  <2>3. m[j][2] < k
    BY <1>2
  <2> DEFINE x == m[j][2]
  <2> HIDE DEF x
  <2>4. x < k + 1
    BY <2>2, <2>3 DEF x
  <2> QED
    BY <2>4 DEF x
<1>4. CASE HasDuplicate(m, c)
  BY <1>2, <1>3, <1>4 DEF Revised, Extends
<1>5. CASE ~HasDuplicate(m, c)
  <2>1. c[2] = k /\ Source(c) = h
    BY CandidateParts
  <2> HIDE DEF c, n
  <2>2. c \in Experience
    BY DEF c
  <2>3. /\ Len(Append(m, c)) = Len(m) + 1
        /\ \A j \in 1..Len(m) : Append(m, c)[j] = m[j]
        /\ Append(m, c)[Len(m) + 1] = c
    BY <1>1, <2>2, AppendedElements
  <2>4. SubSeq(Append(m, c), 1, n) = parentOf[h]
    BY <1>1, <1>2, <2>2, SubSeqOfAppend
  <2>5. n <= Len(Append(m, c))
    BY <1>1, <1>2, <2>3
  <2>6. ASSUME NEW j \in (n + 1)..Len(Append(m, c))
        PROVE  Source(Append(m, c)[j]) = h /\ Append(m, c)[j][2] < k + 1
    <3>1. CASE j = Len(m) + 1
      BY <2>1, <2>3, <3>1
    <3>2. CASE j # Len(m) + 1
      <4>1. j \in (n + 1)..Len(m) /\ j \in 1..Len(m)
        BY <1>1, <2>3, <3>2
      <4> QED
        BY <1>2, <1>3, <2>3, <4>1
    <3> QED
      BY <3>1, <3>2
  <2> QED
    BY <1>5, <2>4, <2>5, <2>6 DEF Revised, Extends, c, n
<1> QED
  BY <1>4, <1>5

\* Where nothing is submitted, the batches on record are as they were.
LEMMA BatchesUnchanged ==
  ASSUME BatchInv, UNCHANGED learningLog, ready \subseteq ready',
         \A h \in ready : parentOf'[h] = parentOf[h]
  PROVE  /\ BatchesArePlaced' /\ BatchesAreIsolated'
         /\ \A i \in DOMAIN revisions' : Reconciled(revisions'[i])
         /\ \A e \in distilled' : Source(e) \in ready'
         /\ \A i \in DOMAIN revisions' : Source(revisions'[i].candidate) \in ready'
<1>1. UNCHANGED <<distilled, revisions>>
  BY DEF learningLog
<1>2. \A h, k : Placed(h, k)' <=> Placed(h, k)
  BY <1>1 DEF Placed, RevisionsOf
<1>3. BatchesArePlaced'
  BY <1>1, <1>2 DEF BatchInv, BatchesArePlaced, Batched, RevisionsOf
<1>4. \A h \in ready : \A m, k : Extends(m, h, k)' <=> Extends(m, h, k)
  BY DEF Extends
<1>5. BatchesAreIsolated'
  BY <1>1, <1>4 DEF BatchInv, BatchesAreIsolated, LearnerIsCalled
<1>6. \A i \in DOMAIN revisions' : Reconciled(revisions'[i])
  BY <1>1 DEF BatchInv
<1> QED
  BY <1>1, <1>3, <1>5, <1>6 DEF BatchInv, LearnerIsCalled

\* What the evolution worker holds and froze is as it was.
LEMMA FreezingUnchanged ==
  ASSUME BatchInv, TypeOK, UNCHANGED <<evolutionVars, artifacts>>,
         \A i \in 1..Len(revisions) : revisions'[i] = revisions[i]
  PROVE  FreezingIsNew' /\ NoEquivalentExperiences'
<1>1. worker # "idle" => This' = This
  BY ThisIsStable DEF evolutionVars
<1>2. FreezingIsNew'
  BY <1>1 DEF BatchInv, FreezingIsNew, evolutionVars
<1> QED
  BY <1>2 DEF BatchInv, NoEquivalentExperiences

LEMMA NoxKeepsBatches ==
  ASSUME BatchInv, TypeOK, NoxNext, UNCHANGED <<learnerVars, evolutionVars>>
  PROVE  BatchInv'
<1>1. /\ UNCHANGED <<learningLog, artifacts, learner, fetched, source, current, drafted>>
      /\ ready \subseteq ready'
      /\ \A h \in ready : parentOf'[h] = parentOf[h]
  BY DEF NoxNext, HandoffReady, Activate, Rollback, TypeOK, NoxTypeOK
<1>2. FreezingIsNew' /\ NoEquivalentExperiences'
  BY <1>1, FreezingUnchanged DEF learningLog
<1>3. \A m \in released' : Distinct(m)
  BY DEF NoxNext, HandoffReady, Activate, Rollback, BatchInv, NoEquivalentExperiences
<1>4. LearnerIsCalled'
  BY <1>1, BatchesUnchanged DEF BatchInv, LearnerIsCalled
<1>5. BatchIsSound'
  <2> SUFFICES ASSUME learner' = "reconciling"
               PROVE  \E h \in Handoff :
                        /\ source' = {h} /\ Len(drafted') <= Len(Conclusions[h])
                        /\ Extends(current, h, Len(drafted) + 1)'
                        /\ \A i \in DOMAIN drafted' :
                             /\ drafted'[i].candidate = Candidate(h, i)
                             /\ Reconciled(drafted'[i])
                             /\ Extends(drafted[i].parent, h, i)'
    BY DEF BatchIsSound, Reconciled
  <2>1. PICK h \in Handoff :
          /\ source = {h} /\ Len(drafted) <= Len(Conclusions[h])
          /\ Extends(current, h, Len(drafted) + 1)
          /\ \A i \in DOMAIN drafted : /\ drafted[i].candidate = Candidate(h, i)
                                       /\ Reconciled(drafted[i])
                                       /\ Extends(drafted[i].parent, h, i)
    BY <1>1 DEF BatchInv, BatchIsSound
  <2>2. h \in ready
    BY <2>1 DEF BatchInv, LearnerIsCalled
  <2>3. parentOf'[h] = parentOf[h]
    BY <1>1, <2>2
  <2> QED
    BY <1>1, <2>1, <2>3 DEF Extends
<1> QED
  BY <1>1, <1>2, <1>3, <1>4, <1>5, BatchesUnchanged DEF BatchInv, Distinct

\* A reconciled conclusion joins the batch in progress.
LEMMA ReconcileKeepsBatches ==
  ASSUME BatchInv, TypeOK, NEW h \in Handoff, Reconcile(h)
  PROVE  BatchIsSound'
<1> DEFINE k == Len(drafted) + 1
           c == Candidate(h, k)
           r == ReconcileOne(current, c)
<1>1. /\ learner = "reconciling" /\ source = {h} /\ UNCHANGED <<source, parentOf>>
      /\ Len(drafted) < Len(Conclusions[h])
      /\ drafted' = Append(drafted, r) /\ current' = r.proposed
  BY DEF Reconcile, noxVars, intake
<1>2. /\ drafted \in Seq(Revision) /\ current \in Memory
      /\ parentOf \in [Handoff -> Memory]
  BY DEF TypeOK, LearnerTypeOK, NoxTypeOK
<1>3. PICK g \in Handoff :
        /\ source = {g}
        /\ Extends(current, g, Len(drafted) + 1)
        /\ \A i \in DOMAIN drafted : /\ drafted[i].candidate = Candidate(g, i)
                                     /\ Reconciled(drafted[i])
                                     /\ Extends(drafted[i].parent, g, i)
  BY <1>1 DEF BatchInv, BatchIsSound
<1>4. g = h
  BY <1>1, <1>3
<1>5. Len(drafted) \in Nat /\ k \in DOMAIN Conclusions[h] /\ k \in Nat
  BY <1>1, <1>2, ConclusionsOf
<1>6. c \in Experience
  BY <1>5, CandidateInExperience
<1>7. r \in Revision
  BY <1>2, <1>6, ReconcileOneType
<1>8. /\ r.candidate = c /\ r.parent = current
      /\ r.proposed = Revised(current, c)
      /\ Reconciled(r)
  BY DEF ReconcileOne, Reconciled
<1>9. Extends(current', h, k + 1)
  BY <1>1, <1>2, <1>3, <1>4, <1>5, <1>6, <1>8, ExtendedByOne
<1> HIDE DEF c, r
<1>10. /\ Len(drafted') = k /\ DOMAIN drafted' = 1..k
       /\ DOMAIN drafted = 1..Len(drafted)
       /\ \A j \in 1..Len(drafted) : drafted'[j] = drafted[j]
       /\ drafted'[k] = r
  BY <1>1, <1>2, <1>7, AppendedElements
<1>11. ASSUME NEW i \in DOMAIN drafted'
       PROVE  /\ drafted'[i].candidate = Candidate(h, i)
              /\ Reconciled(drafted'[i])
              /\ Extends(drafted'[i].parent, h, i)
  <2>1. CASE i = k
    BY <1>3, <1>4, <1>8, <1>10, <2>1 DEF c
  <2>2. CASE i # k
    <3>1. i \in DOMAIN drafted /\ drafted'[i] = drafted[i]
      BY <1>5, <1>10, <2>2
    <3> QED
      BY <1>3, <1>4, <3>1
  <2> QED
    BY <2>1, <2>2
<1>12. Len(drafted') <= Len(Conclusions[h])
  BY <1>1, <1>5, <1>10, ConclusionsOf
<1>13. Extends(current', h, Len(drafted') + 1)
  BY <1>9, <1>10
<1> QED
  BY <1>1, <1>11, <1>12, <1>13 DEF BatchIsSound, Extends, Reconciled

\* A batch is recorded whole, behind the batches that are on record.
LEMMA SubmitKeepsBatches ==
  ASSUME BatchInv, TypeOK, NEW h \in Handoff, SubmitBatch(h), ~Batched(h)
  PROVE  /\ BatchesArePlaced' /\ BatchesAreIsolated'
         /\ \A i \in DOMAIN revisions' : Reconciled(revisions'[i])
         /\ \A e \in distilled' : Source(e) \in ready'
         /\ \A i \in DOMAIN revisions' : Source(revisions'[i].candidate) \in ready'
<1> DEFINE old == Len(revisions)
           new == Len(Conclusions[h])
<1>1. /\ learner = "reconciling" /\ source = {h} /\ Len(drafted) = new
      /\ distilled' = distilled \cup Candidates(h)
      /\ revisions' = revisions \o drafted
      /\ UNCHANGED <<ready, parentOf>>
  BY DEF SubmitBatch, intake
<1>2. revisions \in Seq(Revision) /\ drafted \in Seq(Revision)
  BY DEF TypeOK, NoxTypeOK, LearnerTypeOK
<1>3. \A i \in DOMAIN drafted : /\ drafted[i].candidate = Candidate(h, i)
                                /\ Reconciled(drafted[i])
                                /\ Extends(drafted[i].parent, h, i)
  <2>1. PICK g \in Handoff :
          /\ source = {g}
          /\ \A i \in DOMAIN drafted : /\ drafted[i].candidate = Candidate(g, i)
                                       /\ Reconciled(drafted[i])
                                       /\ Extends(drafted[i].parent, g, i)
    BY <1>1 DEF BatchInv, BatchIsSound
  <2>2. g = h
    BY <1>1, <2>1
  <2> QED
    BY <2>1, <2>2
<1>4. old \in Nat /\ new \in Nat /\ new >= 1 /\ h \in ready
  BY <1>1, <1>2, ConclusionsOf DEF BatchInv, LearnerIsCalled
<1>5. /\ DOMAIN revisions = 1..old /\ DOMAIN drafted = 1..new
      /\ DOMAIN revisions' = 1..(old + new) /\ Len(revisions') = old + new
      /\ \A j \in 1..old : revisions'[j] = revisions[j]
      /\ \A j \in 1..new : revisions'[old + j] = drafted[j]
      /\ \A j \in (old + 1)..(old + new) :
           j - old \in 1..new /\ revisions'[j] = drafted[j - old]
  <2> DEFINE s == revisions
             t == drafted
  <2>1. s \in Seq(Revision) /\ t \in Seq(Revision)
    BY <1>2
  <2>2. revisions' = s \o t /\ Len(s) = old /\ Len(t) = new
    BY <1>1
  <2> HIDE DEF s, t, old, new, Revision
  <2>3. /\ DOMAIN s = 1..Len(s) /\ DOMAIN t = 1..Len(t)
        /\ DOMAIN (s \o t) = 1..(Len(s) + Len(t))
        /\ Len(s \o t) = Len(s) + Len(t)
    BY <2>1
  <2>4. /\ \A j \in 1..Len(s) : (s \o t)[j] = s[j]
        /\ \A j \in 1..Len(t) : (s \o t)[Len(s) + j] = t[j]
    BY <2>1
  <2>5. \A j \in (Len(s) + 1)..(Len(s) + Len(t)) :
          j - Len(s) \in 1..Len(t) /\ (s \o t)[j] = t[j - Len(s)]
    BY <2>1
  <2> QED
    BY <2>1, <2>2, <2>3, <2>4, <2>5 DEF s, t
<1>6. \A i \in 1..(old + new) : i \in 1..old \/ i \in (old + 1)..(old + new)
  BY <1>4
<1>7. \A i \in (old + 1)..(old + new) :
        /\ revisions'[i].candidate = Candidate(h, i - old)
        /\ Source(revisions'[i].candidate) = h
        /\ revisions'[i].candidate[2] = i - old
        /\ Reconciled(revisions'[i])
        /\ Extends(revisions'[i].parent, h, i - old)
  BY <1>3, <1>5, CandidateParts
<1>8. \A i \in 1..(old + new) :
        Source(revisions'[i].candidate) = h <=> i \in (old + 1)..(old + new)
  <2>1. \A i \in 1..old : Source(revisions[i].candidate) # h
    BY <1>5 DEF BatchInv, BatchesArePlaced, RevisionsOf
  <2>2. \A i \in 1..old : i \notin (old + 1)..(old + new)
    BY <1>4
  <2> QED
    BY <1>5, <1>6, <1>7, <2>1, <2>2
<1>9. BatchesAreIsolated'
  <2>1. \A m, g, k : Extends(m, g, k)' <=> Extends(m, g, k)
    BY <1>1 DEF Extends
  <2>2. \A i \in 1..old :
          Extends(revisions'[i].parent, Source(revisions'[i].candidate), revisions'[i].candidate[2])
    BY <1>5 DEF BatchInv, BatchesAreIsolated
  <2> QED
    BY <1>5, <1>6, <1>7, <2>1, <2>2 DEF BatchesAreIsolated
<1>10. \A e \in Candidates(h) : Source(e) = h
  BY CandidateParts DEF Candidates
<1>11. ASSUME NEW g \in Handoff
       PROVE  IF Batched(g)' THEN \E k \in 0..Len(revisions') : Placed(g, k)'
              ELSE RevisionsOf(g)' = {}
  <2>1. CASE g = h
    <3>1. Batched(g)'
      <4>1. Candidate(h, 1) \in distilled'
        BY <1>1, <1>4, ConclusionsOf DEF Candidates
      <4> QED
        BY <4>1, <2>1, CandidateParts DEF Batched
    <3>2. RevisionsOf(h)' = (old + 1)..(old + new)
      <4>1. (old + 1)..(old + new) \subseteq 1..(old + new)
        BY <1>4
      <4> QED
        BY <1>5, <1>8, <4>1 DEF RevisionsOf
    <3>3. \A i \in 1..new : revisions'[old + i].candidate = Candidate(h, i)
      BY <1>3, <1>5
    <3>4. \A k : k = old => Placed(h, k)'
      BY <1>1, <3>2, <3>3 DEF Placed
    <3>5. old \in 0..Len(revisions')
      BY <1>4, <1>5
    <3> QED
      BY <2>1, <3>1, <3>4, <3>5
  <2>2. CASE g # h
    <3>1. Batched(g)' <=> Batched(g)
      BY <1>1, <1>10, <2>2 DEF Batched
    <3>2. RevisionsOf(g)' = RevisionsOf(g)
      <4>1. \A i \in 1..(old + new) :
              Source(revisions'[i].candidate) = g <=>
                i \in 1..old /\ Source(revisions[i].candidate) = g
        BY <1>5, <1>6, <1>8, <2>2
      <4>2. 1..old \subseteq 1..(old + new)
        BY <1>4
      <4> QED
        BY <1>5, <4>1, <4>2 DEF RevisionsOf
    <3>3. ASSUME NEW k \in 0..old, Placed(g, k)
          PROVE  Placed(g, k)'
      <4>1. \A i \in 1..Len(Conclusions[g]) : k + i \in 1..old
        <5>1. \A i \in 1..Len(Conclusions[g]) : k + i \in (k + 1)..(k + Len(Conclusions[g]))
          BY ConclusionsOf
        <5> QED
          BY <1>5, <3>3, <5>1 DEF Placed, RevisionsOf
      <4>2. \A i \in 1..Len(Conclusions[g]) : revisions'[k + i] = revisions[k + i]
        BY <1>5, <4>1
      <4>3. \A i \in 1..Len(Conclusions[g]) : revisions'[k + i].candidate = Candidate(g, i)
        BY <3>3, <4>2 DEF Placed
      <4> QED
        BY <1>1, <3>2, <3>3, <4>3 DEF Placed
    <3>4. 0..old \subseteq 0..Len(revisions')
      BY <1>4, <1>5
    <3> QED
      BY <3>1, <3>2, <3>3, <3>4 DEF BatchInv, BatchesArePlaced
  <2> QED
    BY <2>1, <2>2
<1>12. \A i \in DOMAIN revisions' : Reconciled(revisions'[i])
  BY <1>5, <1>6, <1>7 DEF BatchInv
<1>13. /\ \A e \in distilled' : Source(e) \in ready'
       /\ \A i \in DOMAIN revisions' : Source(revisions'[i].candidate) \in ready'
  BY <1>1, <1>4, <1>5, <1>6, <1>7, <1>10 DEF BatchInv, LearnerIsCalled
<1> QED
  BY <1>9, <1>11, <1>12, <1>13 DEF BatchesArePlaced

LEMMA LearnerKeepsBatches ==
  ASSUME BatchInv, TypeOK, LearnerStep \/ LearnerAborts, UNCHANGED evolutionVars
  PROVE  BatchInv'
<1>1. UNCHANGED <<evolutionLog, governance, intake>>
  BY DEF LearnerStep, LearnerAborts, FetchPending, TakeHandoff, RefuseHandoff,
         Reconcile, SubmitBatch, noxVars
<1>2. FreezingIsNew' /\ NoEquivalentExperiences'
  BY <1>1, RevisionsGrow, FreezingUnchanged DEF evolutionLog
<1>3. \A m \in released' : Distinct(m)
  BY <1>1 DEF BatchInv, governance
<1>4. /\ BatchesArePlaced' /\ BatchesAreIsolated'
      /\ \A i \in DOMAIN revisions' : Reconciled(revisions'[i])
      /\ \A e \in distilled' : Source(e) \in ready'
      /\ \A i \in DOMAIN revisions' : Source(revisions'[i].candidate) \in ready'
  <2>1. CASE UNCHANGED learningLog
    BY <1>1, <2>1, BatchesUnchanged DEF intake
  <2>2. CASE \E h \in Handoff : SubmitBatch(h) /\ ~Batched(h)
    BY <2>2, SubmitKeepsBatches
  <2> QED
    BY <2>1, <2>2 DEF LearnerStep, LearnerAborts, FetchPending, TakeHandoff,
                      RefuseHandoff, Reconcile, SubmitBatch, noxVars
<1>5. fetched' \cup source' \subseteq ready'
  <2>1. fetched \cup source \subseteq ready /\ ready' = ready
    BY <1>1 DEF BatchInv, LearnerIsCalled, intake
  <2>2. CASE FetchPending
    BY <2>1, <2>2 DEF FetchPending, kSubset, Pending
  <2>3. CASE \E h \in Handoff : TakeHandoff(h) \/ Reconcile(h)
    BY <2>1, <2>3 DEF TakeHandoff, Reconcile
  <2>4. CASE LearnerStops
    BY <2>4 DEF LearnerStops
  <2>5. CASE \E h \in Handoff : SubmitBatch(h)
    BY <2>1, <2>5 DEF SubmitBatch, LearnerStops
  <2> QED
    BY <2>2, <2>3, <2>4, <2>5 DEF LearnerStep, LearnerAborts, RefuseHandoff
<1>6. BatchIsSound'
  <2>1. CASE \E h \in Handoff : Reconcile(h)
    BY <2>1, ReconcileKeepsBatches
  <2>2. ASSUME NEW h \in Handoff, TakeHandoff(h)
        PROVE  BatchIsSound'
    <3>1. /\ source' = {h} /\ drafted' = <<>> /\ current' = active
          /\ parentOf[h] = active /\ parentOf' = parentOf
      BY <2>2 DEF TakeHandoff, noxVars, intake
    <3>2. active \in Seq(Experience) /\ Len(active) \in Nat
      BY DEF TypeOK, NoxTypeOK, Memory
    <3>3. Extends(current, h, 1)'
      <4>1. SubSeq(active, 1, Len(active)) = active
        BY <3>2, WholeSubSeq
      <4>2. (Len(active) + 1)..Len(active) = {}
        BY <3>2
      <4> QED
        BY <3>1, <3>2, <4>1, <4>2 DEF Extends
    <3>4. Len(drafted') = 0 /\ DOMAIN drafted' = {} /\ Len(drafted') <= Len(Conclusions[h])
      BY <3>1, ConclusionsOf
    <3>5. Extends(current, h, Len(drafted) + 1)'
      BY <3>3, <3>4
    <3> QED
      BY <3>1, <3>4, <3>5 DEF BatchIsSound
  <2>3. CASE learner' # "reconciling"
    BY <2>3 DEF BatchIsSound
  <2> QED
    BY <2>1, <2>2, <2>3 DEF LearnerStep, LearnerAborts, FetchPending, RefuseHandoff,
                            SubmitBatch, LearnerStops
<1> QED
  BY <1>2, <1>3, <1>4, <1>5, <1>6 DEF BatchInv, LearnerIsCalled

\* A revision that is frozen adds its candidate to its parent, which is why
\* the parent holds no equivalent of it.
LEMMA FreezableIsNew ==
  ASSUME TypeOK, BatchInv, worker # "idle", Freezable(This, active)
  PROVE  ~HasDuplicate(active, This.candidate)
<1>1. position \in DOMAIN revisions
  BY DEF TypeOK, NoxTypeOK, EvolutionTypeOK
<1>2. This.proposed = Revised(active, This.candidate)
  BY <1>1 DEF BatchInv, Reconciled, ReconcileOne, This, Freezable
<1>3. Append(active, This.candidate) # active
  <2>1. active \in Seq(Experience) /\ This.candidate \in Experience
    BY ThisType DEF TypeOK, NoxTypeOK, Memory
  <2>2. Len(Append(active, This.candidate)) = Len(active) + 1 /\ Len(active) \in Nat
    BY <2>1
  <2> QED
    BY <2>2
<1> QED
  BY <1>2, <1>3 DEF Freezable, Revised

LEMMA EvolutionKeepsBatches ==
  ASSUME BatchInv, EvidenceInv, TypeOK', EvolutionStep \/ EvolutionFails,
         UNCHANGED learnerVars
  PROVE  BatchInv'
<1>0. TypeOK
  BY DEF EvidenceInv
<1>1. UNCHANGED <<learningLog, governance, intake>>
  BY DEF EvolutionFails, EvolutionAborts, RunnerMisbinds, EvolutionStep, ReadEvents, Skip,
         PostEvaluation, PostCurriculum, BeginPractice, PassOver, RunnerAnswers,
         PostPracticeRun, EndPractice, PassRejected, ReadActiveMemory, PassStale,
         PostArtifact, noxVars
<1>2. /\ BatchesArePlaced' /\ BatchesAreIsolated'
      /\ \A i \in DOMAIN revisions' : Reconciled(revisions'[i])
      /\ LearnerIsCalled'
  BY <1>1, BatchesUnchanged DEF intake, learnerVars, BatchInv, LearnerIsCalled
<1>3. BatchIsSound'
  BY <1>1 DEF BatchInv, BatchIsSound, Extends, learnerVars, intake
<1>4. \A m \in released' : Distinct(m)
  BY <1>1 DEF BatchInv, governance
<1>5. FreezingIsNew'
  <2>1. CASE ReadActiveMemory
    <3>1. /\ base' = active /\ worker = "scanning" /\ Freezable(This, active)
          /\ UNCHANGED <<position, revisions>>
      BY <2>1 DEF ReadActiveMemory, ToFreeze, noxVars, learningLog
    <3>2. This' = This
      BY <1>0, <3>1, ThisIsStable
    <3> QED
      BY <1>0, <3>1, <3>2, FreezableIsNew DEF FreezingIsNew
  <2>2. CASE ~ReadActiveMemory
    <3>1. worker' # "freezing"
      BY <2>2, NextRevisionHoldsNothing
         DEF EvolutionFails, EvolutionAborts, RunnerMisbinds, EvolutionStops, EvolutionStep,
             ReadEvents, Skip, PostEvaluation, PostCurriculum, ToExperiment, BeginPractice,
             PassOver, RunnerAnswers, AtTask, PostPracticeRun, EndPractice, PassRejected,
             PassStale, PostArtifact, evolutionVars
    <3> QED
      BY <3>1 DEF FreezingIsNew
  <2> QED
    BY <2>1, <2>2
<1>6. NoEquivalentExperiences'
  <2>1. CASE PostArtifact
    <3>1. base \in released /\ base \in Memory /\ This.candidate \in Experience
      BY <1>0, <2>1, ThisType DEF PostArtifact, EvidenceInv, FreezingIsEarned, TypeOK, EvolutionTypeOK
    <3>2. Distinct(Append(base, This.candidate))
      BY <2>1, <3>1, DistinctAppend DEF PostArtifact, BatchInv, FreezingIsNew
    <3>3. FrozenCandidate(This.candidate).experiences = Append(base, This.candidate)
      BY DEF FrozenCandidate
    <3>4. artifacts' = artifacts \cup {FrozenCandidate(This.candidate)}
      BY <2>1 DEF PostArtifact
    <3> QED
      BY <3>2, <3>3, <3>4 DEF BatchInv, NoEquivalentExperiences
  <2>2. CASE ~PostArtifact
    <3>1. UNCHANGED artifacts
      BY <2>2
         DEF EvolutionFails, EvolutionAborts, RunnerMisbinds, EvolutionStep, ReadEvents, Skip,
             PostEvaluation, PostCurriculum, BeginPractice, PassOver, RunnerAnswers,
             PostPracticeRun, EndPractice, PassRejected, ReadActiveMemory, PassStale,
             noxVars, evolutionLog
    <3> QED
      BY <3>1 DEF BatchInv, NoEquivalentExperiences
  <2> QED
    BY <2>1, <2>2
<1> QED
  BY <1>2, <1>3, <1>4, <1>5, <1>6 DEF BatchInv

LEMMA LifecycleStep == LifecycleInv /\ [Next]_vars => LifecycleInv'
<1> SUFFICES ASSUME LifecycleInv, [Next]_vars PROVE LifecycleInv'
  OBVIOUS
<1>0. BatchInv /\ EvidenceInv /\ TypeOK
  BY DEF LifecycleInv, VerdictInv, EvidenceInv
<1>1. VerdictInv' /\ TypeOK'
  BY VerdictStep DEF LifecycleInv, VerdictInv, EvidenceInv
<1>2. CASE NoxNext /\ UNCHANGED <<learnerVars, evolutionVars>>
  BY <1>0, <1>1, <1>2, NoxKeepsBatches DEF LifecycleInv
<1>3. CASE (LearnerStep \/ LearnerAborts) /\ UNCHANGED evolutionVars
  BY <1>0, <1>1, <1>3, LearnerKeepsBatches DEF LifecycleInv
<1>4. CASE (EvolutionStep \/ EvolutionFails) /\ UNCHANGED learnerVars
  BY <1>0, <1>1, <1>4, EvolutionKeepsBatches DEF LifecycleInv
<1>5. CASE UNCHANGED vars
  <2>1. /\ UNCHANGED <<learningLog, governance, intake, artifacts, evolutionVars>>
        /\ UNCHANGED <<learner, fetched, source, current, drafted, revisions>>
    BY <1>5 DEF vars, noxVars, learnerVars, learningLog, evolutionLog
  <2>2. FreezingIsNew' /\ NoEquivalentExperiences'
    BY <1>0, <2>1, FreezingUnchanged
  <2>3. /\ BatchesArePlaced' /\ BatchesAreIsolated'
        /\ \A i \in DOMAIN revisions' : Reconciled(revisions'[i])
        /\ LearnerIsCalled'
    BY <1>0, <2>1, BatchesUnchanged DEF intake, BatchInv, LearnerIsCalled
  <2>4. BatchIsSound' /\ \A m \in released' : Distinct(m)
    BY <1>0, <2>1 DEF BatchInv, BatchIsSound, Extends, intake, governance
  <2> QED
    BY <1>1, <2>2, <2>3, <2>4 DEF LifecycleInv, BatchInv
<1> QED
  BY <1>2, <1>3, <1>4, <1>5 DEF Next

LEMMA LifecycleInit == Init => LifecycleInv
<1> SUFFICES ASSUME Init PROVE LifecycleInv
  OBVIOUS
<1>1. /\ released = {<<>>} /\ ready = {} /\ distilled = {} /\ revisions = <<>>
      /\ artifacts = {} /\ learner = "idle" /\ fetched = {} /\ source = {}
      /\ worker = "idle"
  BY DEF Init, NoxInit, LearnerInit, EvolutionInit, Genesis
<1>2. DOMAIN revisions = {}
  BY <1>1
<1>3. \A m \in released : Distinct(m)
  BY <1>1 DEF Distinct
<1>4. BatchesArePlaced
  BY <1>1, <1>2 DEF BatchesArePlaced, Batched, RevisionsOf
<1>5. LearnerIsCalled /\ BatchIsSound /\ BatchesAreIsolated /\ FreezingIsNew
  BY <1>1, <1>2 DEF LearnerIsCalled, BatchIsSound, BatchesAreIsolated, FreezingIsNew
<1>6. NoEquivalentExperiences /\ \A i \in DOMAIN revisions : Reconciled(revisions[i])
  BY <1>1, <1>2 DEF NoEquivalentExperiences
<1> QED
  BY <1>3, <1>4, <1>5, <1>6, VerdictInit DEF LifecycleInv, BatchInv

\* The lifecycle invariant holds throughout, for any number of handoffs,
\* conclusions, interruptions, activations and rollbacks.
\* (experience/worker.py and experience/evolution_worker.py, run_once.)
THEOREM LifecycleHolds == Spec => []LifecycleInv
BY LifecycleInit, LifecycleStep, PTL DEF Spec

\* No memory that is frozen holds two equivalent experiences, whatever memory
\* is active when a batch is reconciled and when a revision is frozen.
\* (reconciler._reconcile_one:120-151, evolution_worker.run_once:514-531.)
THEOREM NoEquivalents == Spec => []NoEquivalentExperiences
<1>1. LifecycleInv => NoEquivalentExperiences
  BY DEF LifecycleInv, BatchInv
<1> QED
  BY <1>1, LifecycleHolds, PTL

\* The candidates of two handoffs never mix in one revision.
\* (reconciler.reconcile_batch:26-117.)
THEOREM BatchesStayIsolated == Spec => []BatchesAreIsolated
<1>1. LifecycleInv => BatchesAreIsolated
  BY DEF LifecycleInv, BatchInv
<1> QED
  BY <1>1, LifecycleHolds, PTL

\* A handoff has one revision for each conclusion or none at all, however
\* often the learner is cut and fetches it again.
\* (worker.run_once:149-177, service.build_atomic_batch.)
THEOREM BatchesStayWhole == Spec => []BatchesAreWhole
<1>1. ASSUME BatchesArePlaced PROVE BatchesAreWhole
  <2> SUFFICES ASSUME NEW h \in Handoff, Batched(h)
               PROVE  /\ Candidates(h) \subseteq distilled
                      /\ Cardinality(RevisionsOf(h)) = Len(Conclusions[h])
                      /\ {revisions[i].candidate : i \in RevisionsOf(h)} = Candidates(h)
    BY <1>1 DEF BatchesAreWhole, BatchesArePlaced
  <2> DEFINE n == Len(Conclusions[h])
  <2>1. n \in Nat /\ n >= 1 /\ DOMAIN Conclusions[h] = 1..n
    BY ConclusionsOf
  <2>2. PICK k \in 0..Len(revisions) : Placed(h, k)
    BY <1>1 DEF BatchesArePlaced
  <2>3. k \in Nat
    BY <2>2
  <2> HIDE DEF n
  <2>4. Cardinality((k + 1)..(k + n)) = n
    <3> DEFINE a == k + 1
               b == k + n
    <3>1. a \in Int /\ b \in Int /\ ~(a > b) /\ b - a + 1 = n
      BY <2>1, <2>3
    <3> HIDE DEF a, b
    <3>2. Cardinality(a..b) = b - a + 1
      BY <3>1, FS_Interval
    <3> QED
      BY <3>1, <3>2 DEF a, b
  <2>5. \A i \in (k + 1)..(k + n) : \E j \in 1..n : i = k + j
    <3> SUFFICES ASSUME NEW i \in (k + 1)..(k + n) PROVE i - k \in 1..n /\ i = k + (i - k)
      OBVIOUS
    <3> QED
      BY <2>1, <2>3
  <2>6. \A j \in 1..n : k + j \in (k + 1)..(k + n)
    BY <2>1, <2>3
  <2>7. /\ RevisionsOf(h) = (k + 1)..(k + n)
        /\ \A j \in 1..n : revisions[k + j].candidate = Candidate(h, j)
        /\ Candidates(h) \subseteq distilled
    BY <2>2 DEF Placed, n
  <2>8. Candidates(h) = {Candidate(h, j) : j \in 1..n}
    BY <2>1 DEF Candidates
  <2>9. {revisions[i].candidate : i \in RevisionsOf(h)} = {Candidate(h, j) : j \in 1..n}
    <3>1. \A i \in (k + 1)..(k + n) : \E j \in 1..n : revisions[i].candidate = Candidate(h, j)
      BY <2>5, <2>7
    <3>2. \A j \in 1..n :
            \E i \in (k + 1)..(k + n) : revisions[i].candidate = Candidate(h, j)
      BY <2>6, <2>7
    <3>3. RevisionsOf(h) = (k + 1)..(k + n)
      BY <2>7
    <3> QED
      BY <3>1, <3>2, <3>3
  <2> QED
    BY <2>4, <2>7, <2>8, <2>9 DEF n
<1>2. LifecycleInv => BatchesAreWhole
  BY <1>1 DEF LifecycleInv, BatchInv
<1> QED
  BY <1>2, LifecycleHolds, PTL

-----------------------------------------------------------------------------
(* The lifecycle with rollouts and bounded interruptions.                  *)

LEMMA ProgressStep == [ProgressNext]_progressVars => [Next]_vars
<1> SUFFICES ASSUME ProgressNext \/ UNCHANGED progressVars
             PROVE  Next \/ UNCHANGED vars
  OBVIOUS
<1>1. CASE NoxRuns
  BY <1>1 DEF NoxRuns, Next, vars, noxVars, learnerVars, evolutionVars
<1>2. CASE LearnerRuns
  BY <1>2 DEF LearnerRuns, Next
<1>3. CASE EvolutionRuns
  BY <1>3 DEF EvolutionRuns, EvolutionStep, Next, vars
<1>4. CASE Fails
  BY <1>4 DEF Fails, Next
<1>5. CASE UNCHANGED progressVars
  BY <1>5 DEF progressVars
<1> QED
  BY <1>1, <1>2, <1>3, <1>4, <1>5 DEF ProgressNext

\* Rollouts and a bound on interruptions take nothing away: what holds of the
\* lifecycle holds of it, and with it that memory is governed.
\* (evolution_worker.run_once:451, main:551-571.)
THEOREM ProgressIsGoverned == ProgressSpec => ImplementsGovernedMemory
<1>1. ProgressInit => Init
  BY DEF ProgressInit
<1>2. ProgressSpec => Spec
  BY <1>1, ProgressStep, PTL DEF ProgressSpec, Spec
<1> QED
  BY <1>2, LifecycleImplementsGovernedMemory, PTL

LEMMA CollectionType ==
  ASSUME NEW paging \in BOOLEAN, NEW seen \in SUBSET Rollout,
         NEW at \in Nat, NEW upTo \in Nat, NEW more \in BOOLEAN
  PROVE  [paging |-> paging, seen |-> seen, at |-> at, upTo |-> upTo, more |-> more]
           \in Collection
BY DEF Collection

LEMMA CollectsKeepsRollouts ==
  ASSUME RolloutInv, Collects
  PROVE  RolloutInv'
<1> USE RolloutAssumption DEF RolloutInv, RolloutTypeOK, Collection, RunsCountOnce, Seen, Rollout
<1>0. /\ collection.seen \subseteq Rollout /\ collection.at \in Nat
      /\ collection.upTo \in Nat /\ assigned \in Nat /\ PageSize \in Nat
  OBVIOUS
<1>1. CASE ReadPage
  <2> DEFINE end == IF collection.at + PageSize < assigned
                    THEN collection.at + PageSize ELSE assigned
  <2>1. end \in Nat /\ collection.at <= end /\ end <= assigned
    BY <1>0, <1>1 DEF ReadPage
  <2>2. NextPage(end) \in BOOLEAN
    BY DEF NextPage
  <2>3. /\ collection' = [collection EXCEPT !.upTo = end, !.more = NextPage(end)]
        /\ UNCHANGED <<assigned, observations>>
    BY <1>1 DEF ReadPage
  <2> HIDE DEF end
  <2> QED
    BY <2>1, <2>2, <2>3
<1>2. CASE EndCollection
  BY <1>2 DEF EndCollection, NoCollection
<1>3. ASSUME NEW r \in Rollout, PassRollout(r)
      PROVE  RolloutInv'
  BY <1>3 DEF PassRollout, AtRollout
<1>4. ASSUME NEW r \in Rollout, Observe(r)
      PROVE  RolloutInv'
  <2>1. observations[r] = 0
    BY <1>4 DEF Observe, AtRollout
  <2>2. /\ observations' \in [Rollout -> Nat]
        /\ \A s \in Rollout : observations'[s] = IF s = r THEN 1 ELSE observations[s]
    BY <1>4, <2>1 DEF Observe
  <2>3. /\ assigned' = assigned /\ collection.at < collection.upTo /\ collection.paging
        /\ collection' = [collection EXCEPT !.at = @ + 1, !.seen = @ \cup {r}]
    BY <1>4 DEF Observe, AtRollout
  <2>4. collection' = [paging |-> collection.paging, seen |-> collection.seen \cup {r},
                       at |-> collection.at + 1, upTo |-> collection.upTo,
                       more |-> collection.more]
    BY <2>3
  <2>5. /\ collection.paging \in BOOLEAN /\ collection.more \in BOOLEAN
        /\ collection.seen \cup {r} \in SUBSET Rollout
        /\ collection.at + 1 \in Nat /\ collection.upTo \in Nat
    BY <1>0
  <2> HIDE DEF Collection, Rollout, Seen
  <2>6. collection' \in Collection
    BY <2>4, <2>5, CollectionType
  <2> USE DEF Collection, Rollout, Seen
  <2>7. collection'.at <= collection'.upTo
    BY <1>0, <2>3
  <2>8. collection'.upTo <= assigned' /\ collection'.seen = Seen'
    BY <2>2, <2>3
  <2>9. \A s \in Rollout : observations'[s] <= 1
    <3>1. \A s \in Rollout : observations[s] <= 1
      OBVIOUS
    <3> HIDE DEF RolloutInv, RolloutTypeOK, Collection, RunsCountOnce, Seen, Rollout
    <3> QED
      BY <2>2, <3>1
  <2> QED
    BY <2>2, <2>3, <2>6, <2>7, <2>8, <2>9
<1> QED
  BY <1>1, <1>2, <1>3, <1>4 DEF Collects

LEMMA RolloutStep == RolloutInv /\ [ProgressNext]_progressVars => RolloutInv'
<1> SUFFICES ASSUME RolloutInv, ProgressNext \/ UNCHANGED progressVars
             PROVE  RolloutInv'
  OBVIOUS
<1> USE RolloutAssumption DEF RolloutInv, RolloutTypeOK, Collection, RunsCountOnce, Seen, Rollout
<1>1. CASE UNCHANGED rolloutVars
  BY <1>1 DEF rolloutVars
<1>2. CASE Assign
  BY <1>2 DEF Assign
<1>3. CASE BeginCollection
  BY <1>3 DEF BeginCollection
<1>4. CASE Collects
  BY <1>4, CollectsKeepsRollouts
<1>5. CASE CollectionFails
  BY <1>5 DEF CollectionFails, NoCollection
<1> QED
  BY <1>1, <1>2, <1>3, <1>4, <1>5
     DEF ProgressNext, NoxRuns, LearnerRuns, EvolutionRuns, Fails, progressVars

\* No run counts twice, for any number of runs and any size of a page.
\* (collect_rollout_observations:310-333.)
THEOREM RunsCount == ProgressSpec => []RunsCountOnce
<1>1. ProgressInit => RolloutInv
  BY RolloutAssumption DEF ProgressInit, RolloutInit, NoCollection, RolloutInv, RolloutTypeOK,
     Collection, RunsCountOnce
<1>2. RolloutInv => RunsCountOnce
  BY DEF RolloutInv
<1> QED
  BY <1>1, <1>2, RolloutStep, PTL DEF ProgressSpec
=============================================================================
