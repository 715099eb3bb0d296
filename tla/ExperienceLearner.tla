-------------------------- MODULE ExperienceLearner --------------------------
(***************************************************************************)
(* The governed experience learner (experience/worker.py): one process per *)
(* tenant and domain that fetches pending handoffs and, for each of them,  *)
(* reads the active memory, distils the conclusions, reconciles them with  *)
(* that snapshot one after the other and submits one atomic batch.         *)
(*                                                                         *)
(* Every request may fail before or after NOX has executed it, and the     *)
(* process may stop: LearnerAborts then drops everything the cycle holds   *)
(* in memory, as `except Exception` in main and a restart do.              *)
(***************************************************************************)
EXTENDS NoxStateEngine, FiniteSetsExt

CONSTANT BatchSize    \* at most this many handoffs are fetched in a cycle

ASSUME BatchSizeAssumption == BatchSize \in Nat \ {0}

VARIABLES
  learner,   \* what the learner is doing
  fetched,   \* handoffs fetched in this cycle and not yet submitted
  source,    \* the handoff that is being processed (meaningful off "idle")
  current,   \* the snapshot the next candidate is reconciled with
  drafted    \* the revisions of the batch, so far

learnerVars == <<learner, fetched, source, current, drafted>>

LearnerTypeOK ==
  /\ learner \in {"idle", "fetched", "reconciling"}
  /\ fetched \subseteq Handoff
  /\ source \subseteq Handoff
  /\ current \in Memory
  /\ drafted \in Seq(Revision)

LearnerInit ==
  /\ learner = "idle"
  /\ fetched = {}
  /\ source = {}
  /\ current = Genesis
  /\ drafted = <<>>

\* The cycle is over: its local variables are gone.
LearnerStops ==
  /\ learner' = "idle"
  /\ fetched' = {}
  /\ source' = {}
  /\ current' = Genesis
  /\ drafted' = <<>>

\* GET actor-learning-handoffs/pending, at most BatchSize of them.
FetchPending ==
  /\ learner = "idle"
  /\ \E k \in {Min({BatchSize, Cardinality(Pending)})} :
       /\ k > 0
       /\ fetched' \in kSubset(k, Pending)
  /\ learner' = "fetched"
  /\ UNCHANGED <<source, current, drafted, noxVars>>

\* Fault: the handoff is not compared with the active memory.
TakeAnyHandoff(h) ==
  /\ learner = "fetched"
  /\ h \in fetched
  /\ Distillable(h)
  /\ learner' = "reconciling"
  /\ source' = {h}
  /\ current' = active
  /\ drafted' = <<>>
  /\ UNCHANGED <<fetched, noxVars>>

\* GET memory-artifacts/active; the handoff is bound to exactly that memory
\* and every conclusion can be distilled.
TakeHandoff(h) ==
  /\ learner = "fetched"
  /\ h \in fetched
  /\ parentOf[h] = active
  /\ Distillable(h)
  /\ learner' = "reconciling"
  /\ source' = {h}
  /\ current' = active
  /\ drafted' = <<>>
  /\ UNCHANGED <<fetched, noxVars>>

\* A stale handoff, or one the distiller refuses, ends the whole cycle.
RefuseHandoff(h) ==
  /\ learner = "fetched"
  /\ h \in fetched
  /\ parentOf[h] # active \/ ~Distillable(h)
  /\ LearnerStops
  /\ UNCHANGED noxVars

\* One round of reconcile_batch.
Reconcile(h) ==
  /\ learner = "reconciling"
  /\ source = {h}
  /\ Len(drafted) < Len(Conclusions[h])
  /\ LET r == ReconcileOne(current, Candidate(h, Len(drafted) + 1))
     IN /\ drafted' = Append(drafted, r)
        /\ current' = r.proposed
  /\ UNCHANGED <<learner, fetched, source, noxVars>>

\* Fault: the revisions made so far are submitted, not the whole batch.
SubmitPartly(h) ==
  /\ learner = "reconciling"
  /\ source = {h}
  /\ drafted # <<>>
  /\ distilled' = distilled \cup {drafted[i].candidate : i \in DOMAIN drafted}
  /\ revisions' = revisions \o drafted
  /\ LearnerStops
  /\ UNCHANGED <<governance, intake, evolutionLog>>

\* Fault: a submitted handoff stays in the list of the cycle.
SubmitAgain(h) ==
  /\ learner = "reconciling"
  /\ source = {h}
  /\ Len(drafted) = Len(Conclusions[h])
  /\ IF Batched(h) THEN UNCHANGED learningLog
     ELSE /\ distilled' = distilled \cup Candidates(h)
          /\ revisions' = revisions \o drafted
  /\ learner' = "fetched"
  /\ source' = {}
  /\ current' = Genesis
  /\ drafted' = <<>>
  /\ UNCHANGED <<fetched, governance, intake, evolutionLog>>

\* POST experience-batches: the candidates and their revisions are recorded
\* in one transaction, under an id derived from the handoff.
SubmitBatch(h) ==
  /\ learner = "reconciling"
  /\ source = {h}
  /\ Len(drafted) = Len(Conclusions[h])
  /\ IF Batched(h) THEN UNCHANGED learningLog
     ELSE /\ distilled' = distilled \cup Candidates(h)
          /\ revisions' = revisions \o drafted
  /\ IF fetched = {h} THEN LearnerStops
     ELSE /\ learner' = "fetched"
          /\ fetched' = fetched \ {h}
          /\ source' = {}
          /\ current' = Genesis
          /\ drafted' = <<>>
  /\ UNCHANGED <<governance, intake, evolutionLog>>

LearnerAborts ==
  /\ learner # "idle"
  /\ LearnerStops
  /\ UNCHANGED noxVars

LearnerStep ==
  \/ FetchPending
  \/ \E h \in Handoff : \/ TakeHandoff(h) \/ RefuseHandoff(h)
                        \/ Reconcile(h)   \/ SubmitBatch(h)
=============================================================================
