-------------------------- MODULE RolloutObservations --------------------------
(***************************************************************************)
(* Observations of memory rollouts (experience/evolution_worker.py:        *)
(* collect_rollout_observations, evaluate_rollout).  NOX assigns runs to   *)
(* the arms of a release; at the start of each cycle the worker pages      *)
(* through the assignments, has the runs that it knows no observation of   *)
(* replayed, and posts what the replay service observed.                   *)
(*                                                                         *)
(* Runs are numbered in the order of the cursor.  NOX goes on assigning    *)
(* while the worker pages.  An observation that does not match its         *)
(* assignment raises, as a failed request does.                            *)
(***************************************************************************)
EXTENDS NoxStateEngine

CONSTANTS
  MaxRollouts, \* bounds the runs that are assigned
  PageSize     \* the limit of a page

ASSUME RolloutAssumption == MaxRollouts \in Nat /\ PageSize \in Nat \ {0}

Rollout == 1..MaxRollouts

VARIABLES
  assigned,     \* NOX: the number of runs assigned so far
  observations, \* memory.rollout_observed: how often each run was observed
  collection    \* what the worker has read of both

rolloutVars == <<assigned, observations, collection>>

\* seen: the runs observed, as the worker knows; at: the place in the
\* assignments, upTo: the end of the page, more: there is another one.
Collection == [paging : BOOLEAN, seen : SUBSET Rollout, at : Nat, upTo : Nat, more : BOOLEAN]

RolloutTypeOK ==
  /\ assigned \in 0..MaxRollouts
  /\ observations \in [Rollout -> Nat]
  /\ collection \in Collection
  /\ collection.at <= collection.upTo /\ collection.upTo <= assigned

NoCollection == [paging |-> FALSE, seen |-> {}, at |-> 0, upTo |-> 0, more |-> FALSE]

RolloutInit ==
  /\ assigned = 0
  /\ observations = [r \in Rollout |-> 0]
  /\ collection = NoCollection

\* The release pipeline assigns a run once there is a candidate to roll out.
Assign ==
  /\ artifacts # {}
  /\ assigned < MaxRollouts
  /\ assigned' = assigned + 1
  /\ UNCHANGED <<observations, collection>>

-----------------------------------------------------------------------------

\* Fault: only what this cycle observed itself is known.
SeenNothing == {}

\* The runs with an observation among the events just read.
Seen == {r \in Rollout : observations[r] > 0}

BeginCollection ==
  /\ collection' = [paging |-> TRUE, seen |-> Seen, at |-> 0, upTo |-> 0, more |-> TRUE]
  /\ UNCHANGED <<assigned, observations>>

\* Fault: the first page is the only one.
OnlyPage(end) == FALSE

\* NOX names a cursor for the next page.
NextPage(end) == end < assigned

\* GET memory-rollout-assignments.
ReadPage ==
  /\ collection.paging /\ collection.more
  /\ collection.at = collection.upTo
  /\ LET end == IF collection.at + PageSize < assigned
                THEN collection.at + PageSize ELSE assigned
     IN  collection' = [collection EXCEPT !.upTo = end, !.more = NextPage(end)]
  /\ UNCHANGED <<assigned, observations>>

AtRollout(r) ==
  /\ collection.paging
  /\ collection.at < collection.upTo
  /\ r = collection.at + 1

\* The run is observed, is not ready, or has not been replayed yet.
PassRollout(r) ==
  /\ AtRollout(r)
  /\ collection' = [collection EXCEPT !.at = @ + 1]
  /\ UNCHANGED <<assigned, observations>>

\* POST memory-rollout-observations.
Observe(r) ==
  /\ AtRollout(r)
  /\ r \notin collection.seen
  /\ observations' = [observations EXCEPT ![r] = @ + 1]
  /\ collection' = [collection EXCEPT !.at = @ + 1, !.seen = @ \cup {r}]
  /\ UNCHANGED assigned

EndCollection ==
  /\ collection.paging /\ ~collection.more
  /\ collection.at = collection.upTo
  /\ collection' = NoCollection
  /\ UNCHANGED <<assigned, observations>>

CollectionFails ==
  /\ collection' = NoCollection
  /\ UNCHANGED <<assigned, observations>>

Collects ==
  \/ ReadPage \/ EndCollection
  \/ \E r \in Rollout : PassRollout(r) \/ Observe(r)

-----------------------------------------------------------------------------

\* A run counts once as evidence for a release: wherever a cycle is cut, the
\* post of an observation included, the next one does not observe it again.
\* (collect_rollout_observations:310-333.)
RunsCountOnce == \A r \in Rollout : observations[r] <= 1

\* The inductive invariant: between its requests the worker knows of every
\* observation on record.
RolloutInv ==
  /\ RolloutTypeOK
  /\ collection.paging => collection.seen = Seen
  /\ RunsCountOnce

\* Whatever NOX assigns while the worker pages, however often cycles are cut,
\* every run that can be replayed is observed in the end.
\* (collect_rollout_observations:316-339.)
RolloutsAreObserved ==
  \A r \in Rollout : r <= assigned ~> observations[r] > 0
=============================================================================
