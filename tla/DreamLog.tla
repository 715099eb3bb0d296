-------------------------------- MODULE DreamLog --------------------------------
(***************************************************************************)
(* What dream runs promise, without processes, leases and partial reads:   *)
(* only the run that began last goes on, one record after the other, no    *)
(* run goes back or is taken up again once a later one began, and the      *)
(* schedule names a completed run or none; until two dreams overlap.       *)
(***************************************************************************)
EXTENDS Naturals

CONSTANTS Run, None

VARIABLES
  begun,       \* the number of runs that began
  reached,     \* what each run does next
  last,        \* the run that the schedule names
  overlapped

logVars == <<begun, reached, last, overlapped>>

\* What follows when a record of the run is stored.
Following == [begin |-> "insights", insights |-> "diary", diary |-> "finish", finish |-> "done"]

Init ==
  /\ begun = 0
  /\ reached = [r \in Run |-> "begin"]
  /\ last = None
  /\ overlapped = FALSE

Begin ==
  /\ begun + 1 \in Run
  /\ begun' = begun + 1
  /\ UNCHANGED <<reached, last, overlapped>>

Advance ==
  /\ begun \in Run /\ reached[begun] # "done"
  /\ reached' = [reached EXCEPT ![begun] = Following[@]]
  /\ UNCHANGED <<begun, last, overlapped>>

\* The schedule names a run, or forgets it.
Name ==
  /\ last' = None \/ (last' \in Run /\ reached[last'] = "done")
  /\ UNCHANGED <<begun, reached, overlapped>>

Overlap == overlapped'

Next ==
  \/ ~overlapped /\ (Begin \/ Advance \/ Name)
  \/ Overlap

Spec == Init /\ [][Next]_logVars
=============================================================================
