------------------------------- MODULE AuditTrail -------------------------------
(***************************************************************************)
(* What the monitor, the cycles and the receipt leave for an audit, without*)
(* runners, tasks, lists and locks: what is reported stays reported, a     *)
(* snapshot is published when all it holds is, a cycle is concluded once,  *)
(* neither is changed afterwards, and an answer stands for a cycle on      *)
(* record.  Once the receipt says more than "running", upserts of one part *)
(* may overlap and lose some of it; the other parts go on as before.       *)
(***************************************************************************)

CONSTANTS
  Path, Gone,
  InputOf,     \* the input of the command that a cycle is of
  Looping,     \* the cycles of loops, which succeed with any execution
  Input

VARIABLES
  reported,    \* <<file, content>> that some event reports, with its signal
  snapshots,   \* [name, at, files]
  cycles,      \* [name, signals, execution]
  receipt,     \* [status, input]
  lost         \* the parts of which something may be lost

trailVars == <<reported, snapshots, cycles, receipt, lost>>

Init ==
  /\ reported = {} /\ snapshots = {} /\ cycles = {} /\ lost = {}
  /\ receipt \in [status : {"none"}, input : Input]

Report ==
  /\ reported \subseteq reported'
  /\ UNCHANGED <<snapshots, cycles, receipt, lost>>

\* Unless reports were lost.
IsShown(s) ==
  "reports" \in lost \/ \A f \in Path : s.files[f] # Gone => <<f, s.files[f]>> \in reported

Publish(s) ==
  /\ \A other \in snapshots : other.name # s.name
  /\ IsShown(s)
  /\ snapshots' = snapshots \cup {s}
  /\ UNCHANGED <<reported, cycles, receipt, lost>>

Conclude(c) ==
  /\ \A other \in cycles : other.name # c.name
  /\ cycles' = cycles \cup {c}
  /\ UNCHANGED <<reported, snapshots, receipt, lost>>

Outcome(c) == IF c.execution.status = "completed" THEN "succeeded" ELSE "insufficient"

Answer ==
  /\ \/ receipt'.status \notin {"succeeded", "insufficient"}
     \/ "cycles" \in lost
     \/ \E c \in cycles :
          /\ InputOf[c.name] = receipt'.input
          /\ receipt'.status = (IF c.name \in Looping THEN "succeeded" ELSE Outcome(c))
  /\ UNCHANGED <<reported, snapshots, cycles, lost>>

\* Records may go and come back, but none takes another form.
Scrambles(records, new) == \A old \in records, record \in new : old.name = record.name => old = record

Overlap(part) ==
  /\ receipt.status \notin {"none", "running"}
  /\ lost' = lost \cup {part}
  /\ part # "reports" => reported' = reported
  /\ IF part = "snapshots"
     THEN Scrambles(snapshots, snapshots') /\ \A s \in snapshots' : IsShown(s)
     ELSE snapshots' = snapshots
  /\ IF part = "cycles" THEN Scrambles(cycles, cycles') ELSE cycles' = cycles
  /\ UNCHANGED receipt

Next ==
  \/ Report \/ Answer
  \/ \E s \in snapshots' : Publish(s)
  \/ \E c \in cycles' : Conclude(c)
  \/ \E part \in {"reports", "snapshots", "cycles"} : Overlap(part)

Spec == Init /\ [][Next]_trailVars
=============================================================================
