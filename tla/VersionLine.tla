------------------------------ MODULE VersionLine ------------------------------
(***************************************************************************)
(* What the versions of knowledge promise, without writers, repositories   *)
(* and partial reads: a version is superseded before the next one is       *)
(* added, in one step each, and nothing else ever happens to a version or  *)
(* to an event; until somebody interferes.                                 *)
(***************************************************************************)
EXTENDS Naturals

CONSTANTS Change, TargetOf, None

VARIABLES
  versions,    \* [number, status, supersedes] of each change
  events,      \* [to, from]: the links between versions
  interfered

lineVars == <<versions, events, interfered>>

Line(t) == {c \in Change : TargetOf[c] = t /\ versions[c].status # "absent"}

Newest(c) ==
  /\ c \in Line(TargetOf[c])
  /\ \A d \in Line(TargetOf[c]) : versions[d].number <= versions[c].number

Init ==
  /\ versions = [c \in Change |-> [number |-> 0, status |-> "absent", supersedes |-> None]]
  /\ events = {}
  /\ interfered = FALSE

Supersede(c) ==
  /\ Newest(c)
  /\ versions' = [versions EXCEPT ![c].status = "superseded"]
  /\ UNCHANGED <<events, interfered>>

First(c) ==
  /\ Line(TargetOf[c]) = {}
  /\ versions' = [versions EXCEPT ![c] = [number |-> 1, status |-> "active", supersedes |-> None]]
  /\ UNCHANGED <<events, interfered>>

Follow(c, before) ==
  /\ versions[c].status = "absent"
  /\ TargetOf[before] = TargetOf[c] /\ Newest(before)
  /\ versions[before].status = "superseded"
  /\ versions' = [versions EXCEPT ![c] = [number |-> versions[before].number + 1,
                                          status |-> "active", supersedes |-> before]]
  /\ UNCHANGED <<events, interfered>>

Link(c) ==
  /\ versions[c].status # "absent"
  /\ events' = events \cup {[to |-> c, from |-> versions[c].supersedes]}
  /\ UNCHANGED <<versions, interfered>>

Interfere == interfered'

Next ==
  \/ ~interfered /\ \E c \in Change :
       Supersede(c) \/ First(c) \/ Link(c) \/ \E before \in Change : Follow(c, before)
  \/ Interfere

Spec == Init /\ [][Next]_lineVars
=============================================================================
