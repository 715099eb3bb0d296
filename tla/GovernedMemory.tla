---------------------------- MODULE GovernedMemory ----------------------------
(***************************************************************************)
(* What governed learning promises, without events, workers or retries:    *)
(* an experience is verified independently of its author, a proposal adds  *)
(* one verified experience to a memory that was released, and memory only  *)
(* changes by activating a proposal made against it or by undoing one.     *)
(***************************************************************************)
EXTENDS Sequences

CONSTANTS Experience, Genesis

VARIABLES
  verified,    \* experiences with independent evidence
  proposals,   \* [parent, experiences]: the candidate memories
  active,      \* the memory in use
  released     \* the memories that were in use so far

governedVars == <<verified, proposals, active, released>>

Init ==
  /\ verified = {}
  /\ proposals = {}
  /\ active = Genesis
  /\ released = {Genesis}

Verify(e) ==
  /\ e \notin verified
  /\ verified' = verified \cup {e}
  /\ UNCHANGED <<proposals, active, released>>

Propose(m, e) ==
  /\ m \in released
  /\ e \in verified
  /\ proposals' = proposals \cup {[parent |-> m, experiences |-> Append(m, e)]}
  /\ UNCHANGED <<verified, active, released>>

Activate(p) ==
  /\ p.parent = active
  /\ active' = p.experiences
  /\ released' = released \cup {p.experiences}
  /\ UNCHANGED <<verified, proposals>>

Rollback(p) ==
  /\ p.experiences = active
  /\ active' = p.parent
  /\ UNCHANGED <<verified, proposals, released>>

Next ==
  \/ \E e \in Experience : Verify(e) \/ \E m \in released : Propose(m, e)
  \/ \E p \in proposals : Activate(p) \/ Rollback(p)

Spec == Init /\ [][Next]_governedVars
=============================================================================
