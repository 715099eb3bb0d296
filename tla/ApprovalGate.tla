------------------------------ MODULE ApprovalGate ------------------------------
(***************************************************************************)
(* What the governed update of LLM-KG promises, without copies and         *)
(* upserts: a proposal is approved and later handed over, each in one step *)
(* of a process that may decide, and the records claim no decision and no  *)
(* hand over that did not happen.  Records may be overwritten in any other *)
(* way.                                                                    *)
(***************************************************************************)

CONSTANTS
  Proposal,
  Status,
  Decider      \* the processes that may decide

VARIABLES
  approved,    \* who approved each proposal
  handed,      \* who handed it over
  recorded     \* its status on record

gateVars == <<approved, handed, recorded>>

Init ==
  /\ recorded \in [Proposal -> {"absent", "approved"}]
  /\ approved \in [Proposal -> SUBSET Decider]
  /\ \A p \in Proposal : recorded[p] = "approved" <=> approved[p] # {}
  /\ handed = [p \in Proposal |-> {}]

Approve(o, p) ==
  /\ o \in Decider
  /\ approved' = [approved EXCEPT ![p] = @ \cup {o}]
  /\ UNCHANGED <<handed, recorded>>

HandOver(o, p) ==
  /\ o \in Decider
  /\ approved[p] # {}
  /\ handed' = [handed EXCEPT ![p] = @ \cup {o}]
  /\ UNCHANGED <<approved, recorded>>

Record ==
  /\ recorded' \in [Proposal -> Status]
  /\ \A p \in Proposal :
       /\ recorded'[p] = "approved" => approved[p] # {}
       /\ recorded'[p] = "applied"  => handed[p] # {}
  /\ UNCHANGED <<approved, handed>>

Next ==
  \/ Record
  \/ \E o \in Decider, p \in Proposal : Approve(o, p) \/ HandOver(o, p)

Spec == Init /\ [][Next]_gateVars
=============================================================================
