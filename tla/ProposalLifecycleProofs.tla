------------------------- MODULE ProposalLifecycleProofs -------------------------
(***************************************************************************)
(* Theorems of the update proposals, for any number of processes and       *)
(* proposals, any content and any verdicts.                                *)
(***************************************************************************)
EXTENDS ProposalLifecycle, TLAPS

USE ProposalAssumption

\* Screening ends in one of four statuses, and none of them is an approval.
LEMMA GateIsAdvisory ==
  \A decisions : LearningGate(decisions)
                   \in {"rejected", "conflict_review", "need_more_evidence", "pending_review"}
BY DEF LearningGate

LEMMA EmptyRecords == NoRecords \in Records /\ \A p \in Proposal : NoRecords[p] = "absent"
BY DEF NoRecords, Records, Status

\* A process turns to another step.
LEMMA Turning ==
  ASSUME TypeOK, NEW o \in Operator, NEW step \in {"screening", "applying", "saving"},
         NEW p \in Proposal, NEW status \in Status, NEW screens \in BOOLEAN,
         Turns(o, step, p, status, screens)
  PROVE  /\ op' \in [Operator -> Process]
         /\ op'[o].step = step /\ op'[o].proposal = p /\ op'[o].holds = status
         /\ op'[o].items = NoRecords
         /\ \A q \in Operator : q # o => op'[q] = op[q]
BY EmptyRecords DEF TypeOK, Turns, Process

LEMMA Ending ==
  ASSUME TypeOK, NEW o \in Operator, Ends(o)
  PROVE  /\ op' \in [Operator -> Process]
         /\ op'[o].step = "idle" /\ op'[o].holds = "absent" /\ op'[o].items = NoRecords
         /\ \A q \in Operator : q # o => op'[q] = op[q]
<1>1. Idle \in Process
  BY EmptyRecords DEF Idle, Process, Status
<1> QED
  BY <1>1 DEF TypeOK, Ends, Idle

LEMMA ProposalsInit == Init => ProposalsInv
<1> SUFFICES ASSUME Init PROVE ProposalsInv
  OBVIOUS
<1>1. Idle \in Process
  BY EmptyRecords DEF Idle, Process, Status
<1>2. TypeOK
  BY <1>1 DEF Init, TypeOK, Records, Status
<1>3. \A o \in Operator : op[o] = Idle
  BY DEF Init
<1>4. /\ Handed = {}
      /\ \A p \in Proposal : proposals[p] # "applied"
      /\ \A p \in Proposal : proposals[p] = "approved" => p \in Approved
  BY DEF Init, Handed, Approved
<1>5. KnowledgeIsApproved /\ AppliedWasHandedOver
  BY <1>4 DEF KnowledgeIsApproved, AppliedWasHandedOver
<1> QED
  BY <1>2, <1>3, <1>4, <1>5, EmptyRecords DEF ProposalsInv, At, Idle

\* A process turns to a copy that is not applied unless it was so on record.
TurnsToCopy(o, p, status) ==
  /\ \E step \in {"screening", "saving"}, screens \in BOOLEAN : Turns(o, step, p, status, screens)
  /\ status = "approved" => p \in Approved'
  /\ status = "applied" => p \in Approved /\ p \in Handed
  /\ approved' \in [Proposal -> SUBSET (Operator \cup {Earlier})]
  /\ Approved \subseteq Approved'
  /\ UNCHANGED <<proposals, kg, dry>>

LEMMA CopyKeepsInv ==
  ASSUME ProposalsInv, NEW o \in Operator, NEW p \in Proposal, NEW status \in Status,
         TurnsToCopy(o, p, status)
  PROVE  ProposalsInv'
<1> USE DEF ProposalsInv, TypeOK, KnowledgeIsApproved, AppliedWasHandedOver, At
<1>1. PICK step \in {"screening", "saving"}, screens \in BOOLEAN :
        Turns(o, step, p, status, screens)
  BY DEF TurnsToCopy
<1>2. /\ status = "approved" => p \in Approved'
      /\ status = "applied" => p \in Approved /\ p \in Handed
      /\ approved' \in [Proposal -> SUBSET (Operator \cup {Earlier})]
      /\ Approved \subseteq Approved'
      /\ UNCHANGED <<proposals, kg, dry>>
  BY DEF TurnsToCopy
<1>3. /\ op' \in [Operator -> Process]
      /\ op'[o].step = step /\ op'[o].proposal = p /\ op'[o].holds = status
      /\ op'[o].items = NoRecords
      /\ \A q \in Operator : q # o => op'[q] = op[q]
  BY <1>1, Turning
<1>4. Handed' = Handed
  BY <1>2 DEF Handed
<1> QED
  BY <1>2, <1>3, <1>4, EmptyRecords

LEMMA ProposalsStep == ProposalsInv /\ [Next]_vars => ProposalsInv'
<1> SUFFICES ASSUME ProposalsInv, [Next]_vars PROVE ProposalsInv'
  OBVIOUS
<1> USE DEF ProposalsInv, TypeOK, KnowledgeIsApproved, AppliedWasHandedOver, At
<1>0. TypeOK
  OBVIOUS
<1>1. CASE UNCHANGED vars
  <2>1. Approved' = Approved /\ Handed' = Handed
    BY <1>1 DEF vars, Approved, Handed
  <2> QED
    BY <1>1, <2>1 DEF vars
<1>2. approved \in [Proposal -> SUBSET (Operator \cup {Earlier})]
  OBVIOUS
<1>3. ASSUME NEW o \in Operator, NEW p \in Proposal,
             Create(o, p) \/ Evaluate(o, p) \/ Approve(o, p) \/ Decline(o, p)
      PROVE  ProposalsInv'
  <2>1. PICK status \in Status : TurnsToCopy(o, p, status)
    <3>1. CASE Create(o, p)
      <4>1. UNCHANGED <<proposals, kg, dry, approved>> /\ Approved' = Approved
        BY <3>1 DEF Create, Approved
      <4>2. TurnsToCopy(o, p, "draft")
        BY <1>2, <3>1, <4>1 DEF Create, TurnsToCopy
      <4> QED
        BY <4>2 DEF Status
    <3>2. CASE Evaluate(o, p)
      <4>1. UNCHANGED <<proposals, kg, dry, approved>> /\ Approved' = Approved
        BY <3>2 DEF Evaluate, Approved
      <4>2. TurnsToCopy(o, p, proposals[p])
        BY <1>2, <3>2, <4>1 DEF Evaluate, TurnsToCopy
      <4> QED
        BY <4>2 DEF Records
    <3>3. CASE Approve(o, p)
      <4>1. /\ approved' \in [Proposal -> SUBSET (Operator \cup {Earlier})]
            /\ Approved \subseteq Approved' /\ p \in Approved'
        BY <3>3 DEF Approve, Approved
      <4>2. TurnsToCopy(o, p, "approved")
        BY <3>3, <4>1 DEF Approve, TurnsToCopy
      <4> QED
        BY <4>2 DEF Status
    <3>4. CASE Decline(o, p)
      <4>1. UNCHANGED <<proposals, kg, dry, approved>> /\ Approved' = Approved
        BY <3>4 DEF Decline, Approved
      <4>2. PICK status \in {"rejected", "need_more_evidence"} :
              Turns(o, "saving", p, status, FALSE)
        BY <3>4 DEF Decline
      <4>3. TurnsToCopy(o, p, status)
        BY <1>2, <4>1, <4>2 DEF TurnsToCopy
      <4> QED
        BY <4>3 DEF Status
    <3> QED
      BY <1>3, <3>1, <3>2, <3>3, <3>4
  <2> HIDE DEF ProposalsInv
  <2> QED
    BY <2>1, CopyKeepsInv
<1>4. ASSUME NEW o \in Operator, NEW p \in Proposal, Apply(o, p)
      PROVE  ProposalsInv'
  <2>1. proposals[p] \in Status
    BY DEF Records
  <2>2. CASE Mode[o] = "standalone" /\ proposals[p] = "approved"
    <3>1. Turns(o, "applying", p, "approved", FALSE)
      BY <1>4, <2>2 DEF Apply
    <3>2. /\ op' \in [Operator -> Process]
          /\ op'[o].step = "applying" /\ op'[o].proposal = p /\ op'[o].holds = "approved"
          /\ op'[o].items = NoRecords
          /\ \A q \in Operator : q # o => op'[q] = op[q]
      BY <1>0, <3>1, Turning DEF Status
    <3>3. /\ UNCHANGED <<proposals, kg, dry, approved>>
          /\ Approved' = Approved /\ Handed' = Handed
      BY <1>4 DEF Apply, Approved, Handed
    <3> QED
      BY <2>2, <3>2, <3>3, EmptyRecords
  <2>3. CASE ~(Mode[o] = "standalone" /\ proposals[p] = "approved")
    <3>1. Turns(o, "saving", p, proposals[p], FALSE)
      BY <1>4, <2>3 DEF Apply
    <3>2. UNCHANGED <<proposals, kg, dry, approved>>
      BY <1>4 DEF Apply
    <3>3. Approved' = Approved
      BY <3>2 DEF Approved
    <3>4. TurnsToCopy(o, p, proposals[p])
      BY <1>2, <3>1, <3>2, <3>3 DEF TurnsToCopy
    <3> HIDE DEF ProposalsInv
    <3> QED
      BY <2>1, <3>4, CopyKeepsInv
  <2> QED
    BY <2>2, <2>3
<1>5. ASSUME NEW o \in Operator, RunEvaluations(o)
      PROVE  ProposalsInv'
  <2>1. PICK accepted \in BOOLEAN, verdict \in LLMJudge \cap Verdict :
          Turns(o, "saving", op[o].proposal,
                LearningGate(Screen(ContentOf[op[o].proposal], accepted, verdict)), FALSE)
    BY <1>5 DEF RunEvaluations
  <2> DEFINE status == LearningGate(Screen(ContentOf[op[o].proposal], accepted, verdict))
  <2>2. status \in {"rejected", "conflict_review", "need_more_evidence", "pending_review"}
    BY GateIsAdvisory
  <2>3. op[o].proposal \in Proposal
    BY <1>5 DEF RunEvaluations
  <2>4. Turns(o, "saving", op[o].proposal, status, FALSE)
    BY <2>1
  <2>5. UNCHANGED <<proposals, kg, dry, approved>>
    BY <1>5 DEF RunEvaluations
  <2>6. Approved' = Approved
    BY <2>5 DEF Approved
  <2> HIDE DEF status, ProposalsInv
  <2>7. TurnsToCopy(o, op[o].proposal, status)
    BY <1>2, <2>2, <2>4, <2>5, <2>6 DEF TurnsToCopy
  <2> QED
    BY <2>2, <2>3, <2>7, CopyKeepsInv DEF Status
<1>6. ASSUME NEW o \in Operator, PlanRefused(o)
      PROVE  ProposalsInv'
  <2>1. /\ op[o].proposal \in Proposal /\ op[o].proposal \in Approved
        /\ op[o].holds = "approved"
    BY <1>6 DEF PlanRefused
  <2>2. UNCHANGED <<proposals, kg, dry, approved>> /\ Approved' = Approved
    BY <1>6 DEF PlanRefused, Approved
  <2>3. TurnsToCopy(o, op[o].proposal, "approved")
    BY <1>2, <1>6, <2>1, <2>2 DEF PlanRefused, TurnsToCopy
  <2> HIDE DEF ProposalsInv
  <2> QED
    BY <2>1, <2>3, CopyKeepsInv DEF Status
<1>7. ASSUME NEW o \in Operator, ApplyPlan(o)
      PROVE  ProposalsInv'
  <2>1. op[o].proposal \in Proposal /\ op[o].proposal \in Approved
    BY <1>7 DEF ApplyPlan
  <2>2. /\ op' \in [Operator -> Process]
        /\ op'[o].step = "saving" /\ op'[o].proposal = op[o].proposal
        /\ op'[o].holds = "applied" /\ op'[o].items = NoRecords
        /\ \A q \in Operator : q # o => op'[q] = op[q]
    <3>1. Turns(o, "saving", op[o].proposal, "applied", FALSE)
      BY <1>7 DEF ApplyPlan
    <3> HIDE DEF ProposalsInv, TypeOK
    <3> QED
      BY <1>0, <2>1, <3>1, Turning DEF Status
  <2>3. /\ kg' \in [Proposal -> SUBSET Operator] /\ dry' \in [Proposal -> SUBSET Operator]
        /\ op[o].proposal \in Handed'
        /\ Handed \subseteq Handed'
        /\ Handed' \subseteq Handed \cup {op[o].proposal}
    <3>1. \/ /\ kg' = [kg EXCEPT ![op[o].proposal] = @ \cup {o}]
             /\ dry' = dry
          \/ /\ dry' = [dry EXCEPT ![op[o].proposal] = @ \cup {o}]
             /\ kg' = kg
      BY <1>7 DEF ApplyPlan
    <3>2. /\ kg' \in [Proposal -> SUBSET Operator] /\ dry' \in [Proposal -> SUBSET Operator]
          /\ o \in kg'[op[o].proposal] \cup dry'[op[o].proposal]
          /\ \A q \in Proposal : q # op[o].proposal => kg'[q] = kg[q] /\ dry'[q] = dry[q]
      BY <2>1, <3>1
    <3> HIDE DEF ProposalsInv, TypeOK
    <3>3. op[o].proposal \in Handed'
      BY <2>1, <3>2 DEF Handed
    <3>4. ASSUME NEW q \in Handed PROVE q \in Handed'
      <4>1. q \in Proposal /\ kg[q] \cup dry[q] # {}
        BY DEF Handed
      <4>2. CASE q = op[o].proposal
        BY <3>3, <4>2
      <4>3. CASE q # op[o].proposal
        BY <3>2, <4>1, <4>3 DEF Handed
      <4> QED
        BY <4>2, <4>3
    <3>5. \A q \in Proposal : q \in Handed' => q \in Handed \/ q = op[o].proposal
      BY <3>2 DEF Handed
    <3>6. Handed' \subseteq Proposal
      BY DEF Handed
    <3> QED
      BY <3>2, <3>3, <3>4, <3>5, <3>6
  <2>4. /\ UNCHANGED <<proposals, approved>>
        /\ Approved' = Approved
    BY <1>7 DEF ApplyPlan, Approved
  <2> QED
    BY <2>1, <2>2, <2>3, <2>4, EmptyRecords
<1>8. ASSUME NEW o \in Operator, List(o)
      PROVE  ProposalsInv'
  <2>1. /\ op' \in [Operator -> Process]
        /\ op'[o].step = "listed" /\ op'[o].proposal = op[o].proposal
        /\ op'[o].holds = op[o].holds /\ op'[o].items = proposals
        /\ \A q \in Operator : q # o => op'[q] = op[q]
    <3>1. /\ op \in [Operator -> Process] /\ proposals \in Records
          /\ op' = [op EXCEPT ![o].step = "listed", ![o].items = proposals]
      BY <1>8 DEF List
    <3> HIDE DEF ProposalsInv, At
    <3>2. op[o] \in Process
      BY <3>1
    <3>3. [op[o] EXCEPT !.step = "listed", !.items = proposals] \in Process
      BY <3>1, <3>2 DEF Process
    <3> QED
      BY <3>1, <3>2, <3>3 DEF Process
  <2>2. /\ UNCHANGED <<proposals, kg, dry, approved>>
        /\ Approved' = Approved
        /\ Handed' = Handed
    BY <1>8 DEF List, Approved, Handed
  <2> QED
    BY <1>8, <2>1, <2>2 DEF List
<1>9. ASSUME NEW o \in Operator, Replace(o)
      PROVE  ProposalsInv'
  <2>1. /\ op[o].proposal \in Proposal /\ op[o].step = "listed"
        /\ op[o].items \in Records /\ op[o].holds \in Status
    BY <1>9 DEF Replace, Process
  <2>2. /\ proposals' \in Records
        /\ proposals'[op[o].proposal] = op[o].holds
        /\ \A p \in Proposal : p # op[o].proposal => proposals'[p] = op[o].items[p]
    BY <1>9, <2>1 DEF Replace, Records
  <2>3. /\ op' \in [Operator -> Process]
        /\ op'[o].items = NoRecords
        /\ \/ op'[o].step = "screening" /\ op'[o].proposal = op[o].proposal
              /\ op'[o].holds = op[o].holds
           \/ op'[o].step = "idle" /\ op'[o].holds = "absent"
        /\ \A q \in Operator : q # o => op'[q] = op[q]
    <3>1. /\ op[o].screens => Turns(o, "screening", op[o].proposal, op[o].holds, FALSE)
          /\ ~op[o].screens => Ends(o)
      BY <1>9 DEF Replace
    <3> HIDE DEF ProposalsInv, TypeOK, At
    <3>2. CASE op[o].screens
      BY <1>0, <2>1, <3>1, <3>2, Turning
    <3>3. CASE ~op[o].screens
      BY <1>0, <3>1, <3>3, Ending
    <3> QED
      BY <3>2, <3>3
  <2>4. /\ UNCHANGED <<kg, dry, approved>>
        /\ Approved' = Approved
        /\ Handed' = Handed
    BY <1>9 DEF Replace, Approved, Handed
  <2> QED
    BY <2>1, <2>2, <2>3, <2>4, EmptyRecords
<1>10. ASSUME NEW o \in Operator, Stop(o)
       PROVE  ProposalsInv'
  <2>1. /\ op' \in [Operator -> Process]
        /\ op'[o].step = "idle" /\ op'[o].holds = "absent" /\ op'[o].items = NoRecords
        /\ \A q \in Operator : q # o => op'[q] = op[q]
    BY <1>0, <1>10, Ending DEF Stop
  <2>2. /\ UNCHANGED <<proposals, dry, approved>>
        /\ Approved' = Approved
    BY <1>10 DEF Stop, Approved
  <2>3. /\ kg' \in [Proposal -> SUBSET Operator]
        /\ Handed \subseteq Handed'
        /\ Handed' \subseteq Handed \cup Approved
    <3>1. CASE kg' = kg
      BY <2>2, <3>1 DEF Handed
    <3>2. CASE At(o, "applying") /\ kg' = [kg EXCEPT ![op[o].proposal] = @ \cup {o}]
      <4>1. op[o].proposal \in Proposal /\ op[o].proposal \in Approved
        BY <3>2
      <4> QED
        BY <2>2, <3>2, <4>1 DEF Handed
    <3> QED
      BY <1>10, <3>1, <3>2 DEF Stop
  <2> QED
    BY <2>1, <2>2, <2>3, EmptyRecords
<1> QED
  BY <1>1, <1>3, <1>4, <1>5, <1>6, <1>7, <1>8, <1>9, <1>10 DEF Next

\* The invariant of the repository, of the copies at work and of LLM-KG.
THEOREM ProposalsKept == Spec => []ProposalsInv
BY ProposalsInit, ProposalsStep, PTL DEF Spec

\* LLM-KG takes nothing that was not approved, whatever screening says and
\* however processes overwrite each other's records.
THEOREM ApprovedOnly == Spec => []KnowledgeIsApproved
<1>1. ProposalsInv => KnowledgeIsApproved
  BY DEF ProposalsInv
<1> QED
  BY <1>1, ProposalsKept, PTL

\* What is on record as applied was handed over before.
THEOREM HandedOver == Spec => []AppliedWasHandedOver
<1>1. ProposalsInv => AppliedWasHandedOver
  BY DEF ProposalsInv
<1> QED
  BY <1>1, ProposalsKept, PTL

-----------------------------------------------------------------------------
(* What the proposals implement                                            *)

LEMMA GateStep == ProposalsInv /\ ProposalsInv' /\ [Next]_vars => [Gate!Next]_(Gate!gateVars)
<1> SUFFICES ASSUME ProposalsInv, ProposalsInv', [Next]_vars PROVE [Gate!Next]_(Gate!gateVars)
  OBVIOUS
<1> DEFINE handed  == [p \in Proposal |-> kg[p] \cup dry[p]]
           Decider == {Earlier} \cup {o \in Operator : Mode[o] = "standalone"}
<1>1. CASE UNCHANGED vars
  BY <1>1 DEF vars, Gate!gateVars
\* A step that works on a copy, of a process or of a proposal.
<1>2. ASSUME UNCHANGED <<proposals, kg, dry, approved>>
      PROVE  [Gate!Next]_(Gate!gateVars)
  BY <1>2 DEF Gate!gateVars
<1>3. ASSUME NEW o \in Operator, NEW p \in Proposal, Approve(o, p)
      PROVE  [Gate!Next]_(Gate!gateVars)
  <2>1. o \in Decider
    BY <1>3 DEF Approve
  <2>2. Gate!Approve(o, p)
    BY <1>3, <2>1 DEF Approve, Gate!Approve
  <2> QED
    BY <2>1, <2>2 DEF Gate!Next
<1>4. ASSUME NEW o \in Operator, ApplyPlan(o) \/ Stop(o)
      PROVE  [Gate!Next]_(Gate!gateVars)
  <2>1. UNCHANGED <<proposals, approved>>
    BY <1>4 DEF ApplyPlan, Stop
  <2>2. CASE UNCHANGED <<kg, dry>>
    BY <2>1, <2>2, <1>2
  <2>3. CASE ~UNCHANGED <<kg, dry>>
    <3>1. /\ At(o, "applying")
          /\ \/ /\ kg' = [kg EXCEPT ![op[o].proposal] = @ \cup {o}]
                /\ dry' = dry
             \/ /\ dry' = [dry EXCEPT ![op[o].proposal] = @ \cup {o}]
                /\ kg' = kg
      BY <1>4, <2>3 DEF ApplyPlan, Stop
    <3>2. /\ op[o].proposal \in Proposal /\ Mode[o] = "standalone"
          /\ approved[op[o].proposal] # {}
      BY <3>1 DEF ProposalsInv, At, Approved
    <3>0. PICK p \in Proposal : p = op[o].proposal
      BY <3>2
    <3>3. kg \in [Proposal -> SUBSET Operator] /\ dry \in [Proposal -> SUBSET Operator]
      BY DEF ProposalsInv, TypeOK
    <3>4. handed' = [handed EXCEPT ![op[o].proposal] = @ \cup {o}]
      BY <3>1, <3>2, <3>3
    <3>5. o \in Decider
      BY <3>2
    <3>6. Gate!HandOver(o, p)
      BY <2>1, <3>0, <3>2, <3>4, <3>5 DEF Gate!HandOver
    <3> QED
      BY <3>5, <3>6 DEF Gate!Next
  <2> QED
    BY <2>2, <2>3
<1>5. ASSUME NEW o \in Operator, Replace(o)
      PROVE  [Gate!Next]_(Gate!gateVars)
  <2>1. UNCHANGED <<kg, dry, approved>>
    BY <1>5 DEF Replace
  <2>2. /\ proposals' \in Records
        /\ \A p \in Proposal : proposals'[p] = "approved" => approved'[p] # {}
        /\ \A p \in Proposal : proposals'[p] = "applied" => kg'[p] \cup dry'[p] # {}
    BY DEF ProposalsInv, TypeOK, AppliedWasHandedOver, Approved, Handed
  <2>3. Gate!Record
    BY <2>1, <2>2 DEF Gate!Record, Records
  <2> QED
    BY <2>3 DEF Gate!Next
<1>6. ASSUME NEW o \in Operator, NEW p \in Proposal,
             Create(o, p) \/ Evaluate(o, p) \/ Decline(o, p) \/ Apply(o, p)
      PROVE  [Gate!Next]_(Gate!gateVars)
  BY <1>2, <1>6 DEF Create, Evaluate, Decline, Apply
<1>7. ASSUME NEW o \in Operator, RunEvaluations(o) \/ PlanRefused(o) \/ List(o)
      PROVE  [Gate!Next]_(Gate!gateVars)
  BY <1>2, <1>7 DEF RunEvaluations, PlanRefused, List
<1> QED
  BY <1>1, <1>3, <1>4, <1>5, <1>6, <1>7 DEF Next

\* Any number of processes with their copies, evaluations, decisions, refused
\* plans and stops implement the gate that decides and hands over in one step
\* each, by a process that is not in adapter mode.
\* (services.approve_proposal, SafeApplyService.apply:13-28.)
THEOREM ProposalsImplementGate == Spec => ImplementsApprovalGate
<1>1. Init => Gate!Init
  <2> SUFFICES ASSUME Init PROVE Gate!Init
    OBVIOUS
  <2>1. \A p \in Proposal : kg[p] \cup dry[p] = {}
    BY DEF Init
  <2>2. \A p \in Proposal : proposals[p] = "approved" <=> approved[p] # {}
    BY DEF Init
  <2> QED
    BY <2>1, <2>2 DEF Init, Gate!Init
<1> QED
  BY <1>1, GateStep, ProposalsKept, PTL DEF Spec, ImplementsApprovalGate, Gate!Spec
=============================================================================
