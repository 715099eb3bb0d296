--------------------------- MODULE ProposalLifecycle ---------------------------
(***************************************************************************)
(* Update proposals (services.py, apply/, mape/executor.py, the commands   *)
(* evaluate and apply of cli.py): they are made, screened, decided on and  *)
(* applied to LLM-KG by processes that share one JSON repository.          *)
(*                                                                         *)
(* A command reads a proposal, works on its copy, and writes the copy back *)
(* with an upsert, which reads all records and later replaces them all.    *)
(***************************************************************************)
EXTENDS ProposalScreening, FiniteSets

CONSTANTS
  Operator,    \* the processes on the workspace
  Proposal,    \* proposal ids
  ContentOf,   \* what the evaluators read of each
  Mode,        \* the runtime mode of each process
  Verdict,     \* the verdicts judges come to
  Direct,      \* the processes with the direct LLM-KG adapter
  Earlier,     \* the process that approved what the workspace comes with
  Nothing      \* no proposal

ASSUME ProposalAssumption ==
  /\ ContentOf \in [Proposal -> Content]
  /\ Mode \in [Operator -> {"standalone", "nox_adapter"}]
  /\ Direct \subseteq Operator
  /\ Earlier \in Operator => Mode[Earlier] = "standalone"
  /\ Nothing \notin Proposal

VARIABLES
  proposals,   \* the repository: the status of each proposal
  kg,          \* the processes that changed LLM-KG by each proposal
  dry,         \* those that applied it without an adapter
  op,          \* what each process is doing
  approved     \* history: those that approved it

vars == <<proposals, kg, dry, op, approved>>

Status == {"absent", "draft", "pending_review", "need_more_evidence", "conflict_review",
           "approved", "rejected", "applied"}
Records == [Proposal -> Status]

\* holds: the status of the copy at hand.  items: the records the upsert read.
\* screens: the command goes on to screen the proposal, as MAPE does.
Process == [step : {"idle", "screening", "applying", "saving", "listed"},
            proposal : Proposal \cup {Nothing}, holds : Status, screens : BOOLEAN,
            items : Records]

TypeOK ==
  /\ proposals \in Records
  /\ kg \in [Proposal -> SUBSET Operator] /\ dry \in [Proposal -> SUBSET Operator]
  /\ approved \in [Proposal -> SUBSET (Operator \cup {Earlier})]
  /\ op \in [Operator -> Process]

NoRecords == [p \in Proposal |-> "absent"]
Idle      == [step |-> "idle", proposal |-> Nothing, holds |-> "absent",
              screens |-> FALSE, items |-> NoRecords]

\* A workspace may come with proposals that an earlier version approved.
Init ==
  /\ proposals \in [Proposal -> {"absent", "approved"}]
  /\ approved = [p \in Proposal |-> IF proposals[p] = "approved" THEN {Earlier} ELSE {}]
  /\ kg = [p \in Proposal |-> {}] /\ dry = [p \in Proposal |-> {}]
  /\ op = [o \in Operator |-> Idle]

At(o, step) == op[o].step = step
Turns(o, step, p, status, screens) ==
  op' = [op EXCEPT ![o] = [step |-> step, proposal |-> p, holds |-> status,
                           screens |-> screens, items |-> NoRecords]]
Ends(o)     == op' = [op EXCEPT ![o] = Idle]

\* The proposals that someone approved, and that someone handed over.
Approved == {p \in Proposal : approved[p] # {}}
Handed   == {p \in Proposal : kg[p] \cup dry[p] # {}}

-----------------------------------------------------------------------------
(* Commands                                                                *)

\* accept_feedback makes a draft, MAPE screens what it makes at once.
Create(o, p) ==
  /\ At(o, "idle")
  /\ proposals[p] = "absent"
  /\ \A other \in Operator : op[other].proposal # p
  /\ \E screens \in BOOLEAN : Turns(o, "saving", p, "draft", screens)
  /\ UNCHANGED <<proposals, kg, dry, approved>>

\* evaluate: the proposal is read, the evaluators take their time.
Evaluate(o, p) ==
  /\ At(o, "idle")
  /\ proposals[p] # "absent"
  /\ Turns(o, "screening", p, proposals[p], FALSE)
  /\ UNCHANGED <<proposals, kg, dry, approved>>

\* run_evaluations: whatever the status was, the gate's takes its place.
RunEvaluations(o) ==
  /\ At(o, "screening")
  /\ \E accepted \in BOOLEAN, verdict \in LLMJudge \cap Verdict :
       Turns(o, "saving", op[o].proposal,
             LearningGate(Screen(ContentOf[op[o].proposal], accepted, verdict)), FALSE)
  /\ UNCHANGED <<proposals, kg, dry, approved>>

\* Fault: a process in adapter mode approves too.
ApproveInAnyMode(o, p) ==
  /\ At(o, "idle")
  /\ proposals[p] # "absent"
  /\ Turns(o, "saving", p, "approved", FALSE)
  /\ approved' = [approved EXCEPT ![p] = @ \cup {o}]
  /\ UNCHANGED <<proposals, kg, dry>>

\* approve_proposal, not in adapter mode; the status is not looked at.
Approve(o, p) ==
  /\ At(o, "idle")
  /\ proposals[p] # "absent"
  /\ Mode[o] = "standalone"
  /\ Turns(o, "saving", p, "approved", FALSE)
  /\ approved' = [approved EXCEPT ![p] = @ \cup {o}]
  /\ UNCHANGED <<proposals, kg, dry>>

\* reject_proposal and request_evidence.
Decline(o, p) ==
  /\ At(o, "idle")
  /\ proposals[p] # "absent"
  /\ \E status \in {"rejected", "need_more_evidence"} : Turns(o, "saving", p, status, FALSE)
  /\ UNCHANGED <<proposals, kg, dry, approved>>

\* Fault: any proposal that was not rejected is applied.
ApplyUnlessRejected(o, p) ==
  /\ At(o, "idle")
  /\ proposals[p] # "absent"
  /\ Turns(o, IF Mode[o] = "standalone" /\ proposals[p] # "rejected" THEN "applying" ELSE "saving",
           p, proposals[p], FALSE)
  /\ UNCHANGED <<proposals, kg, dry, approved>>

\* SafeApplyService.apply, with the copy that was read.  What it refuses is
\* written back all the same.
Apply(o, p) ==
  /\ At(o, "idle")
  /\ proposals[p] # "absent"
  /\ Turns(o, IF Mode[o] = "standalone" /\ proposals[p] = "approved" THEN "applying" ELSE "saving",
           p, proposals[p], FALSE)
  /\ UNCHANGED <<proposals, kg, dry, approved>>

\* apply_update_plan: LLM-KG takes the plan, or without an adapter it is a dry
\* run, which counts as applied.
ApplyPlan(o) ==
  /\ At(o, "applying")
  /\ IF o \in Direct
     THEN kg' = [kg EXCEPT ![op[o].proposal] = @ \cup {o}] /\ UNCHANGED dry
     ELSE dry' = [dry EXCEPT ![op[o].proposal] = @ \cup {o}] /\ UNCHANGED kg
  /\ Turns(o, "saving", op[o].proposal, "applied", FALSE)
  /\ UNCHANGED <<proposals, approved>>

\* LLM-KG refuses the plan.
PlanRefused(o) ==
  /\ At(o, "applying")
  /\ o \in Direct
  /\ Turns(o, "saving", op[o].proposal, op[o].holds, FALSE)
  /\ UNCHANGED <<proposals, kg, dry, approved>>

-----------------------------------------------------------------------------
(* The upsert                                                              *)

List(o) ==
  /\ At(o, "saving")
  /\ op' = [op EXCEPT ![o].step = "listed", ![o].items = proposals]
  /\ UNCHANGED <<proposals, kg, dry, approved>>

Replace(o) ==
  /\ At(o, "listed")
  /\ proposals' = [op[o].items EXCEPT ![op[o].proposal] = op[o].holds]
  /\ IF op[o].screens
     THEN Turns(o, "screening", op[o].proposal, op[o].holds, FALSE)
     ELSE Ends(o)
  /\ UNCHANGED <<kg, dry, approved>>

\* The process stops or its command raises, LLM-KG changed or not.
Stop(o) ==
  /\ ~At(o, "idle")
  /\ \/ kg' = kg
     \/ At(o, "applying") /\ o \in Direct /\ kg' = [kg EXCEPT ![op[o].proposal] = @ \cup {o}]
  /\ Ends(o)
  /\ UNCHANGED <<proposals, dry, approved>>

Next ==
  \E o \in Operator :
    \/ \E p \in Proposal :
         Create(o, p) \/ Evaluate(o, p) \/ Approve(o, p) \/ Decline(o, p) \/ Apply(o, p)
    \/ RunEvaluations(o) \/ ApplyPlan(o) \/ PlanRefused(o)
    \/ List(o) \/ Replace(o) \/ Stop(o)

Spec == Init /\ [][Next]_vars

-----------------------------------------------------------------------------

\* However evaluations, decisions and applications of several processes
\* overwrite each other, LLM-KG only takes proposals that someone approved:
\* screening never does. (LearningGate.decide, SafeApplyService.apply:18-23.)
KnowledgeIsApproved == Handed \subseteq Approved

\* A proposal on record as applied was handed to LLM-KG, or to the dry run.
\* (SafeApplyService.apply:24-28, cli.main:351-357.)
AppliedWasHandedOver ==
  \A p \in Proposal : proposals[p] = "applied" => p \in Handed

\* "llm-kee apply mutates LLM-KG only when the proposal is approved [...].
\* Other proposal states are rejected before apply." (README.md:224.)
OnlyApprovedIsApplied ==
  [][\A p \in Proposal : kg'[p] # kg[p] => proposals[p] = "approved"]_vars

\* The inductive invariant: every copy and every list that says approved or
\* applied is of a proposal that was.
ProposalsInv ==
  /\ TypeOK
  /\ \A p \in Proposal : proposals[p] \in {"approved", "applied"} => p \in Approved
  /\ \A o \in Operator :
       /\ ~At(o, "idle") => op[o].proposal \in Proposal
       /\ At(o, "applying") => op[o].holds = "approved" /\ Mode[o] = "standalone"
       /\ op[o].holds \in {"approved", "applied"} => op[o].proposal \in Approved
       /\ op[o].holds = "applied" => op[o].proposal \in Handed
       /\ \A p \in Proposal : op[o].items[p] \in {"approved", "applied"} => p \in Approved
       /\ \A p \in Proposal : op[o].items[p] = "applied" => p \in Handed
  /\ KnowledgeIsApproved
  /\ AppliedWasHandedOver

-----------------------------------------------------------------------------
(* What the proposals implement                                            *)

Gate == INSTANCE ApprovalGate WITH
  handed <- [p \in Proposal |-> kg[p] \cup dry[p]], recorded <- proposals,
  Decider <- {Earlier} \cup {o \in Operator : Mode[o] = "standalone"}

\* However the copies and the lists of several processes overwrite each other,
\* a plan is handed over one step after the approval at the earliest, each by a
\* process that is not in adapter mode, neither is ever taken back, and no
\* record claims one that did not happen. (services.approve_proposal,
\* SafeApplyService.apply:13-28.)
ImplementsApprovalGate == Gate!Spec
=============================================================================
