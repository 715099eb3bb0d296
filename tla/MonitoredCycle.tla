----------------------------- MODULE MonitoredCycle -----------------------------
(***************************************************************************)
(* "mape run --from-path" and "loops run knowledge --from-path" with an    *)
(* event stream (cli.py, _run_streamed, _execute_runtime_command): the     *)
(* operation of OperationReceipts is a scan and a cycle over its signals.  *)
(*                                                                         *)
(* Nobody takes up the task of a runner that fails or stops: a retry scans *)
(* anew.                                                                   *)
(***************************************************************************)
EXTENDS MapeCycle, OperationReceipts

CONSTANT MaxFaults   \* failures of the work, in all

ASSUME MonitoredAssumption == Process = Runner /\ MaxFaults \in Nat

VARIABLE faults      \* so far

workVars    == <<workspaceVars, files, edits, taken, faults>>
receiptVars == <<receipt, lock, pc, made>>

MonitoredInit ==
  /\ Init
  /\ ScanInit
  /\ store = Empty
  /\ task = [r \in Runner |-> NewTask(r)]
  /\ listed = [r \in Runner |-> {}] /\ overtaken = {}
  /\ faults = 0

\* One step of the scan or of the cycle, short of the last one.
Proceeds(r) ==
  /\ pc[r] = "working"
  /\ \/ (Collect(r) \/ Diff(r) \/ AddSignal(r) \/ AddEvent(r))
     \/ AddSnapshot(r, Scanned(task[r]))
     \/ /\ \/ List(r)
           \/ Mark(r) \/ RunWorkflow(r)
           \/ FailAction(r) \/ CompleteAction(r) \/ AddArtifact(r) \/ CloseRun(r)
           \/ Validate(r) \/ Propose(r) \/ Decide(r) \/ Settle(r)
           \/ r \in Looping /\ AddCycle(r)
        /\ UNCHANGED scanVars
  /\ UNCHANGED <<receiptVars, faults>>

Stumbles(r) ==
  /\ pc[r] = "working" /\ faults < MaxFaults
  /\ StepFails(r)
  /\ faults' = faults + 1
  /\ UNCHANGED <<receiptVars, scanVars>>

\* The last one.
Concludes(r) ==
  /\ Work(r)
  /\ IF r \in Looping THEN AddLoop(r) ELSE AddCycle(r)
  /\ UNCHANGED <<scanVars, faults>>

\* Fault: the execution of the cycle is not looked at.
CycleStatus(r) == "succeeded"

\* What the command line makes of a cycle.
CommandStatus(r) ==
  IF r \in Looping \/ task[r].done.status = "completed" THEN "succeeded" ELSE "insufficient"

\* The task is over.
Leaves(r) ==
  /\ Turns(r, NewTask(r))
  /\ UNCHANGED scanVars

Completes(r) ==
  /\ Complete(r)
  /\ receipt'.status = CommandStatus(r)
  /\ Leaves(r)
  /\ UNCHANGED faults

\* The runner left cycles, artifacts or proposals.
LeftProducts(r) ==
  \/ \E cycle \in store["cycles"] : cycle.name = r
  \/ \E product \in store["artifacts"] \cup store["proposals"] : product.name[1] = r

Abandons(r) ==
  /\ faults < MaxFaults
  /\ faults' = faults + 1
  /\ WorkFails(r) \/ CompleteFails(r) \/ Stops(r)
  /\ r \in made' <=> r \in made \/ (pc[r] = "working" /\ LeftProducts(r))
  /\ Leaves(r)

\* The rest is about the receipt alone.
Handles(r) ==
  /\ \/ Refused(r) \/ BeginFresh(r) \/ Conflict(r)
     \/ Resume(r) \/ Replay(r) \/ Retry(r)
     \/ Report(r) \/ ReportFails(r) \/ RecordFailure(r)
  /\ UNCHANGED workVars

MonitoredNext ==
  \/ Edit /\ UNCHANGED <<receiptVars, faults>>
  \/ \E r \in Runner : Proceeds(r) \/ Stumbles(r) \/ Concludes(r) \/ Completes(r) \/ Abandons(r) \/ Handles(r)

MonitoredSpec == MonitoredInit /\ [][MonitoredNext]_<<receiptVars, workVars>>

-----------------------------------------------------------------------------

\* A receipt that says "succeeded" stands for a cycle whose execution had no
\* error, one that says "insufficient" for one that had, unless the command was
\* a loop, which succeeds with any cycle; so it is as long as no upsert of
\* cycles undid another one. (_execute_runtime_command:405-423, upsert:29-40.)
ReceiptsAreBacked ==
  Kept({"cycles"}) /\ receipt.status \in Done =>
    \E c \in store["cycles"] :
      /\ InputOf[c.name] = receipt.input
      /\ \/ receipt.status = "succeeded" /\ c.execution.status = "completed"
         \/ receipt.status = "insufficient" /\ c.execution.status = "completed_with_errors"
         \/ c.name \in Looping

\* The repositories have no lock of their own, but up to the first failure or
\* result on record the lock of the receipt keeps upserts apart, wherever
\* runners stop and others take over: none undoes another one.
\* (JsonRepository.upsert:29-40, OperationReceiptStore.begin:139-160.)
FirstAttemptKeepsAll == receipt.status \in {"none", "running"} => overtaken = {}

\* Nothing is listed but for the upsert at hand of a runner at work, and up to
\* the first failure or result on record it is what the repository holds.
ListsAreSound ==
  \A r \in Runner : \A items \in listed[r] :
    /\ pc[r] = "working" /\ task[r].step \in DOMAIN RepositoryOf
    /\ receipt.status \in {"none", "running"} => items = store[RepositoryOf[task[r].step]]

\* A runner keeps the promises of its task until it has worked; then it has left
\* its cycle.
RunnersAreSound ==
  \A r \in Runner :
    /\ pc[r] \in {"ready", "working"} => TaskIsSound(r)
    /\ Kept({"cycles"}) /\ pc[r] = "worked" =>
         \E c \in store["cycles"] :
           c.name = r /\ (r \in Looping \/ c.execution.status = task[r].done.status)

\* The inductive invariant.
MonitoredInv ==
  /\ WorkTypeOK
  /\ ReceiptInv
  /\ FirstAttemptKeepsAll
  /\ ListsAreSound
  /\ RunnersAreSound
  /\ SnapshotsAreSound /\ CyclesAreSound /\ NamesAreUnique
  /\ ReceiptsAreBacked

-----------------------------------------------------------------------------
(* What the command implements                                             *)

Lost ==
  {part \in {"reports", "snapshots", "cycles"} :
     ~Kept(IF part = "reports" THEN ScanParts ELSE {part})}

Trail == INSTANCE AuditTrail WITH
  reported  <- {change \in Path \X Content : IsReported(change[1], change[2])},
  snapshots <- store["snapshots"],
  cycles    <- store["cycles"],
  lost      <- Lost

\* Whatever retries, stops and edits come together, what they leave is an audit
\* trail: reports are not taken back, a snapshot appears once, with what it
\* holds reported before, a cycle appears once, nobody changes either, and a
\* result on the receipt is that of a cycle already on record.  Upserts that
\* undo another one make exceptions to this, of their own repository only, and
\* not before a failure or a result is on record. (scan:16-32,
\* run_mape_cycle:17-82, _execute_runtime_command:405-423, upsert:29-40.)
ImplementsAuditTrail == Trail!Spec
=============================================================================
