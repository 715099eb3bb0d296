--------------------------- MODULE OperationReceipts ---------------------------
(***************************************************************************)
(* The receipts of streamed operations (runtime_protocol.py,               *)
(* OperationReceiptStore) and the command line that uses them              *)
(* (cli.py, _run_streamed).  One idempotency key; every runner is one      *)
(* invocation of the command line with that key, its retries are other     *)
(* runners.                                                                *)
(*                                                                         *)
(* The lock is an flock: closing the handle or the end of the process      *)
(* frees it.  begin runs under the lock and its decision depends on one    *)
(* read of the receipt, so it is one action.  What an operation leaves in  *)
(* the workspace (cycles, proposals, artifacts) is named by its runner.    *)
(***************************************************************************)
EXTENDS Naturals, FiniteSets

CONSTANTS
  Runner,      \* the invocations
  Input,       \* input hashes
  InputOf,     \* the input hash of each invocation
  Nobody       \* no runner

ASSUME RunnerAssumption == InputOf \in [Runner -> Input] /\ Nobody \notin Runner

VARIABLES
  receipt,     \* the receipt file: its status and input ("none": no file)
  lock,        \* the holder of the lock file
  pc,          \* what each runner is doing
  made         \* the runners that left products in the workspace

vars == <<receipt, lock, pc, made>>

Status == {"none", "running", "succeeded", "insufficient", "failed", "interrupted"}
Done   == {"succeeded", "insufficient"}
Broken == {"failed", "interrupted"}

TypeOK ==
  /\ receipt \in [status: Status, input: Input]
  /\ lock \in Runner \cup {Nobody}
  /\ pc \in [Runner -> {"ready", "working", "worked", "reporting", "failing", "ended"}]
  /\ made \subseteq Runner

Init ==
  /\ receipt \in [status: {"none"}, input: Input]
  /\ lock = Nobody
  /\ pc = [r \in Runner |-> "ready"]
  /\ made = {}

Executing == {r \in Runner : pc[r] \in {"working", "worked"}}
AtWork    == {r \in Runner : pc[r] \notin {"ready", "ended"}}

Becomes(r, state) == pc' = [pc EXCEPT ![r] = state]
Released(r)       == IF lock = r THEN Nobody ELSE lock
Writes(r, status) == receipt' = [status |-> status, input |-> InputOf[r]]

-----------------------------------------------------------------------------
(* begin                                                                   *)

\* The lock is taken: "operation with this idempotency key is already running".
Refused(r) ==
  /\ pc[r] = "ready"
  /\ lock # Nobody
  /\ Becomes(r, "ended")
  /\ UNCHANGED <<receipt, lock, made>>

BeginFresh(r) ==
  /\ pc[r] = "ready"
  /\ lock = Nobody
  /\ receipt.status = "none"
  /\ Writes(r, "running")
  /\ lock' = r
  /\ Becomes(r, "working")
  /\ UNCHANGED made

\* The key was used with another input.
Conflict(r) ==
  /\ pc[r] = "ready"
  /\ lock = Nobody
  /\ receipt.status # "none"
  /\ receipt.input # InputOf[r]
  /\ Becomes(r, "ended")
  /\ UNCHANGED <<receipt, lock, made>>

\* Fault: begin does not compare the input hash.
KnownWithAnyInput(r) ==
  /\ pc[r] = "ready"
  /\ lock = Nobody

Known(r) ==
  /\ pc[r] = "ready"
  /\ lock = Nobody
  /\ receipt.input = InputOf[r]

\* Fault: begin releases the lock whenever there is a receipt.
ResumeUnlocked(r) ==
  /\ Known(r)
  /\ receipt.status = "running"
  /\ Becomes(r, "working")
  /\ UNCHANGED <<receipt, lock, made>>

\* The runner that wrote the receipt is gone: its work is done again.
Resume(r) ==
  /\ Known(r)
  /\ receipt.status = "running"
  /\ lock' = r
  /\ Becomes(r, "working")
  /\ UNCHANGED <<receipt, made>>

\* The recorded output is reported once more, the lock was released.
Replay(r) ==
  /\ Known(r)
  /\ receipt.status \in Done
  /\ Becomes(r, "ended")
  /\ UNCHANGED <<receipt, lock, made>>

\* Fault: only the status "running" is looked at.
RetryAnything(r) ==
  /\ Known(r)
  /\ receipt.status \notin {"none", "running"}
  /\ Becomes(r, "working")
  /\ UNCHANGED <<receipt, lock, made>>

\* A broken operation is done again, but begin has released the lock.
Retry(r) ==
  /\ Known(r)
  /\ receipt.status \in Broken
  /\ Becomes(r, "working")
  /\ UNCHANGED <<receipt, lock, made>>

-----------------------------------------------------------------------------
(* The operation, complete and interrupt.                                  *)

Work(r) ==
  /\ pc[r] = "working"
  /\ made' = made \cup {r}
  /\ Becomes(r, "worked")
  /\ UNCHANGED <<receipt, lock>>

\* The operation raises, or is interrupted, with or without products.
WorkFails(r) ==
  /\ pc[r] = "working"
  /\ made' \in {made, made \cup {r}}
  /\ Becomes(r, "failing")
  /\ UNCHANGED <<receipt, lock>>

Complete(r) ==
  /\ pc[r] = "worked"
  /\ \E status \in Done : Writes(r, status)
  /\ lock' = Released(r)
  /\ Becomes(r, "reporting")
  /\ UNCHANGED made

\* The receipt cannot be written; the lock is released all the same.
CompleteFails(r) ==
  /\ pc[r] = "worked"
  /\ lock' = Released(r)
  /\ Becomes(r, "failing")
  /\ UNCHANGED <<receipt, made>>

Report(r) ==
  /\ pc[r] = "reporting"
  /\ Becomes(r, "ended")
  /\ UNCHANGED <<receipt, lock, made>>

\* Emitting the last events raises, inside the same try.
ReportFails(r) ==
  /\ pc[r] = "reporting"
  /\ Becomes(r, "failing")
  /\ UNCHANGED <<receipt, lock, made>>

\* The except clauses complete the receipt once more.
RecordFailure(r) ==
  /\ pc[r] = "failing"
  /\ \E status \in Broken : Writes(r, status)
  /\ lock' = Released(r)
  /\ Becomes(r, "ended")
  /\ UNCHANGED made

\* The process stops, or an exception leaves it outside the try; its work, with
\* or without products.
Stops(r) ==
  /\ pc[r] \in {"working", "worked", "reporting", "failing"}
  /\ made' \in {made} \cup {made \cup {s} : s \in {r} \cap Executing}
  /\ lock' = Released(r)
  /\ Becomes(r, "ended")
  /\ UNCHANGED receipt

Next ==
  \E r \in Runner :
    \/ Refused(r) \/ BeginFresh(r) \/ Conflict(r)
    \/ Resume(r) \/ Replay(r) \/ Retry(r)
    \/ Work(r) \/ WorkFails(r) \/ Complete(r) \/ CompleteFails(r)
    \/ Report(r) \/ ReportFails(r) \/ RecordFailure(r) \/ Stops(r)

Spec == Init /\ [][Next]_vars

-----------------------------------------------------------------------------

\* Until the first failure is recorded, at most one runner executes the
\* operation, however many are started and wherever they stop.
\* (OperationReceiptStore.begin:139-160, _acquire:178-185.)
FirstAttemptIsExclusive ==
  receipt.status = "running" => \A r, s \in Executing : r = s

\* The first input a key is used with is the only one ever executed under
\* it, whatever runners stop, fail or retry. (begin:143-145.)
OneInputPerKey == \A r, s \in made : InputOf[r] = InputOf[s]

\* While a result is on record nobody starts to execute: a second invocation
\* replays it. (begin:146-148, cli._run_streamed:371-373.)
ResultsAreReplayed ==
  [][receipt.status \in Done => Executing' \subseteq Executing]_vars

\* Whoever holds the lock is still at work: a runner that ended, wherever, does
\* not refuse its retries for ever. (_acquire:178-185, complete:162-170, begin:144-160.)
LockIsHeld == lock # Nobody => lock \in AtWork

\* The inductive invariant: nobody is at work before there is a receipt, as
\* long as it says "running" whoever executes holds the lock, who reports does
\* not, and whoever is at work or left products carries the input on record.
ReceiptInv ==
  /\ TypeOK
  /\ LockIsHeld
  /\ \A r \in Runner : pc[r] \in {"ready", "reporting", "ended"} => lock # r
  /\ receipt.status = "none" => AtWork = {} /\ made = {} /\ lock = Nobody
  /\ receipt.status = "running" => \A r \in Executing : lock = r
  /\ \A r \in AtWork \cup made : InputOf[r] = receipt.input

\* "Receipts under .llm_kee/operations/ ensure retries do not duplicate
\* cycles, proposals or artifacts." (README.md:237.)
RetriesDoNotDuplicate == \A r, s \in made : r = s
=============================================================================
