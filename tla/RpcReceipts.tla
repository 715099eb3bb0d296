------------------------------ MODULE RpcReceipts ------------------------------
(***************************************************************************)
(* The RPC of the engine (rpc.py): invoke under a claimed receipt.         *)
(*                                                                         *)
(* One idempotency key.  Every request is one POST that carries the key;   *)
(* a retry is another request.  One server handles its requests one after  *)
(* the other, so requests that overlap are those of several servers on one *)
(* workspace, the worst case taken here.  The lock is an flock held from   *)
(* the claim until the claim is left, whichever way.                       *)
(***************************************************************************)
EXTENDS Naturals, FiniteSets

CONSTANTS
  Request,     \* the requests with the key
  Input,       \* input hashes
  InputOf,     \* the input hash of each request
  Nobody       \* no request

ASSUME RequestAssumption == InputOf \in [Request -> Input] /\ Nobody \notin Request

VARIABLES
  receipt,     \* the recorded responses: none, or the one of the key
  lock,        \* the request that holds the lock file
  pc,          \* what becomes of each request
  made,        \* the requests that left a draft or a generation run behind
  answer       \* the request whose output the caller was answered with

vars == <<receipt, lock, pc, made, answer>>

\* A recorded response: the input hash it is bound to, and its output, named
\* by the request whose draft or artifact it is.
Response == [input : Input, output : Request]

\* "sent": not read yet.  "problem": answered with an error, or never.
TypeOK ==
  /\ receipt \subseteq Response
  /\ lock \in Request \cup {Nobody}
  /\ pc \in [Request -> {"sent", "working", "worked", "committed", "answered", "problem"}]
  /\ made \subseteq Request
  /\ answer \in [Request -> Request \cup {Nobody}]

Init ==
  /\ receipt = {}
  /\ lock = Nobody
  /\ pc = [r \in Request |-> "sent"]
  /\ made = {}
  /\ answer = [r \in Request |-> Nobody]

Becomes(r, state) == pc' = [pc EXCEPT ![r] = state]
Claimable(r)      == pc[r] = "sent" /\ lock = Nobody
Holding(r)        == pc[r] \in {"working", "worked", "committed"}

-----------------------------------------------------------------------------

\* The request is malformed, late, asks for what KEE does not do, or is lost.
Refuse(r) ==
  /\ pc[r] = "sent"
  /\ Becomes(r, "problem")
  /\ UNCHANGED <<receipt, lock, made, answer>>

\* "operation_in_progress".
Busy(r) ==
  /\ pc[r] = "sent"
  /\ lock # Nobody
  /\ Becomes(r, "problem")
  /\ UNCHANGED <<receipt, lock, made, answer>>

\* "idempotency_conflict": the key is bound to another input.
Conflict(r) ==
  /\ Claimable(r)
  /\ \E response \in receipt : response.input # InputOf[r]
  /\ Becomes(r, "problem")
  /\ UNCHANGED <<receipt, lock, made, answer>>

\* The recorded output, in a response to this command.
Replay(r) ==
  /\ Claimable(r)
  /\ \E response \in receipt :
       /\ response.input = InputOf[r]
       /\ answer' = [answer EXCEPT ![r] = response.output]
  /\ Becomes(r, "answered")
  /\ UNCHANGED <<receipt, lock, made>>

\* Fault: a receipt with another input is taken for none.
ClaimUnlessReplayed(r) ==
  /\ Claimable(r)
  /\ \A response \in receipt : response.input # InputOf[r]
  /\ lock' = r
  /\ Becomes(r, "working")
  /\ UNCHANGED <<receipt, made, answer>>

\* Fault: the lock is not taken.
ClaimUnlocked(r) ==
  /\ Claimable(r)
  /\ receipt = {}
  /\ Becomes(r, "working")
  /\ UNCHANGED <<receipt, lock, made, answer>>

Claim(r) ==
  /\ Claimable(r)
  /\ receipt = {}
  /\ lock' = r
  /\ Becomes(r, "working")
  /\ UNCHANGED <<receipt, made, answer>>

Work(r) ==
  /\ pc[r] = "working"
  /\ made' = made \cup {r}
  /\ Becomes(r, "worked")
  /\ UNCHANGED <<receipt, lock, answer>>

\* The generation or the draft fails, with or without a trace in the store.
WorkFails(r) ==
  /\ pc[r] = "working"
  /\ made' \in {made, made \cup {r}}
  /\ lock' = Nobody
  /\ Becomes(r, "problem")
  /\ UNCHANGED <<receipt, answer>>

\* The record replaces the file at once.
Commit(r) ==
  /\ pc[r] = "worked"
  /\ receipt' = {[input |-> InputOf[r], output |-> r]}
  /\ Becomes(r, "committed")
  /\ UNCHANGED <<lock, made, answer>>

\* Fault: the caller is answered whether or not the response was recorded.
RespondEarly(r) ==
  /\ pc[r] \in {"worked", "committed"}
  /\ answer' = [answer EXCEPT ![r] = r]
  /\ lock' = Nobody
  /\ Becomes(r, "answered")
  /\ UNCHANGED <<receipt, made>>

Respond(r) ==
  /\ pc[r] = "committed"
  /\ answer' = [answer EXCEPT ![r] = r]
  /\ lock' = Nobody
  /\ Becomes(r, "answered")
  /\ UNCHANGED <<receipt, made>>

\* The server stops, the record cannot be written, or the reply is lost.
Fail(r) ==
  /\ Holding(r)
  /\ lock' = Nobody
  /\ Becomes(r, "problem")
  /\ UNCHANGED <<receipt, made, answer>>

Next ==
  \E r \in Request :
    \/ Refuse(r) \/ Busy(r) \/ Conflict(r) \/ Replay(r) \/ Claim(r)
    \/ Work(r) \/ WorkFails(r) \/ Commit(r) \/ Respond(r) \/ Fail(r)

Spec == Init /\ [][Next]_vars

-----------------------------------------------------------------------------

Answered == {r \in Request : answer[r] # Nobody}

\* Whatever is lost, retried or sent twice, all callers that get an answer get
\* the same one, and they asked for the same. (ReceiptStore.claim:89-116.)
AnswersAgree ==
  \A r, s \in Answered : answer[r] = answer[s] /\ InputOf[r] = InputOf[s]

\* What a caller was answered is on record: a server that stops afterwards
\* cannot come to answer otherwise. (invoke:149-153, commit before return.)
AnswersAreRecorded ==
  \A r \in Answered : [input |-> InputOf[r], output |-> answer[r]] \in receipt

\* Once a response is on record no request leaves another draft or run behind
\* in the workspace. (claim:100-105, invoke:123-124.)
RecordedWorkIsDone == [][receipt # {} => made' = made]_vars

\* A request that gave up, in whatever way, does not keep the ones after it
\* out. (ReceiptStore.claim:93-97, 114-116.)
LockIsHeld == lock # Nobody => Holding(lock)

\* The inductive invariant: whoever works, and nobody else, holds the lock and
\* works for the first response; what is committed, and what was answered, is
\* the record, and is work that was done.
RpcInv ==
  /\ TypeOK
  /\ LockIsHeld
  /\ \A r \in Request : Holding(r) => lock = r
  /\ \A r \in Request : pc[r] \in {"worked", "committed"} => r \in made
  /\ \A r \in Request : pc[r] # "answered" => answer[r] = Nobody
  /\ \A r \in Request : pc[r] \in {"working", "worked"} => receipt = {}
  /\ \A r \in Request :
       pc[r] = "committed" => receipt = {[input |-> InputOf[r], output |-> r]}
  /\ \A p, q \in receipt : p = q
  /\ AnswersAreRecorded

Command == INSTANCE IdempotentCommand

\* To its callers the RPC is one command that is worked on once and answered
\* with what came of it, wherever servers stop and whoever asks again.
\* (ReceiptStore.claim:89-116, invoke:119-153.)
ImplementsIdempotentCommand == Command!Spec
=============================================================================
