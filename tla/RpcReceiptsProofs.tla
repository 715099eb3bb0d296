--------------------------- MODULE RpcReceiptsProofs ---------------------------
(***************************************************************************)
(* Theorems of the RPC receipts, for any number of requests and servers.   *)
(***************************************************************************)
EXTENDS RpcReceipts, TLAPS

USE RequestAssumption

LEMMA RpcInit == Init => RpcInv
BY DEF Init, RpcInv, TypeOK, Response, LockIsHeld, Holding, AnswersAreRecorded, Answered

\* A request that moves leaves the others where they are.
LEMMA OthersStay ==
  ASSUME TypeOK, NEW r \in Request, NEW state, Becomes(r, state)
  PROVE  /\ pc'[r] = state
         /\ \A s \in Request : s # r => pc'[s] = pc[s]
BY DEF TypeOK, Becomes

\* An answer leaves the others as they were.
LEMMA OthersKeepAnswers ==
  ASSUME TypeOK, NEW r \in Request, NEW output \in Request,
         answer' = [answer EXCEPT ![r] = output]
  PROVE  /\ answer' \in [Request -> Request \cup {Nobody}]
         /\ answer'[r] = output
         /\ \A s \in Request : s # r => answer'[s] = answer[s]
BY DEF TypeOK

LEMMA RpcStep == RpcInv /\ [Next]_vars => RpcInv'
<1> SUFFICES ASSUME RpcInv, [Next]_vars PROVE RpcInv'
  OBVIOUS
<1> USE DEF RpcInv, TypeOK, LockIsHeld, Holding, AnswersAreRecorded, Answered
<1>1. CASE UNCHANGED vars
  BY <1>1 DEF vars
<1>2. ASSUME NEW r \in Request, Refuse(r) \/ Busy(r) \/ Conflict(r)
      PROVE  RpcInv'
  BY <1>2, OthersStay DEF Refuse, Busy, Conflict, Claimable, Becomes
<1>3. ASSUME NEW r \in Request, Replay(r)
      PROVE  RpcInv'
  <2>1. PICK response \in receipt :
          /\ response.input = InputOf[r]
          /\ answer' = [answer EXCEPT ![r] = response.output]
    BY <1>3 DEF Replay
  <2>2. /\ response.output \in Request
        /\ response = [input |-> InputOf[r], output |-> response.output]
    BY <2>1 DEF Response
  <2>3. AnswersAreRecorded'
    BY <1>3, <2>1, <2>2, OthersKeepAnswers DEF Replay
  <2>4. /\ pc'[r] = "answered" /\ \A s \in Request : s # r => pc'[s] = pc[s]
        /\ \A s \in Request : s # r => answer'[s] = answer[s]
        /\ answer' \in [Request -> Request \cup {Nobody}]
    BY <1>3, <2>1, <2>2, OthersStay, OthersKeepAnswers DEF Replay
  <2> HIDE DEF AnswersAreRecorded
  <2> QED
    BY <1>3, <2>3, <2>4 DEF Replay, Claimable, Becomes
<1>4. ASSUME NEW r \in Request, Claim(r)
      PROVE  RpcInv'
  BY <1>4, OthersStay DEF Claim, Claimable, Becomes
<1>5. ASSUME NEW r \in Request, Work(r) \/ WorkFails(r) \/ Fail(r)
      PROVE  RpcInv'
  <2>1. CASE Work(r)
    BY <2>1, OthersStay DEF Work, Becomes
  <2>2. CASE WorkFails(r) \/ Fail(r)
    BY <2>2, OthersStay DEF WorkFails, Fail, Becomes
  <2> QED
    BY <1>5, <2>1, <2>2
<1>6. ASSUME NEW r \in Request, Commit(r)
      PROVE  RpcInv'
  <2>1. receipt = {} /\ lock = r
    BY <1>6 DEF Commit
  <2>2. receipt' = {[input |-> InputOf[r], output |-> r]} /\ receipt' \subseteq Response
    BY <1>6 DEF Commit, Response
  <2>3. \A s \in Request : s # r => ~Holding(s)
    BY <2>1
  <2> QED
    BY <1>6, <2>1, <2>2, <2>3, OthersStay DEF Commit, Becomes
<1>7. ASSUME NEW r \in Request, Respond(r)
      PROVE  RpcInv'
  BY <1>7, OthersStay, OthersKeepAnswers DEF Respond, Becomes
<1> QED
  BY <1>1, <1>2, <1>3, <1>4, <1>5, <1>6, <1>7 DEF Next

\* The receipts keep their invariant: a request works only under the lock and
\* only until there is a record, and every answer given is the record.
THEOREM RpcKept == Spec => []RpcInv
BY RpcInit, RpcStep, PTL DEF Spec

\* All callers of one key that get an answer get the same answer, whichever
\* servers stop and whichever replies are lost.
THEOREM OneAnswer == Spec => []AnswersAgree
<1>1. RpcInv => AnswersAgree
  <2> SUFFICES ASSUME RpcInv, NEW r \in Answered, NEW s \in Answered
               PROVE  answer[r] = answer[s] /\ InputOf[r] = InputOf[s]
    BY DEF AnswersAgree
  <2>1. [input |-> InputOf[r], output |-> answer[r]]
          = [input |-> InputOf[s], output |-> answer[s]]
    BY DEF RpcInv, AnswersAreRecorded
  <2> QED
    BY <2>1
<1> QED
  BY <1>1, RpcKept, PTL

\* Once a response is on record no request leaves anything else behind.
THEOREM WorkIsDone == Spec => RecordedWorkIsDone
<1>1. RpcInv /\ [Next]_vars => [receipt # {} => made' = made]_vars
  BY DEF RpcInv, Next, vars, Refuse, Busy, Conflict, Replay, Claim, Work, WorkFails,
         Commit, Respond, Fail
<1> QED
  BY <1>1, RpcKept, PTL DEF Spec, RecordedWorkIsDone

-----------------------------------------------------------------------------
(* The refinement of the idempotent command                                *)

LEMMA CommandStep ==
  RpcInv /\ [Next]_vars => [Command!Next]_<<receipt, made, answer>>
<1> SUFFICES ASSUME RpcInv, Next
             PROVE  [Command!Next]_<<receipt, made, answer>>
  BY DEF vars
<1>1. ASSUME NEW r \in Request, Refuse(r) \/ Busy(r) \/ Conflict(r) \/ Claim(r) \/ Fail(r)
      PROVE  UNCHANGED <<receipt, made, answer>>
  BY <1>1 DEF Refuse, Busy, Conflict, Claim, Fail
<1>2. ASSUME NEW r \in Request, Replay(r)
      PROVE  Command!Answer(r)
  BY <1>2 DEF Replay, Claimable, RpcInv, Command!Answer
<1>3. ASSUME NEW r \in Request, Work(r) \/ WorkFails(r)
      PROVE  Command!Make(r) \/ UNCHANGED <<receipt, made, answer>>
  BY <1>3 DEF Work, WorkFails, RpcInv, Command!Make
<1>4. ASSUME NEW r \in Request, Commit(r)
      PROVE  Command!Settle(r)
  BY <1>4 DEF Commit, RpcInv, Command!Settle
<1>5. ASSUME NEW r \in Request, Respond(r)
      PROVE  Command!Answer(r)
  BY <1>5 DEF Respond, RpcInv, Command!Answer
<1> QED
  BY <1>1, <1>2, <1>3, <1>4, <1>5 DEF Next, Command!Next

\* The RPC implements the idempotent command: what is locked, what a server is
\* doing, and what it loses when it stops, is nothing a caller can tell.
THEOREM RpcImplementsIdempotentCommand == Spec => ImplementsIdempotentCommand
<1>1. Init => Command!Init
  BY DEF Init, Command!Init
<1> QED
  BY <1>1, CommandStep, RpcKept, PTL DEF Spec, ImplementsIdempotentCommand, Command!Spec

\* The lock is never left behind: when it is taken somebody is at work.
THEOREM LockNotLeaked == Spec => []LockIsHeld
<1>1. RpcInv => LockIsHeld
  BY DEF RpcInv
<1> QED
  BY <1>1, RpcKept, PTL
=============================================================================
