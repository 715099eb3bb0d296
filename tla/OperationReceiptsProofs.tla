------------------------ MODULE OperationReceiptsProofs ------------------------
(***************************************************************************)
(* Theorems of the operation receipts, for any number of invocations.      *)
(***************************************************************************)
EXTENDS OperationReceipts, TLAPS

USE RunnerAssumption

LEMMA ReceiptInit == Init => ReceiptInv
<1> SUFFICES ASSUME Init PROVE ReceiptInv
  OBVIOUS
<1>1. TypeOK
  BY DEF Init, TypeOK, Status
<1>2. AtWork = {} /\ made = {} /\ lock = Nobody /\ receipt.status = "none"
  BY DEF Init, AtWork
<1> QED
  BY <1>1, <1>2 DEF ReceiptInv, LockIsHeld

\* A runner that moves leaves the others where they are.
LEMMA OthersStay ==
  ASSUME TypeOK, NEW r \in Runner, NEW state, Becomes(r, state)
  PROVE  /\ pc'[r] = state
         /\ \A s \in Runner : s # r => pc'[s] = pc[s]
BY DEF TypeOK, Becomes

LEMMA ReceiptStep == ReceiptInv /\ [Next]_vars => ReceiptInv'
<1> SUFFICES ASSUME ReceiptInv, [Next]_vars PROVE ReceiptInv'
  OBVIOUS
<1> USE DEF ReceiptInv, TypeOK, LockIsHeld, AtWork, Executing
<1>1. CASE UNCHANGED vars
  BY <1>1 DEF vars
<1>2. ASSUME NEW r \in Runner, Refused(r) \/ Conflict(r) \/ Replay(r)
      PROVE  ReceiptInv'
  BY <1>2, OthersStay DEF Refused, Conflict, Known, Replay, Becomes
<1>3. ASSUME NEW r \in Runner, BeginFresh(r)
      PROVE  ReceiptInv'
  <2>1. receipt' = [status |-> "running", input |-> InputOf[r]]
    BY <1>3 DEF BeginFresh, Writes
  <2>2. receipt'.status = "running" /\ receipt'.input = InputOf[r]
        /\ receipt' \in [status : Status, input : Input]
    BY <2>1 DEF Status
  <2> QED
    BY <1>3, <2>2, OthersStay DEF BeginFresh, Becomes
<1>4. ASSUME NEW r \in Runner, Resume(r) \/ Retry(r)
      PROVE  ReceiptInv'
  BY <1>4, OthersStay DEF Resume, Retry, Known, Broken, Becomes
<1>5. ASSUME NEW r \in Runner, Work(r) \/ WorkFails(r)
      PROVE  ReceiptInv'
  BY <1>5, OthersStay DEF Work, WorkFails, Becomes
<1>6. ASSUME NEW r \in Runner, Complete(r) \/ RecordFailure(r)
      PROVE  ReceiptInv'
  <2>1. PICK status \in Done \cup Broken :
          receipt' = [status |-> status, input |-> InputOf[r]]
    BY <1>6 DEF Complete, RecordFailure, Writes
  <2>2. receipt'.status \notin {"none", "running"} /\ receipt'.input = InputOf[r]
        /\ receipt' \in [status : Status, input : Input]
    BY <2>1 DEF Done, Broken, Status
  <2>3. InputOf[r] = receipt.input
    BY <1>6 DEF Complete, RecordFailure
  <2>4. LockIsHeld'
    BY <1>6, OthersStay DEF Complete, RecordFailure, Released
  <2> QED
    BY <1>6, <2>2, <2>3, <2>4, OthersStay DEF Complete, RecordFailure, Released, Becomes
<1>7. ASSUME NEW r \in Runner, Report(r) \/ ReportFails(r)
      PROVE  ReceiptInv'
  <2>1. LockIsHeld'
    BY <1>7, OthersStay DEF Report, ReportFails
  <2> QED
    BY <1>7, <2>1, OthersStay DEF Report, ReportFails, Becomes
<1>8. ASSUME NEW r \in Runner, CompleteFails(r) \/ Stops(r)
      PROVE  ReceiptInv'
  <2>1. LockIsHeld'
    BY <1>8, OthersStay DEF CompleteFails, Stops, Released
  <2> QED
    BY <1>8, <2>1, OthersStay DEF CompleteFails, Stops, Released, Becomes
<1> QED
  BY <1>1, <1>2, <1>3, <1>4, <1>5, <1>6, <1>7, <1>8 DEF Next

\* The receipt, the lock and the runners agree, with any number of invocations
\* and inputs.
THEOREM ReceiptsKept == Spec => []ReceiptInv
BY ReceiptInit, ReceiptStep, PTL DEF Spec

\* Until a failure is on record the lock does keep a second runner out, also
\* after the first one stopped half way.
THEOREM FirstAttempt == Spec => []FirstAttemptIsExclusive
<1>1. ReceiptInv => FirstAttemptIsExclusive
  BY DEF ReceiptInv, FirstAttemptIsExclusive
<1> QED
  BY <1>1, ReceiptsKept, PTL

\* A key never executes two different inputs, retries and crashes included.
THEOREM OneInput == Spec => []OneInputPerKey
<1>1. ReceiptInv => OneInputPerKey
  BY DEF ReceiptInv, OneInputPerKey
<1> QED
  BY <1>1, ReceiptsKept, PTL

\* A runner that ended does not keep the lock, however it ended.
THEOREM LockNotLeaked == Spec => []LockIsHeld
<1>1. ReceiptInv => LockIsHeld
  BY DEF ReceiptInv
<1> QED
  BY <1>1, ReceiptsKept, PTL

\* A recorded result is never computed again while it is on record.
THEOREM Replayed == Spec => ResultsAreReplayed
<1>1. ReceiptInv /\ [Next]_vars
        => [receipt.status \in Done => Executing' \subseteq Executing]_vars
  <2> SUFFICES ASSUME ReceiptInv, Next, receipt.status \in Done
               PROVE  Executing' \subseteq Executing
    OBVIOUS
  <2>1. PICK r \in Runner :
          \/ Refused(r) \/ BeginFresh(r) \/ Conflict(r)
          \/ Resume(r) \/ Replay(r) \/ Retry(r)
          \/ Work(r) \/ WorkFails(r) \/ Complete(r) \/ CompleteFails(r)
          \/ Report(r) \/ ReportFails(r) \/ RecordFailure(r) \/ Stops(r)
    BY DEF Next
  <2>2. r \in Executing' => r \in Executing
    BY <2>1, OthersStay
       DEF ReceiptInv, Executing, Done, Broken, Known, Refused, BeginFresh, Conflict,
           Resume, Replay, Retry, Work, WorkFails, Complete, CompleteFails,
           Report, ReportFails, RecordFailure, Stops
  <2>3. \A s \in Runner : s # r => pc'[s] = pc[s]
    BY <2>1, OthersStay
       DEF ReceiptInv, Refused, BeginFresh, Conflict,
           Resume, Replay, Retry, Work, WorkFails, Complete, CompleteFails,
           Report, ReportFails, RecordFailure, Stops
  <2> QED
    BY <2>2, <2>3 DEF Executing
<1> QED
  BY <1>1, ReceiptsKept, PTL DEF Spec, ResultsAreReplayed
=============================================================================
