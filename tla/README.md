# LLM-KEE in TLA+

LLM-KEE learns from the work of other engines: it distils experiences from
handed-over sessions, proposes memory and knowledge changes, has them evaluated
and leaves the decision to people or to NOX. This directory holds TLA+ modules of
the parts where that can go wrong when processes interleave, stop and retry, TLC
configurations that check them on small instances, and TLAPS proofs for every
instance. Paths below are relative to `src/src/llm_kee/` unless they name the
repository's `README.md` or `tests/`.

## 1. The system

| Component | State | Operations | Talks to |
|---|---|---|---|
| Experience rules (`experience/distiller, reconciler, evaluator, curriculum, models`) | none, sealed values | distil a handoff, reconcile a candidate with a snapshot, evaluate a revision, plan practice | the two workers |
| Experience learner (`experience/worker, service`) | the handoffs, snapshot and batch of one cycle | fetch pending, read memory, build and post an atomic batch, heartbeat | NOX by HTTP |
| Evolution worker (`experience/evolution_worker, artifact`) | the events and position of one cycle | read events, post evaluation, curriculum, practice handoff, practice run, candidate artifact; observe rollouts | NOX, sandbox runner by HTTP |
| NOX state engine (external) | append-only experience log, active memory | record events, activate, roll back | both workers |
| Runtime receipts (`runtime_protocol`, `cli._run_streamed`) | receipt and lock file of each idempotency key | begin, complete, interrupt | every streamed command |
| Engine RPC (`rpc`) | recorded responses and lock files | invoke under a claim, commit, answer | NOX by HTTP, actions, memory drafts |
| Memory (`memory/service`) | Markdown files, lock files, drafts, dream records, `schedule.json` | draft, apply, reject, dream, review, schedule | JSON repositories, operators |
| Storage (`storage/`) | one JSON file per kind of record | list, get, upsert | every service |
| Proposals (`services`, `agents`, `evaluation`, `gates`, `apply`, `planning`) | proposals, evaluations, decisions | create, evaluate, approve, reject, request evidence, apply | LLM-KG client, judges, MAPE-K |
| Dream runs and scheduler (`memory/service`) | dream lease, `schedule.json`, runs, insights, diaries | run a dream, run once, loop | memory, repositories |
| Monitor (`monitoring/scanner`) | snapshots, events, signals | scan, diff | repositories, the directory |
| MAPE-K, knowledge loop, actions, workflows (`mape`, `loops`, `actions`, `workflows`) | cycles, runs, artifacts | run a cycle, a loop, an action, a workflow | monitor, repositories, proposals |
| Knowledge versions (`evolution/service`) | change sets, versions, events | create event | repositories |
| Failures, improvements, skills, intent, other loops | clusters, tasks, definitions | record, suggest, match | repositories |
| Configuration, models, command line | settings and record types | parse and dispatch | everything |

The two experience workers share nothing but NOX. Everything else shares the
workspace: separate processes (commands, the RPC server, schedulers) read and
replace the same files, and only receipts and the memory lease use locks.

What is hard, and what makes each part correct:

* Learner and evolution worker: every request may take effect although its
  caller never learns so, NOX may change the active memory between any two
  requests, and each cycle starts again from the log. Correct means that nothing
  reaches a memory unverified, verdicts and failures stay, batches are whole, and
  work that can be done is done.
* Receipts and RPC: runners with one key overlap, stop and retry. Correct means
  one input, one answer, and no second execution after a recorded one.
* Memory: the lease is a file that is checked and then written, expires, and is
  removed by whoever leaves. Correct means that no applied section is lost and
  that the records say what happened.
* Dreams: a run is several upserts under a lease that a stopped process leaves behind,
  and the scheduler writes a schedule it read some time before. Correct means that what
  the schedule names is complete, that it forgets no finished run, and that dreams go on.
* Monitor and MAPE-K: files change while they are scanned, a command stops between any
  two records and is run again by its receipt. Correct means that no change is hidden
  and that cycles and receipts stand for what is in the workspace.
* Knowledge versions: four upserts without a lock make one version. Correct means one
  line of versions per target, the latest one active.
* Proposals: commands act on copies and write them back. Correct means that
  LLM-KG only changes for what someone approved.

`PROJECT.json` lists the hazards line by line.

## 2. Modules

| Module | Models | Uses |
|---|---|---|
| `ExperienceRules` | distilling, reconciling, evaluating, as operators | |
| `NoxStateEngine` | the event log and the active memory, as the workers rely on them | `ExperienceRules` |
| `ExperienceLearner` | `worker.run_once` and its loop | `NoxStateEngine` |
| `ExperienceEvolution` | `evolution_worker.run_once` and its loop | `NoxStateEngine` |
| `ExperienceLifecycle` | both workers and NOX together; safety; refinement | the two above |
| `GovernedMemory` | the abstract promise of governed learning | |
| `RolloutObservations` | `collect_rollout_observations` and the assignments it pages through | `NoxStateEngine` |
| `ExperienceProgress` | both workers, rollouts included, with bounded interruptions and fairness | `ExperienceLifecycle`, `RolloutObservations` |
| `OperationReceipts` | receipts of streamed operations for one key | |
| `Workspace` | repositories and tasks of processes, each upsert a read and a replacement | |
| `MonitorScans` | `MonitorService.scan`, file by file | `Workspace` |
| `MapeCycle` | a MAPE cycle and its actions, upsert by upsert; the knowledge loop | `MonitorScans` |
| `MonitoredCycle` | streamed `mape run --from-path` and `loops run knowledge` under a receipt | `MapeCycle`, `OperationReceipts` |
| `DreamScheduler` | dream runs, their lease, the schedule and its loop | |
| `KnowledgeVersions` | `EvolutionService.create_event` | |
| `RpcReceipts` | claim, commit and answers of the RPC for one key | |
| `MemoryDrafts` | drafts, dreams, reviews and the lease on one memory file | |
| `IdempotentCommand` | the abstract promise of an idempotency key; `RpcReceipts` implements it | |
| `AtomicMemory` | that of proposal-first memory; `MemoryDrafts` implements it | |
| `DreamLog` | that of dream runs and their schedule; `DreamScheduler` implements it | |
| `VersionLine` | that of knowledge versions; `KnowledgeVersions` implements it | |
| `ApprovalGate` | that of governed updates of LLM-KG; `ProposalLifecycle` implements it | |
| `AuditTrail` | that of scans, cycles and their receipt; `MonitoredCycle` implements it | |
| `ProposalScreening` | evaluators, aggregator, gate, as operators | |
| `ProposalLifecycle` | proposals, decisions and application | `ProposalScreening` |
| `*Proofs` | the theorems of the module they are named after | that module |
| `MC*` | small instances | that module |

Each component keeps beside its model an abstract specification of what it promises, with
neither processes nor locks nor partial writes, and the model is shown to implement it:

| Abstract | One step there | The mapping |
|---|---|---|
| `GovernedMemory` | verify, propose, activate or undo | `verified` is computed from the practice runs on record |
| `IdempotentCommand` | make something, settle on a response, answer | the variables of the same names |
| `AtomicMemory` | compare a draft with the memory and write it, record | `Memory` is the file as its last complete write left it, `BaseOf` and `OnRecord` the drafts' bases and the records that say applied |
| `DreamLog` | begin a run, advance the last one begun by one record, name a completed one | `Reached(r)` is read off which records of the run are stored |
| `VersionLine` | supersede, add or link a version at the end of a line | the records on file, never the lists a writer holds |
| `ApprovalGate` | a process that may decide approves or hands over; record | the repository's statuses; `kg` and `dry` together say who handed over what, and those not in adapter mode may decide |
| `AuditTrail` | report, publish a snapshot, conclude a cycle, answer, overlap | events with their signals, snapshots, cycles, and the receipt; `Lost` is read off `overtaken` |

Four of them have a flag (`disturbed`, `overlapped`, `interfered`, `lost`) after which nothing
is promised, or less; it is raised by the history variables that the model keeps of a lease
that did not keep two processes apart, and of writers that overtook each other, because
there the code breaks the promise. Where the code says when that cannot happen, so does the
abstract specification: `AuditTrail` loses nothing before a failure or a result is on record,
and afterwards only of the repository in which upserts overlapped; with its reports goes the
promise that later snapshots are reported, with its cycles the one that an answer stands for one.

### Experience learning

An experience is a pair of a handoff and the index of one of its conclusions; a
memory is the sequence of its experiences; a hash is the value it is a hash of.
`NoxStateEngine` has one variable per kind of event (`distilled`, `revisions`,
`evaluations`, `curricula`, `practiceRuns`, `artifacts`), and `active`,
`released`. NOX is not in this repository. What is taken from how the workers use
it: the log only grows, an id that is posted again changes nothing, a batch is one
transaction, an artifact is activated only against its own parent, and one worker
of each kind runs per tenant and domain. `artifacts` that were rejected by a release
pipeline are simply never activated.

`ExperienceLearner` has an action for each request of a cycle, one for each round of
`reconcile_batch`, and `LearnerAborts`. `ExperienceEvolution` has an action for each
GET and POST of `run_once` and each way past a revision. The local variables of a
cycle are module variables, and an abort or a restart resets them. The worker reads
the learner's events once per cycle, hence `horizon`; its own events it appends to its
lists as it posts them, so they are the log's. A POST that took effect without its
reply is the POST followed by an abort. The practice runner may answer with either
verdict, not at all, or with a handoff that does not belong to the task.

`GovernedMemory` says what this is for: experiences get verified, proposals add one
verified experience to a memory that was released, memory changes by activating a
proposal made against it or by undoing one. `ImplementsGovernedMemory` substitutes
for `verified` the experiences that passed every task of a curriculum of their own
and claim no cause.

`RolloutObservations` numbers runs in the order of NOX's cursor. `BeginCollection` goes
with `ReadEvents`, because the observed runs come from the events read there; one
action reads a page, one passes a run that is observed, not ready or unanswered, one posts
an observation. `ExperienceProgress` runs the revisions only when the collection is over,
as `run_once` does, and a failure anywhere in the collection ends the whole cycle.

### Receipts

`OperationReceipts` takes one idempotency key; a runner is one invocation of the
command line. `begin` decides under the flock on one read, so it is one action with
four outcomes. The flock is the process's: `Stops` releases it. `made` is the set of
runners that left something in the workspace.

`RpcReceipts` is the same for `rpc.invoke`, where the lock is held from the claim to
the commit, and a failure records nothing. One server answers one request after the
other, so overlapping requests are those of several servers on one workspace.

### Commands with a receipt

`MonitoredCycle` puts the real work in the place of `OperationReceipts`' abstract step:
while a runner is "working" it scans, then runs its cycle. A task is a record that the
modules share, a step and what the scan and the cycle keep; a runner that fails or stops
drops it, and its retry starts with a new scan. `Complete` writes what `CommandStatus`
makes of the cycle. `MapeCycle` names the records it leaves out, which nothing reads, and
takes the planner's keyword rules as a constant: the action recommended for each file.
A failed run is `FailAction`, an exception in an action `StepFails`, and they differ as in
the code: only the second one shows in the execution.

An upsert is `List`, which reads the repository into `listed`, and later `Puts`, which
replaces the repository by that list with the record in it; whatever others stored in between
is undone. The history variable `overtaken` holds the repositories in which that happened.
It takes two runners at work at once, which `begin` excludes up to the first failure or result
(`FirstAttemptKeepsAll`) and allows from then on. The properties of snapshots, cycles and
receipts are therefore stated with a premise, `Kept`, about just those repositories that they
read. The premise is needed: without it TLC refutes `NoChangeIsHidden` and `CyclesAreBacked`
in the same instance, by two retries whose upserts overlap.

### Dreams

`DreamScheduler` has the commands `dream run`, `dream scheduler run --once` and `dream
scheduler start` in one process each. The schedule in memory is `mine`; it is written whole,
and truncated first, so readers may find it torn. The lease is checked (`CheckLease`) and
then written (`LeaseWrite`), as in `MemoryDrafts`. Up to three insights are one upsert, the
number does not matter to any reader. `overlapped`, `raced` and `cut` are history: two
dreams in the lease at once, a schedule that was read within somebody's read and write, a
file that was half written when a process stopped. An I/O error of the schedule itself is a
stop: the code has no handling for it.

### Knowledge versions

`KnowledgeVersions` has each upsert of `create_event` in two steps and the read of the
latest version between the first and the second. Versions with equal numbers, which only
overlapping writers make, are taken in any order. `interfered` is history: a writer replaced a
repository that had changed since it read it, or added a version next to one it did not
know of. `gaps` remembers the targets whose writer stopped between superseding a version
and storing the next.

### Memory

The content of the file is the set of its sections; the draft `d` adds section `d`.
Reading, comparing, truncating, filling, listing and replacing are separate steps,
so processes interleave where the code lets them. A dream run's draft is composed
from one read (`Dream`) and hashed from another (`ProposeDream`). Three history
variables say what the guarantees are conditional on: `written`, `torn` (a process
stopped inside a write), and `overlapped` (two processes were inside the lease).

### Proposals

A command reads a proposal, holds its copy, and writes it back with an upsert of two
steps. `RunEvaluations` applies the whole screening to what the evaluators read of the
proposal, any evidence lookup and any verdict of a judge. `Operator` processes differ
in runtime mode and in whether they have the direct LLM-KG adapter. `kg` and `dry` say
which processes handed a proposal over, to LLM-KG or to the dry run, `approved` is history
and says which ones approved it; `Earlier` is whoever approved what the workspace comes with.
That a process in adapter mode did neither is therefore visible to `ApprovalGate`.

## 3. What is checked

| Run | Instance | Shows |
|---|---|---|
| `chained` | 2 handoffs, 3 conclusions | the inductive invariant, whole and isolated batches, no equivalent experiences, artifacts on released memory, refinement of `GovernedMemory` |
| `causal` | a causal claim chained behind an association, a handoff that cannot be distilled | released memory is verified, verdicts do not reverse, failures are final, practice stops at a verdict |
| `progress` | 2 rival handoffs, 2 rollouts in pages of one, 1 interruption | runs are observed, and once only; handoffs are learned, revisions decided, accepted ones frozen |
| `receipts` | 3 runners of one `mape run`, a loop with another input, 2 files, 1 edit, 2 failures | the first attempt is exclusive, one input per key, results are replayed; no upsert undoes another one during the first attempt; unless one does, scans hide no change, cycles and receipts stand for what is there; the inductive invariant and refinement of `AuditTrail` |
| `rpc` | 4 requests, 2 inputs | the inductive invariant, answers agree, refinement of `IdempotentCommand` |
| `drafts` | 2 processes, a dreamed and a plain draft | the inductive invariant, nothing applied is lost, refinement of `AtomicMemory` |
| `proposals` | a standalone process with the adapter and a NOX-mode one, 2 proposals | the inductive invariant, LLM-KG takes only what was approved, refinement of `ApprovalGate` |
| `dreams` | a scheduler loop and a process used by hand, 2 runs, 1 fault | the inductive invariant, the schedule keeps up, dreams go on, refinement of `DreamLog` |
| `versions` | 2 writers, 3 changes of one target and 1 of another | the inductive invariant, the latest is active, refinement of `VersionLine` |
| `duplicate` | 3 runners, 1 input | finding 1 below |
| `stale_drafts` | 2 processes, 2 plain drafts | finding 2 |
| `stale_apply` | 2 standalone processes, 2 proposals | finding 3 |

Every property is broken by one mutation of the code's model that `PROJECT.json`
names; the mutated operators stand beside the ones they replace, marked "Fault".

Bounds. Two handoffs are the least for which one batch overtakes or repeats another;
two conclusions in one of them the least for a chain. Every revision has the
curricula and practice tasks the code gives it. Two rollouts in pages of one are the
least for a run that is assigned while the worker pages. Three runners with one input and
one with another contain a first attempt, its retry, a retry of the retry and a
conflict; with one edit of two files there are scans with no, one and two changes, and two
failures let an attempt and its retry both be cut; `Workflows` and `Looping` have a member
and a non-member each. There the constraint `Explored` bounds edits, failures and overtaken
repositories by two in all, leaves the loop that was turned away by the first input where it
is, and does not follow a receipt that says "interrupted", which `begin` reads as it reads
"failed". Two are enough for what the run is about: an attempt that fails and an upsert of its
retries that undoes another one, an edit between a failed attempt and its retry, and two cut
attempts; half a million states are left. The proofs have no such bound. Two dream runs and one fault give a failed run before or after a good
one. Three changes of one target make a version superseded in the middle of a line, a
second target shows that lines are apart. The proofs lift the
bounds of `dreams` and `versions`, of the receipts and of the experience lifecycle. One memory file is enough because leases,
drafts and hashes are all per file; drafts are not retried under another id, so two
drafts cover a lost update. The runs of `drafts` and `proposals` bound the number of
processes at two, since every conflict in this code is between a reader and one writer
in between. `CHECK_DEADLOCK FALSE` everywhere: commands end, and a log without
pending work leaves the workers waiting.

Fairness. In `ExperienceProgress` both `main` functions run their cycle
for ever and survive its exceptions, hence weak fairness of each worker's next step
(the workers are separate processes, so each has its own). A task the runner is asked
about again in each cycle is answered at last, strong fairness per revision and task:
"pending" is not a verdict, and a run that is never answered proves nothing about the
worker. The same holds of a rollout the replay service is asked to observe. Interrupted cycles are bounded by `MaxFailures`, the usual assumption that
failures stop for long enough. NOX owes nothing.

In `DreamScheduler` each process takes its next step (weak fairness of `Works`), time passes,
so a live lease expires, and a process that is idle is started again. The last is the
environment's part, not the code's: a conflict or an error ends the loop
(`memory/service.py:187-200`), and without whoever runs the scheduler again dreams stop.

What the liveness properties leave out on purpose is how the code is: a handoff that is
stale or cannot be distilled stops the learner's cycle whenever it is met, so progress of
others is promised only while there is none; a causal claim is never decided, because no
practice run carries the support the evaluator asks for; a replay service whose answer
never matches its assignment ends every cycle before the revisions; and a lock file that was
cut while it was filled stops dreams for good.

## 4. Findings

Each is a run that TLC refutes, the property being a sentence of the repository.

1. `duplicate`. README.md:237 says receipts keep retries from duplicating cycles,
   proposals or artifacts. A process that stops after its work and before `complete` has
   its work done again; an event that cannot be emitted turns a succeeded receipt into a
   failed one (`cli.py:376-386`). After a failure two retries may even run at once, because
   `begin` releases the lock of a failed or interrupted receipt (`runtime_protocol.py:146`).
2. `stale_drafts`. README.md:226 says `memory apply` rejects stale drafts when another
   process has changed the file. The lease is checked and then written
   (`memory/service.py:455-474`), so two processes compare the hash before either writes.
3. `stale_apply`. README.md:224 says LLM-KG is mutated only when the proposal is approved.
   `apply` checks the copy its command read (`apply/safe_apply.py:19`, `cli.py:352`), which
   another process may have rejected since.

Limits that contradict no document, and are premises of properties instead:

* A dream run composes its text from one read of the file and its hash from a second one
  (`memory/service.py:305` and `:80`). A draft applied in between is lost when the dream
  draft is applied, with the lease intact: the premise `Undisturbed` of `NothingLost`.
* Overlapping writers give a target two versions with one number, both active: the premise
  `~interfered` of the properties of `KnowledgeVersions`.
* A dream run says "completed" from its first upsert, so one that was cut differs from a
  finished one by its missing `diary_id` only, and that is what the properties go by.
* Retries that run at once after a recorded failure undo each other's upserts
  (`storage/json_store.py:29-40`): an event of a change that a snapshot already has, an
  artifact that a cycle lists, or the cycle behind a receipt can be gone. The premises `Kept`
  of `NoChangeIsHidden`, `CyclesAreBacked` and `ReceiptsAreBacked`, and `Overlap` in
  `AuditTrail`.
* A retry of `mape run --from-path` after a stop past the snapshot finds nothing changed
  and succeeds with an empty cycle; a failed action leaves its execution completed; a
  knowledge loop succeeds with any cycle. `CyclesAreBacked` and `ReceiptsAreBacked` say what
  is still true then.

## 5. What is proved

All theorems hold for every value of the constants under the modules' assumptions, which
say that constants are of their kind: a finite or infinite set of handoffs, runners,
requests, operators or proposals, distinct null values, inputs assigned to runners.

* `ExperienceLifecycleProofs`: `LifecycleInv` is the inductive invariant, in three layers
  that are proved one on top of the other.
  `EvidenceInv`: the safety properties are not inductive: that a frozen artifact is verified
  depends on what the evolution worker knew when it read the active memory
  (`FreezingIsEarned`), that on the acceptance (`AcceptanceIsEarned`), which depends on
  practice runs that were recorded by a worker whose task had no run yet
  (`OpenTaskHasNoRun`), so that no later run takes a verification back. The lemma
  `VerifiedKept` is the heart of it: what is verified stays so. From it follow
  `ReleasedMemoryVerified`, `ArtifactsExtendReleasedMemory`, `FailuresAreFinal`,
  `AutomaticReleaseIsSameSession`, and, step by step, that the lifecycle implements
  `GovernedMemory`.
  `VerdictInv`: a revision has at most two curricula, the second one for what came of the
  first, and every evaluation is that of its own dataset (`CurriculaAreChained`,
  `EvaluationsStand`); the practice dataset does not change once it is complete, so neither
  does the verdict: `VerdictsNeverReverse` and the action property `PracticeStopsAtVerdict`.
  `BatchInv`: the learner's batch goes through the conclusions of one handoff in order and
  is placed in the log as a whole (`BatchIsSound`, `BatchesArePlaced`), and reconciling adds
  nothing a memory already says: `BatchesAreWhole`, `BatchesAreIsolated`,
  `NoEquivalentExperiences`.
  For `ExperienceProgress`: rollouts and bounded interruptions take nothing away
  (`ProgressIsGoverned`), and between its requests the worker knows of every observation on
  record (`RolloutInv`), hence `RunsCountOnce`.
* `OperationReceiptsProofs`: `ReceiptInv` ties lock, receipt and runners together: while
  the receipt says running, whoever executes holds the lock, and whoever is at work or has
  left products carries the recorded input. `FirstAttemptIsExclusive`, `OneInputPerKey` and
  the action property `ResultsAreReplayed` follow. `LockIsHeld`, a part of it, says that a
  lock belongs to a runner still inside the operation: none is leaked (`LockNotLeaked`).
* `RpcReceiptsProofs`: `RpcInv`: whoever works holds the lock and works for the first
  response, and what is committed or answered is the record. `AnswersAgree` and
  `RecordedWorkIsDone` follow, and `LockNotLeaked` as for receipts.
  `RpcImplementsIdempotentCommand`: `Work`, and work that fails, is the abstract `Make`,
  `Commit` is `Settle`, a response or a replay is `Answer`, and the claim, the lock and a stop
  are stutters. `RpcInv` says that there is no response on record for who works or commits,
  and no answer yet for who gets one.
* `MemoryDraftsProofs`: `DraftsInv`: what an operator holds was drafted, what it is about to
  record as applied was written, and, as long as the lease worked, only one is inside and
  what it compared is still so. `NothingLost`, `OneDraftPerBase`, `RecordsFollowMemory`.
  `DraftsImplementAtomicMemory`: the abstract memory changes when the file has been filled, not
  when it was truncated; the comparison made some steps before still holds then, by
  `LeaseProtects`, unless the lease failed, which is an abstract `Disturb`. What an upsert puts
  back of somebody's older list is an abstract `Record`. `AtomicMemoryAppliesOnce` proves of the
  abstract memory that it holds what was written and takes one draft of each base.
* `ProposalLifecycleProofs`: `ProposalsInv`: every copy and every list at hand that says
  approved or applied is of a proposal that was. The lemma `GateIsAdvisory` says that
  screening never approves. `KnowledgeIsApproved`, `AppliedWasHandedOver`.
  `ProposalsImplementGate`: replacing the repository by an older list is an abstract `Record`,
  which may claim no decision and no handing over that did not happen; handing over follows
  the approval because the copy that `apply` checked says so, and is a step of a process that
  may decide because `apply` goes on to the plan outside adapter mode only.

* `DreamSchedulerProofs`: `DreamInv`. Its part `LeaseInv` says what the one in the lease has
  stored before its stage and that every schedule, on file or in memory, names completed
  runs; its part `ScheduleInv` that the scheduler between its read and its write has in
  memory what the file says. `LastRunHasItsDiary` and `ScheduleKeepsUp` follow.
  `DreamsImplementLog`: that only the run begun last goes on is not in those parts; `Serial`
  adds it to `DreamInv`: the one in the lease is at the run that began last, and at the stage
  that the records of the run say. `Reached` reads that stage off the records; the second step
  of an upsert advances one run by one.
* `KnowledgeVersionsProofs`: `VersionsInv`. Its part `WritersAreSound` says that, while nothing
  interferes, a writer knows the number of the version before its own, which is superseded
  before its own is stored. `LineOfVersions` and `LatestIsActive` follow.
  `VersionsImplementLine`: the replacement of a repository by the list read before is, while
  nothing interferes, a change of one version, and the one that `WritersAreSound` says is the
  newest of its target.

* `MonitoredCycleProofs`: the command with its work implements `OperationReceipts`
  (`CommandKeepsReceipts`), so its invariant carries over. `MonitoredInv` adds what a task
  promises on its way, in two parts. Without condition: what a scan or a cycle has still to
  store is in no repository and in no list that is about to replace one (`ScanIsFresh`,
  `CycleIsOrderly`; `Around` is both, because an older list may bring a record back), and of
  each name there is one (`NamesAreUnique`). As long as no upsert of the repositories
  concerned undid another one: a change that is not to be reported any more has its event and
  its signal (`ScanIsReported`), what the execution lists is in the workspace, all of it
  screened but the action at hand (`CycleIsBacked`), and the same of the snapshots and cycles
  around. `ListsAreSound` says that up to the first failure or result a list is what the
  repository holds, because its owner is the only one at work; `FirstAttemptKeepsAll` follows
  by the step that replaces it. `PutsEffect` says once what a replacement by a list does,
  `PutsGrow` what it leaves to the others (`Grows`); then there is one lemma per step.
  `MonitoredKept` is the theorem that the invariant holds; `FirstAttemptKeepsAll`,
  `NoChangeIsHidden`, `CyclesAreBacked` and `ReceiptsAreBacked` follow.
  `CommandLeavesTrail`: every step of a command is a step of `AuditTrail` or a stutter. An upsert
  that undoes nothing is `Report`, `Publish` or `Conclude`, one that does is `Overlap` of its
  part; that it changes no snapshot and no cycle is `NamesAreUnique` of what is around.

Every safety invariant, action property and refinement that a passing run checks is the
statement of a theorem. Only model-checked are the liveness properties `HandoffsAreLearned`,
`RevisionsAreDecided`, `AcceptedIsFrozen`, `RolloutsAreObserved` and `DreamsGoOn`: they rest on
fairness, hence on ENABLED, for which the prover has no rule. The properties of the three
refuted runs are false and have no theorem. The invariants that refinements replaced in the
runs (`LineOfVersions`, `LastRunHasItsDiary`, `RecordedWorkIsDone`, `OneDraftPerBase`,
`RecordsFollowMemory`, `AppliedWasHandedOver`, `ReceiptInv`) and `AutomaticReleaseIsSameSession`
are proved, and are either
conjuncts of the invariant a run checks or consequences of it.

## 6. What is not modelled

* Wording, scores, difficulty stages other than the one the worker plans, retrieval: no
  property depends on them. A score below the aggregator's limit and a pass lead to the
  same gate decision.
* Heartbeats: reported to NOX and read by nobody here.
* Drafts that carry content of their own, the manifest, several memory files.
* What LLM-KG, models, the sandbox runner and NOX do inside.
* The rules by which signals become actions, and what a workflow, a model or a structured
  generation puts into an artifact: data that no modelled guard reads. Signals that come from
  a file instead of a scan, and streamed commands other than `mape run` and `loops run
  knowledge`: `OperationReceipts` has them with abstract work.
* Agent and skill loops, failures, improvements, skills, intent: straight sequences of calls
  whose only shared-state hazard is the upsert, which `MemoryDrafts`, `ProposalLifecycle`,
  `DreamScheduler`, `KnowledgeVersions` and `Workspace` have in two steps.

## 7. Plan

The order was: the experience lifecycle first, because it is what the repository is for, then
receipts, RPC, memory drafts and proposals, each with its proofs; then dreams and their
scheduler, knowledge versions, rollout observations, scans and cycles under a receipt; then
the proofs about verdicts, batches and cycles; last an abstract specification for each component
and the proof that the component implements it.

What could follow:

1. A theorem that `RolloutObservations` implements an abstract set of observed runs, as the
   other components implement theirs, and the consequences of the other abstract
   specifications, as `AtomicMemoryAppliesOnce` has them for memory.
2. Failure clusters (`failures/detector.py`): the read-modify-write of the open cluster, with
   the same premise as `KnowledgeVersions`.
3. Drafts with content of their own in `MemoryDrafts`, and memory files of several scopes.

## 8. Running

    tlc -workers 2 -config MCMemoryDrafts.cfg MCMemoryDrafts
    tlapm MemoryDraftsProofs.tla

`drafts`, `progress` and `receipts` take up to two and a half minutes, `proposals` about one and a
half; every other run a few seconds up to half a minute.
