----------------------------- MODULE DreamScheduler -----------------------------
(***************************************************************************)
(* Dream runs and the scheduler that starts them (memory/service.py:       *)
(* run_dream, run_dream_scheduler_once, start_dream_scheduler), with the   *)
(* lease "dream", the schedule file and the repositories of a run.         *)
(*                                                                         *)
(* A process runs one command after the other: `dream run`, `dream         *)
(* scheduler run --once` or `dream scheduler start`.  The up to three      *)
(* insights of a run are one record; its drafts and proposals are those of *)
(* MemoryDrafts.  The lock file and the schedule are truncated and filled: *)
(* a stop in between leaves them torn, and a reader may find the schedule  *)
(* so.  A repository is replaced at once but read some time before.        *)
(***************************************************************************)
EXTENDS Naturals

CONSTANTS
  Process,     \* the processes that dream
  ModesOf,     \* the commands each of them is used for
  MaxRuns,     \* bounds the dream runs, numbered in the order of their creation
  MaxFaults    \* bounds the failures, interrupts and stops

Mode == {"manual", "once", "loop"}

ASSUME ModeAssumption == ModesOf \in [Process -> SUBSET Mode]
ASSUME BoundAssumption == MaxRuns \in Nat /\ MaxFaults \in Nat

Run  == 1..MaxRuns
None == 0

VARIABLES
  lease,       \* the lock file
  schedule,    \* the schedule file
  store,       \* the repositories of dream runs
  used,        \* the number of run ids given out
  proc,        \* what each process is doing
  newest,      \* history: the last run that a scheduler wrote down
  overlapped,  \* history: two processes were in the lease at once
  raced,       \* history: the schedule was read between a read and a write
  cut,         \* history: what was half written when a process stopped
  faults       \* failures, interrupts and stops so far

vars == <<lease, schedule, store, used, proc, newest, overlapped, raced, cut, faults>>
history == <<newest, overlapped, raced, cut>>

Repository == {"runs", "insights", "diaries"}
Records    == [Run -> {"absent", "stored", "complete"}]

\* A schedule: the status and the last dream run.  The due date and the
\* interval follow from them and are never read.
Status    == {"idle", "started", "running", "error", "stopped"}
Schedules == [status : Status, last : Run \cup {None}]
Torn      == [status |-> "torn", last |-> None]

\* The upserts of a run in the order of the code.
Stage  == {"begin", "insights", "diary", "finish"}
After  == [begin |-> "insights", insights |-> "diary", diary |-> "finish", finish |-> "finish"]
Target == [begin |-> "runs", insights |-> "insights", diary |-> "diaries", finish |-> "runs"]

Step == {"idle", "reading", "writing", "asleep", "locking", "free", "leased", "listed", "leaving"}

\* mine: the schedule in memory.  items: the repository that the upsert in
\* progress has read.
Commands == [step : Step, mode : Mode, mine : Schedules,
             run : Run \cup {None}, stage : Stage, items : Records]

TypeOK ==
  /\ lease \in {"none", "torn", "live", "expired"}
  /\ schedule \in Schedules \cup {Torn}
  /\ store \in [Repository -> Records]
  /\ used \in 0..MaxRuns
  /\ proc \in [Process -> Commands]
  /\ newest \in Run \cup {None}
  /\ overlapped \in BOOLEAN /\ raced \in BOOLEAN
  /\ cut \in [lease : BOOLEAN, schedule : BOOLEAN]
  /\ faults \in 0..MaxFaults

NoRecords == [r \in Run |-> "absent"]
Fresh     == [status |-> "idle", last |-> None]
Idle      == [step |-> "idle", mode |-> "manual", mine |-> Fresh, run |-> None,
              stage |-> "begin", items |-> NoRecords]

Init ==
  /\ lease = "none"
  /\ schedule = Fresh
  /\ store = [repository \in Repository |-> NoRecords]
  /\ used = 0
  /\ proc = [p \in Process |-> Idle]
  /\ newest = None
  /\ overlapped = FALSE /\ raced = FALSE
  /\ cut = [lease |-> FALSE, schedule |-> FALSE]
  /\ faults = 0

At(p, step)   == proc[p].step = step
GoTo(p, step) == proc' = [proc EXCEPT ![p].step = step]
Ends(p)       == proc' = [proc EXCEPT ![p] = Idle]

\* From filling the lock file until it is unlinked.
InLease(p) == proc[p].step \in {"leased", "listed", "leaving"}

\* From reading the schedule until the write that follows.
Scheduled(p) == proc[p].mode # "manual" /\ proc[p].step \notin {"idle", "reading", "asleep"}

-----------------------------------------------------------------------------
(* The schedule file                                                       *)

\* What p may read.  An unreadable schedule, and one that is being written, is
\* taken for one in error without a last run.
SchedulesRead(p) ==
  (IF \E q \in Process \ {p} : At(q, "writing") THEN {[status |-> "error", last |-> None]} ELSE {})
    \cup {IF schedule = Torn THEN [status |-> "error", last |-> None] ELSE schedule}

\* The process goes on to write the schedule whole.
WritesDown(p, mine) ==
  proc' = [proc EXCEPT ![p].step = "writing", ![p].mine = mine,
                       ![p].run = None, ![p].stage = "begin", ![p].items = NoRecords]

Start(p, mode) ==
  /\ At(p, "idle")
  /\ proc' = [proc EXCEPT ![p] = [Idle EXCEPT !.mode = mode,
                !.step = IF mode = "manual" THEN "locking" ELSE "reading",
                !.mine.status = IF mode = "loop" THEN "started" ELSE "running"]]
  /\ UNCHANGED <<lease, schedule, store, used, history, faults>>

\* run_dream_scheduler_once and start_dream_scheduler read the schedule and
\* update it in memory; so does the end of the loop.
ReadSchedule(p) ==
  /\ At(p, "reading")
  /\ \E read \in SchedulesRead(p) :
       WritesDown(p, [read EXCEPT !.status = proc[p].mine.status])
  /\ raced' = (raced \/ \E q \in Process \ {p} : Scheduled(q))
  /\ UNCHANGED <<lease, schedule, store, used, newest, overlapped, cut, faults>>

\* What follows depends on what was written: a loop goes on to its next run,
\* a run to the lease, the end of a run to sleep; an error ends the loop too.
WriteSchedule(p) ==
  /\ At(p, "writing")
  /\ schedule' = proc[p].mine
  /\ newest' = IF proc[p].mine.status = "idle" THEN proc[p].mine.last ELSE newest
  /\ CASE proc[p].mine.status = "started" ->
            proc' = [proc EXCEPT ![p].step = "reading", ![p].mine.status = "running"]
       [] proc[p].mine.status = "running" -> GoTo(p, "locking")
       [] proc[p].mine.status = "idle" /\ proc[p].mode = "loop" -> GoTo(p, "asleep")
       [] OTHER -> Ends(p)
  /\ UNCHANGED <<lease, store, used, overlapped, raced, cut, faults>>

\* The interval is over.
Wake(p) ==
  /\ At(p, "asleep")
  /\ proc' = [proc EXCEPT ![p].step = "reading", ![p].mine.status = "running"]
  /\ UNCHANGED <<lease, schedule, store, used, history, faults>>

-----------------------------------------------------------------------------
(* The lease                                                               *)

\* Fault: the error is written over the schedule, not into it.
RaisesAnew(p) ==
  IF proc[p].mode = "manual" THEN Ends(p)
  ELSE WritesDown(p, [status |-> "error", last |-> None])

\* The command of p raises: a scheduler writes its own schedule with the
\* error, whatever the file says by now, and ends.
Raises(p) ==
  IF proc[p].mode = "manual" THEN Ends(p)
  ELSE WritesDown(p, [proc[p].mine EXCEPT !.status = "error"])

\* Fault: an expired lease is a conflict too.
CheckUnexpired(p) ==
  /\ At(p, "locking")
  /\ lease = "none"
  /\ GoTo(p, "free")
  /\ UNCHANGED <<lease, schedule, store, used, history, faults>>

CheckLease(p) ==
  /\ At(p, "locking")
  /\ lease \in {"none", "expired"}
  /\ GoTo(p, "free")
  /\ UNCHANGED <<lease, schedule, store, used, history, faults>>

\* "Lock conflict", or a lock file whose JSON does not parse: a
\* JSONDecodeError is a ValueError, which is raised again.
Conflict(p) ==
  /\ At(p, "locking")
  /\ lease \in {"torn", "live"}
  /\ Raises(p)
  /\ UNCHANGED <<lease, schedule, store, used, history, faults>>

\* Fault: the run is not stored before its insights.
LeaseWriteUnrecorded(p) ==
  /\ At(p, "free")
  /\ used < MaxRuns
  /\ used' = used + 1
  /\ lease' = "live"
  /\ proc' = [proc EXCEPT ![p].step = "leased", ![p].run = used', ![p].stage = "insights"]
  /\ overlapped' = (overlapped \/ \E q \in Process \ {p} : InLease(q))
  /\ UNCHANGED <<schedule, store, newest, raced, cut, faults>>

\* The lock file is written and the run gets its id.
LeaseWrite(p) ==
  /\ At(p, "free")
  /\ used < MaxRuns
  /\ used' = used + 1
  /\ lease' = "live"
  /\ proc' = [proc EXCEPT ![p].step = "leased", ![p].run = used', ![p].stage = "begin"]
  /\ overlapped' = (overlapped \/ \E q \in Process \ {p} : InLease(q))
  /\ UNCHANGED <<schedule, store, newest, raced, cut, faults>>

\* The lock file is unlinked, whoever wrote it.
LeaseRelease(p) ==
  /\ At(p, "leaving")
  /\ lease' = "none"
  /\ IF proc[p].mode = "manual" THEN Ends(p)
     ELSE WritesDown(p, [status |-> "idle", last |-> proc[p].run])
  /\ UNCHANGED <<schedule, store, used, history, faults>>

\* 900 seconds have passed, with the holder at work, asleep or gone.
LeaseExpires ==
  /\ lease = "live"
  /\ lease' = "expired"
  /\ UNCHANGED <<schedule, store, used, proc, history, faults>>

-----------------------------------------------------------------------------
(* run_dream under the lease: one upsert after the other.                  *)

List(p) ==
  /\ At(p, "leased")
  /\ proc' = [proc EXCEPT ![p].step = "listed", ![p].items = store[Target[proc[p].stage]]]
  /\ UNCHANGED <<lease, schedule, store, used, history, faults>>

\* Fault: the run names its diary from the first.
UpsertedEarly(p) ==
  [proc[p].items EXCEPT ![proc[p].run] = IF proc[p].stage \in {"begin", "finish"} THEN "complete" ELSE "stored"]

\* The run names its diary when it is stored for the second time.
Upserted(p) ==
  [proc[p].items EXCEPT ![proc[p].run] = IF proc[p].stage = "finish" THEN "complete" ELSE "stored"]

Replace(p) ==
  /\ At(p, "listed")
  /\ store' = [store EXCEPT ![Target[proc[p].stage]] = Upserted(p)]
  /\ proc' = [proc EXCEPT ![p].stage = After[proc[p].stage], ![p].items = NoRecords,
                          ![p].step = IF proc[p].stage = "finish" THEN "leaving" ELSE "leased"]
  /\ UNCHANGED <<lease, schedule, used, history, faults>>

-----------------------------------------------------------------------------
(* Failures, interrupts and stops                                          *)

\* The file that p was writing, if any, is cut.
Cut(p, torn) ==
  /\ torn => proc[p].step \in {"free", "writing"}
  /\ cut' = [lease |-> cut.lease \/ (torn /\ At(p, "free")),
             schedule |-> cut.schedule \/ (torn /\ At(p, "writing"))]
  /\ schedule' = IF torn /\ At(p, "writing") THEN Torn ELSE schedule
  /\ lease' = IF torn /\ At(p, "free") THEN "torn" ELSE lease

Faulty      == faults < MaxFaults /\ faults' = faults + 1

\* The traces are unreadable, or a record cannot be stored: the run keeps
\* what was stored so far.
Fails(p) ==
  /\ InLease(p)
  /\ Faulty
  /\ lease' = "none"
  /\ Raises(p)
  /\ UNCHANGED <<schedule, store, used, history>>

\* Ctrl-C, which a command does not catch; a loop ends with one more update of
\* the schedule, unless it is not in the loop yet or not any more.
Interrupt(p) ==
  /\ ~At(p, "idle")
  /\ Faulty
  /\ IF InLease(p) THEN lease' = "none" /\ UNCHANGED <<cut, schedule>>
     ELSE \E torn \in BOOLEAN : Cut(p, torn)
  /\ IF proc[p].mode = "loop" /\ proc[p].mine.status \notin {"started", "stopped"}
     THEN proc' = [proc EXCEPT ![p] = [Idle EXCEPT !.step = "reading", !.mode = "loop",
                                                   !.mine.status = "stopped"]]
     ELSE Ends(p)
  /\ UNCHANGED <<store, used, newest, overlapped, raced>>

\* The process is gone, its lease stays.
Stop(p) ==
  /\ ~At(p, "idle")
  /\ Faulty
  /\ \E torn \in BOOLEAN : Cut(p, torn)
  /\ Ends(p)
  /\ UNCHANGED <<store, used, newest, overlapped, raced>>

\* What a process does by itself.
Works(p) ==
  \/ ReadSchedule(p) \/ WriteSchedule(p) \/ Wake(p)
  \/ CheckLease(p) \/ Conflict(p) \/ LeaseWrite(p) \/ LeaseRelease(p)
  \/ List(p) \/ Replace(p)

Starts(p) == \E mode \in ModesOf[p] : Start(p, mode)

Next ==
  \/ LeaseExpires
  \/ \E p \in Process :
       Starts(p) \/ Works(p) \/ Fails(p) \/ Interrupt(p) \/ Stop(p)

Spec == Init /\ [][Next]_vars

\* A process that runs goes on, time passes, and whoever runs the scheduler
\* (a timer, an operator) runs it again when it has ended.
FairSpec ==
  /\ Spec
  /\ WF_vars(LeaseExpires)
  /\ \A p \in Process : WF_vars(Starts(p)) /\ WF_vars(Works(p))

-----------------------------------------------------------------------------

Completed(r) == store.runs[r] = "complete"
HasDiary(r)  == store.diaries[r] # "absent" /\ store.insights[r] # "absent"

\* Wherever runs fail and processes stop, and whatever becomes of the schedule
\* file, the last run it names, and every run with its diary_id, has its diary
\* and insights on record, as long as the lease kept dreams apart.
\* (run_dream:129-155, run_dream_scheduler_once:170-186, dream_diary:207-211.)
LastRunHasItsDiary ==
  ~overlapped =>
    /\ schedule.last # None => Completed(schedule.last)
    /\ \A r \in Run : Completed(r) => HasDiary(r)

\* A failed, interrupted or refused run does not make the schedule forget the
\* last one: it names the last run a scheduler finished, unless two of them
\* overlapped or the file was half written when a process stopped.
\* (run_dream_scheduler_once:165-189, start_dream_scheduler:194-204.)
ScheduleKeepsUp ==
  ~raced /\ ~cut.schedule /\ schedule # Torn => schedule.last = newest

\* An insight or a diary on record names a run on record. (run_dream:139-152.)
NoOrphans ==
  ~overlapped =>
    \A r \in Run : \A repository \in Repository :
      store[repository][r] # "absent" => store.runs[r] # "absent"

\* Whoever stops or fails in the lease, dreams go on: after every run, that one
\* or a later one is completed, if run ids are left, unless a process stopped
\* while it filled the lock file or two dreams overlapped. (_lease_lock:450-478.)
DreamsGoOn ==
  \A r \in 1..(MaxRuns - MaxFaults) :
    used >= r ~> (cut.lease \/ overlapped \/ \E s \in r..MaxRuns : Completed(s))

\* While no two dreams overlap, the one in the lease has stored what comes
\* before its stage, and a schedule, on file or in memory, names completed runs.
LeaseInv ==
  ~overlapped =>
    /\ \A p, q \in Process : InLease(p) /\ InLease(q) => p = q
    /\ \A r \in Run : r > used => store.runs[r] = "absent"
    /\ schedule.last # None => Completed(schedule.last)
    /\ \A p \in Process :
         /\ proc[p].mine.last # None => Completed(proc[p].mine.last)
         /\ At(p, "listed") => proc[p].items = store[Target[proc[p].stage]]
         /\ InLease(p) =>
              /\ proc[p].run \in Run /\ proc[p].run <= used
              /\ proc[p].stage = "begin" <=> store.runs[proc[p].run] = "absent"
              /\ proc[p].stage \in {"diary", "finish"} => store.insights[proc[p].run] # "absent"
              /\ proc[p].stage = "finish" => store.diaries[proc[p].run] # "absent"
         /\ At(p, "leaving") => Completed(proc[p].run)

\* What the records of a run say that it does next.
Reached(r) ==
  IF store.runs[r] = "absent" THEN "begin"
  ELSE IF store.runs[r] = "complete" THEN "done"
  ELSE IF store.insights[r] = "absent" THEN "insights"
  ELSE IF store.diaries[r] = "absent" THEN "diary" ELSE "finish"

\* While no two dreams overlap, the one in the lease is the last that began and
\* is where its records say.
Serial ==
  ~overlapped =>
    /\ \A r \in Run : store.diaries[r] # "absent" => store.insights[r] # "absent"
    /\ \A p \in Process : InLease(p) =>
         proc[p].run = used /\ (~At(p, "leaving") => Reached(used) = proc[p].stage)

\* While no two schedulers overlap and no write is cut, the one between its
\* read and its write has in memory what the file says.
ScheduleInv ==
  /\ \A p \in Process : proc[p].step \in {"reading", "writing", "asleep"} => proc[p].mode # "manual"
  /\ ~raced /\ ~cut.schedule =>
       /\ schedule # Torn /\ schedule.last = newest
       /\ \A p, q \in Process : Scheduled(p) /\ Scheduled(q) => p = q
       /\ \A p \in Process : Scheduled(p) =>
            \/ At(p, "writing") /\ proc[p].mine.status = "idle"
            \/ proc[p].mine.last = newest

\* The inductive invariant.
DreamInv ==
  /\ TypeOK
  /\ LeaseInv
  /\ LastRunHasItsDiary
  /\ NoOrphans
  /\ Serial
  /\ ScheduleInv

-----------------------------------------------------------------------------
(* What the runs implement                                                 *)

Log == INSTANCE DreamLog WITH
  begun <- used, reached <- [r \in Run |-> Reached(r)], last <- schedule.last

\* Whatever processes stop, fail or take the lease over, the records are those
\* of one dream after the other: only the last run that began goes on, a run
\* left unfinished is never taken up or taken back, and the schedule names a
\* completed run; unless two dreams overlapped.
\* (run_dream:129-155, _lease_lock:450-478, run_dream_scheduler_once:165-189.)
ImplementsDreamLog == Log!Spec
=============================================================================
