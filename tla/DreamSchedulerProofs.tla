-------------------------- MODULE DreamSchedulerProofs --------------------------
(***************************************************************************)
(* Theorems of dream runs and their scheduler, for any number of processes *)
(* and runs, whatever commands the processes are used for.                 *)
(***************************************************************************)
EXTENDS DreamScheduler, TLAPS

USE ModeAssumption, BoundAssumption

LEMMA IdleIsACommand ==
  /\ Idle \in Commands /\ NoRecords \in Records /\ Torn.last = None
  /\ Idle.step = "idle" /\ Idle.mine = Fresh /\ Fresh.last = None
  /\ Idle.run = None /\ Idle.stage = "begin" /\ Idle.items = NoRecords
BY DEF Idle, Commands, NoRecords, Records, Fresh, Schedules, Status, Step, Mode, Stage, Torn

LEMMA DreamInit == Init => DreamInv
<1> SUFFICES ASSUME Init PROVE DreamInv
  OBVIOUS
<1>1. \A p \in Process : proc[p] = Idle
  BY DEF Init
<1>2. TypeOK
  <2>1. Fresh \in Schedules /\ None \in Run \cup {None}
    BY DEF Fresh, Schedules, Status
  <2>2. store \in [Repository -> Records] /\ proc \in [Process -> Commands]
    BY IdleIsACommand DEF Init
  <2>3. faults \in 0..MaxFaults /\ used \in 0..MaxRuns
    BY DEF Init
  <2>4. cut \in [lease : BOOLEAN, schedule : BOOLEAN]
    BY DEF Init
  <2> QED
    BY <2>1, <2>2, <2>3, <2>4 DEF Init, TypeOK
<1>3. LeaseInv /\ LastRunHasItsDiary /\ NoOrphans /\ Serial
  BY <1>1, IdleIsACommand DEF Init, LeaseInv, Serial, LastRunHasItsDiary, NoOrphans, InLease, At, Fresh,
     NoRecords, Completed, Repository
<1>4. ScheduleInv
  BY <1>1, IdleIsACommand DEF Init, ScheduleInv, Scheduled, At, Fresh, Torn
<1> QED
  BY <1>2, <1>3, <1>4 DEF DreamInv

-----------------------------------------------------------------------------
(* What a step does to the process that takes it                           *)

\* A process goes on to another step of its command.
LEMMA Moves ==
  ASSUME TypeOK, NEW p \in Process, NEW step \in Step, GoTo(p, step)
  PROVE  /\ proc' \in [Process -> Commands]
         /\ proc'[p] = [proc[p] EXCEPT !.step = step]
         /\ \A q \in Process : q # p => proc'[q] = proc[q]
BY DEF TypeOK, GoTo, Commands

\* A command ends.
LEMMA Ending ==
  ASSUME TypeOK, NEW p \in Process, Ends(p)
  PROVE  /\ proc' \in [Process -> Commands]
         /\ proc'[p] = Idle
         /\ \A q \in Process : q # p => proc'[q] = proc[q]
BY IdleIsACommand DEF TypeOK, Ends

\* A process goes on to write the schedule.
LEMMA WritingDown ==
  ASSUME TypeOK, NEW p \in Process, NEW mine \in Schedules, WritesDown(p, mine)
  PROVE  /\ proc' \in [Process -> Commands]
         /\ proc'[p].step = "writing" /\ proc'[p].mine = mine
         /\ proc'[p].mode = proc[p].mode
         /\ \A q \in Process : q # p => proc'[q] = proc[q]
<1> DEFINE next == [proc[p] EXCEPT !.step = "writing", !.mine = mine, !.run = None,
                                   !.stage = "begin", !.items = NoRecords]
<1>1. next \in Commands /\ next.step = "writing" /\ next.mine = mine /\ next.mode = proc[p].mode
  BY IdleIsACommand DEF TypeOK, Commands, Step, Stage
<1>2. proc' = [proc EXCEPT ![p] = next]
  BY DEF WritesDown, TypeOK, Commands
<1> QED
  BY <1>1, <1>2 DEF TypeOK

\* A command raises.
LEMMA Raising ==
  ASSUME TypeOK, NEW p \in Process, Raises(p)
  PROVE  /\ proc' \in [Process -> Commands]
         /\ \/ proc'[p] = Idle
            \/ /\ proc'[p].step = "writing" /\ proc'[p].mode = proc[p].mode
               /\ proc[p].mode # "manual"
               /\ proc'[p].mine.last = proc[p].mine.last
               /\ proc'[p].mine.status = "error"
         /\ \A q \in Process : q # p => proc'[q] = proc[q]
<1>1. CASE proc[p].mode = "manual"
  BY <1>1, Ending DEF Raises
<1>2. CASE proc[p].mode # "manual"
  <2> DEFINE mine == [proc[p].mine EXCEPT !.status = "error"]
  <2>1. proc[p].mine \in Schedules
    BY DEF TypeOK, Commands
  <2>2. mine \in Schedules /\ mine.last = proc[p].mine.last /\ mine.status = "error"
    BY <2>1 DEF Schedules, Status
  <2>3. WritesDown(p, mine)
    BY <1>2 DEF Raises
  <2> QED
    BY <2>2, <2>3, <1>2, WritingDown
<1> QED
  BY <1>1, <1>2

\* A command that is interrupted ends, or updates the schedule once more.
LEMMA Interrupting ==
  ASSUME TypeOK, NEW p \in Process, Interrupt(p)
  PROVE  /\ proc' \in [Process -> Commands]
         /\ proc'[p].step \in {"idle", "reading"} /\ proc'[p].mine.last = None
         /\ proc'[p].step = "reading" => proc'[p].mode = "loop"
         /\ \A q \in Process : q # p => proc'[q] = proc[q]
<1>1. CASE Ends(p)
  BY <1>1, Ending, IdleIsACommand
<1>2. CASE proc' = [proc EXCEPT ![p] = [Idle EXCEPT !.step = "reading", !.mode = "loop",
                                                    !.mine.status = "stopped"]]
  BY <1>2 DEF TypeOK, Idle, Commands, Fresh, Schedules, Status, Step, Mode, Stage, NoRecords, Records
<1> QED
  BY <1>1, <1>2 DEF Interrupt

\* A schedule is written: the command goes on or ends.
LEMMA Writing ==
  ASSUME TypeOK, NEW p \in Process, WriteSchedule(p)
  PROVE  /\ proc' \in [Process -> Commands]
         /\ \/ proc'[p] = Idle
            \/ /\ proc'[p].step \in {"reading", "locking", "asleep"}
               /\ proc'[p].mode = proc[p].mode
               /\ proc'[p].mine.last = proc[p].mine.last
               /\ proc'[p].step = "locking" => proc[p].mine.status = "running"
         /\ \A q \in Process : q # p => proc'[q] = proc[q]
<1>1. CASE proc' = [proc EXCEPT ![p].step = "reading", ![p].mine.status = "running"]
  <2> DEFINE mine == [proc[p].mine EXCEPT !.status = "running"]
             next == [proc[p] EXCEPT !.step = "reading", !.mine = mine]
  <2>1. mine \in Schedules /\ mine.last = proc[p].mine.last
    BY DEF TypeOK, Commands, Schedules, Status
  <2>2. next \in Commands /\ next.step = "reading" /\ next.mode = proc[p].mode /\ next.mine = mine
    BY <2>1 DEF TypeOK, Commands, Step
  <2>3. proc' = [proc EXCEPT ![p] = next]
    BY <1>1 DEF TypeOK, Commands
  <2> QED
    BY <2>1, <2>2, <2>3 DEF TypeOK
<1>2. CASE GoTo(p, "locking") /\ proc[p].mine.status = "running"
  <2>1. "locking" \in Step
    BY DEF Step
  <2> DEFINE next == [proc[p] EXCEPT !.step = "locking"]
  <2>2. next.step = "locking" /\ next.mode = proc[p].mode /\ next.mine = proc[p].mine
    BY DEF TypeOK, Commands
  <2>3. proc' \in [Process -> Commands] /\ proc'[p] = next /\ \A q \in Process : q # p => proc'[q] = proc[q]
    BY <1>2, <2>1, Moves
  <2> QED
    BY <1>2, <2>2, <2>3
<1>3. CASE GoTo(p, "asleep")
  <2>1. "asleep" \in Step
    BY DEF Step
  <2> DEFINE next == [proc[p] EXCEPT !.step = "asleep"]
  <2>2. next.step = "asleep" /\ next.mode = proc[p].mode /\ next.mine = proc[p].mine
    BY DEF TypeOK, Commands
  <2>3. proc' \in [Process -> Commands] /\ proc'[p] = next /\ \A q \in Process : q # p => proc'[q] = proc[q]
    BY <1>3, <2>1, Moves
  <2> QED
    BY <1>3, <2>2, <2>3
<1>4. CASE Ends(p)
  BY <1>4, Ending
<1> QED
  BY <1>1, <1>2, <1>3, <1>4 DEF WriteSchedule

\* A dream run gets its id.
LEMMA Beginning ==
  ASSUME TypeOK, NEW p \in Process, LeaseWrite(p)
  PROVE  /\ proc' \in [Process -> Commands] /\ used' \in Run
         /\ proc'[p].step = "leased" /\ proc'[p].run = used' /\ proc'[p].mode = proc[p].mode
         /\ proc'[p].stage = "begin" /\ proc'[p].mine = proc[p].mine
         /\ \A q \in Process : q # p => proc'[q] = proc[q]
<1> DEFINE next == [proc[p] EXCEPT !.step = "leased", !.run = used', !.stage = "begin"]
<1>1. used' \in Run
  BY DEF LeaseWrite, TypeOK, Run
<1>2. /\ next \in Commands /\ next.step = "leased" /\ next.run = used'
      /\ next.mode = proc[p].mode /\ next.stage = "begin" /\ next.mine = proc[p].mine
  BY <1>1 DEF TypeOK, Commands, Step, Stage
<1>3. proc' = [proc EXCEPT ![p] = next]
  BY DEF LeaseWrite, TypeOK, Commands
<1> QED
  BY <1>1, <1>2, <1>3 DEF TypeOK

\* A repository is read.
LEMMA Listing ==
  ASSUME TypeOK, NEW p \in Process, List(p)
  PROVE  /\ proc' \in [Process -> Commands]
         /\ proc'[p].step = "listed" /\ proc'[p].items = store[Target[proc[p].stage]]
         /\ proc'[p].run = proc[p].run /\ proc'[p].mode = proc[p].mode
         /\ proc'[p].stage = proc[p].stage /\ proc'[p].mine = proc[p].mine
         /\ \A q \in Process : q # p => proc'[q] = proc[q]
<1> DEFINE items == store[Target[proc[p].stage]]
           next  == [proc[p] EXCEPT !.step = "listed", !.items = items]
<1>1. items \in Records
  BY DEF TypeOK, Commands, Stage, Target, Repository
<1>2. /\ next \in Commands /\ next.step = "listed" /\ next.items = items /\ next.run = proc[p].run
      /\ next.mode = proc[p].mode /\ next.stage = proc[p].stage /\ next.mine = proc[p].mine
  BY <1>1 DEF TypeOK, Commands, Step
<1>3. proc' = [proc EXCEPT ![p] = next]
  BY DEF List, TypeOK, Commands
<1> QED
  BY <1>2, <1>3 DEF TypeOK

\* A repository is replaced.
LEMMA Replacing ==
  ASSUME TypeOK, NEW p \in Process, Replace(p)
  PROVE  /\ proc' \in [Process -> Commands]
         /\ proc'[p].step = IF proc[p].stage = "finish" THEN "leaving" ELSE "leased"
         /\ proc'[p].stage = After[proc[p].stage]
         /\ proc'[p].run = proc[p].run /\ proc'[p].mode = proc[p].mode
         /\ proc'[p].mine = proc[p].mine
         /\ \A q \in Process : q # p => proc'[q] = proc[q]
<1> DEFINE step == IF proc[p].stage = "finish" THEN "leaving" ELSE "leased"
           next == [proc[p] EXCEPT !.stage = After[proc[p].stage], !.items = NoRecords, !.step = step]
<1>1. After[proc[p].stage] \in Stage
  BY DEF TypeOK, Commands, Stage, After
<1>2. /\ next \in Commands /\ next.step = step /\ next.stage = After[proc[p].stage]
      /\ next.run = proc[p].run /\ next.mode = proc[p].mode /\ next.mine = proc[p].mine
  BY <1>1, IdleIsACommand DEF TypeOK, Commands, Step
<1>3. proc' = [proc EXCEPT ![p] = next]
  BY DEF Replace, TypeOK, Commands
<1> QED
  BY <1>2, <1>3 DEF TypeOK

LEMMA TypeStep == TypeOK /\ [Next]_vars => TypeOK'
<1> SUFFICES ASSUME TypeOK, [Next]_vars PROVE TypeOK'
  OBVIOUS
<1> USE DEF history
<1>1. CASE UNCHANGED vars
  BY <1>1 DEF vars, TypeOK
<1>2. CASE LeaseExpires
  BY <1>2 DEF LeaseExpires, TypeOK
<1>3. ASSUME NEW p \in Process, Starts(p) PROVE TypeOK'
  <2>1. PICK mode \in ModesOf[p] : Start(p, mode)
    BY <1>3 DEF Starts
  <2>2. mode \in Mode
    OBVIOUS
  <2>3. proc' \in [Process -> Commands]
    BY <2>1, <2>2 DEF Start, TypeOK, Idle, Commands, Fresh, Schedules, Status, Step, Stage,
       NoRecords, Records, Mode
  <2> QED
    BY <2>1, <2>3 DEF Start, TypeOK
<1>4. ASSUME NEW p \in Process, ReadSchedule(p) PROVE TypeOK'
  <2>1. PICK read \in SchedulesRead(p) : WritesDown(p, [read EXCEPT !.status = proc[p].mine.status])
    BY <1>4 DEF ReadSchedule
  <2>2. read \in Schedules
    BY <2>1 DEF SchedulesRead, TypeOK, Schedules, Status
  <2>3. [read EXCEPT !.status = proc[p].mine.status] \in Schedules
    BY <2>2 DEF TypeOK, Commands, Schedules
  <2>4. proc' \in [Process -> Commands]
    BY <2>1, <2>3, WritingDown
  <2> QED
    BY <1>4, <2>4 DEF ReadSchedule, TypeOK
<1>5. ASSUME NEW p \in Process, WriteSchedule(p) PROVE TypeOK'
  <2>1. proc[p].mine \in Schedules
    BY DEF TypeOK, Commands
  <2>2. proc' \in [Process -> Commands]
    BY <1>5, Writing
  <2>3. newest' \in Run \cup {None}
    BY <1>5, <2>1 DEF WriteSchedule, TypeOK, Schedules
  <2> QED
    BY <1>5, <2>1, <2>2, <2>3 DEF WriteSchedule, TypeOK
<1>6. ASSUME NEW p \in Process, Wake(p) \/ CheckLease(p) PROVE TypeOK'
  BY <1>6 DEF Wake, CheckLease, GoTo, TypeOK, Commands, Schedules, Status, Step
<1>7. ASSUME NEW p \in Process, Conflict(p) PROVE TypeOK'
  BY <1>7, Raising DEF Conflict, TypeOK
<1>8. ASSUME NEW p \in Process, LeaseWrite(p) PROVE TypeOK'
  <2>1. used' \in 0..MaxRuns
    BY <1>8, Beginning DEF Run
  <2> QED
    BY <1>8, <2>1, Beginning DEF LeaseWrite, TypeOK
<1>9. ASSUME NEW p \in Process, LeaseRelease(p) PROVE TypeOK'
  <2>1. [status |-> "idle", last |-> proc[p].run] \in Schedules
    BY DEF TypeOK, Commands, Schedules, Status
  <2>2. proc' \in [Process -> Commands]
    BY <1>9, <2>1, Ending, WritingDown DEF LeaseRelease
  <2> QED
    BY <1>9, <2>2 DEF LeaseRelease, TypeOK
<1>10. ASSUME NEW p \in Process, List(p) PROVE TypeOK'
  BY <1>10, Listing DEF List, TypeOK
<1>11. ASSUME NEW p \in Process, Replace(p) PROVE TypeOK'
  <2>1. Upserted(p) \in Records
    BY DEF Upserted, Records, TypeOK, Commands
  <2>3. proc' \in [Process -> Commands]
    BY <1>11, Replacing
  <2>4. store' \in [Repository -> Records]
    BY <1>11, <2>1 DEF Replace, TypeOK
  <2> QED
    BY <1>11, <2>3, <2>4 DEF Replace, TypeOK
<1>12. ASSUME NEW p \in Process, Fails(p) PROVE TypeOK'
  BY <1>12, Raising DEF Fails, Faulty, TypeOK
<1>13. ASSUME NEW p \in Process, Interrupt(p) PROVE TypeOK'
  <2>1. proc' \in [Process -> Commands]
    BY <1>13, Interrupting
  <2> QED
    BY <1>13, <2>1 DEF Interrupt, Faulty, Cut, TypeOK
<1>14. ASSUME NEW p \in Process, Stop(p) PROVE TypeOK'
  BY <1>14, Ending DEF Stop, Faulty, Cut, TypeOK
<1> QED
  BY <1>1, <1>2, <1>3, <1>4, <1>5, <1>6, <1>7, <1>8, <1>9, <1>10, <1>11, <1>12, <1>13, <1>14
  DEF Next, Works

-----------------------------------------------------------------------------
(* The lease keeps the records together                                    *)

Together == LeaseInv /\ LastRunHasItsDiary /\ NoOrphans

\* A step outside the lease changes nothing but the schedules, which go on to
\* name completed runs.
LEMMA OutsideTheLease ==
  ASSUME TypeOK, TypeOK', Together, NEW p \in Process,
         \A q \in Process : q # p => proc'[q] = proc[q],
         UNCHANGED <<store, used, overlapped>>,
         proc'[p].step \notin {"leased", "listed", "leaving"},
         ~overlapped => (proc'[p].mine.last # None => Completed(proc'[p].mine.last)),
         ~overlapped => (schedule'.last # None => Completed(schedule'.last))
  PROVE  Together'
<1> USE DEF Together, LeaseInv, InLease, Completed, At
<1> SUFFICES ASSUME ~overlapped' PROVE Together'
  BY DEF LastRunHasItsDiary, NoOrphans
<1>1. \A q \in Process : InLease(q)' => InLease(q) /\ q # p
  OBVIOUS
<1>2. (LastRunHasItsDiary /\ NoOrphans)'
  BY DEF LastRunHasItsDiary, NoOrphans, HasDiary
<1>3. (\A q, r \in Process : InLease(q) /\ InLease(r) => q = r)'
  BY <1>1
<1>4. (\A q \in Process : proc[q].mine.last # None => Completed(proc[q].mine.last))'
  OBVIOUS
<1>5. (\A q \in Process : At(q, "listed") => proc[q].items = store[Target[proc[q].stage]])'
  OBVIOUS
<1>6. (\A q \in Process : InLease(q) =>
              /\ proc[q].run \in Run /\ proc[q].run <= used
              /\ proc[q].stage = "begin" <=> store.runs[proc[q].run] = "absent"
              /\ proc[q].stage \in {"diary", "finish"} => store.insights[proc[q].run] # "absent"
              /\ proc[q].stage = "finish" => store.diaries[proc[q].run] # "absent")'
  BY <1>1
<1>7. (\A q \in Process : At(q, "leaving") => Completed(proc[q].run))'
  OBVIOUS
<1> QED
  BY <1>2, <1>3, <1>4, <1>5, <1>6, <1>7

LEMMA LeaseStep == TypeOK /\ TypeOK' /\ Together /\ [Next]_vars => Together'
<1> SUFFICES ASSUME TypeOK, TypeOK', Together, [Next]_vars PROVE Together'
  OBVIOUS
<1> USE DEF history, At
<1>0. /\ ~overlapped => \A q \in Process : proc[q].mine.last # None => Completed(proc[q].mine.last)
      /\ ~overlapped => (schedule.last # None => Completed(schedule.last))
      /\ Torn.last = None
  BY DEF Together, LeaseInv, Torn
<1>1. CASE UNCHANGED vars
  BY <1>1 DEF vars, Together, LeaseInv, LastRunHasItsDiary, NoOrphans, InLease, Completed, HasDiary
<1>2. CASE LeaseExpires
  BY <1>2 DEF LeaseExpires, Together, LeaseInv, LastRunHasItsDiary, NoOrphans, InLease, Completed,
     HasDiary
<1>3. ASSUME NEW p \in Process, Starts(p) PROVE Together'
  <2>1. PICK mode \in ModesOf[p] : Start(p, mode)
    BY <1>3 DEF Starts
  <2>2. /\ proc'[p].mine.last = None /\ proc'[p].step \in {"locking", "reading"}
        /\ \A q \in Process : q # p => proc'[q] = proc[q]
    BY <2>1 DEF Start, TypeOK, Idle, Fresh
  <2> QED
    BY <1>0, <2>1, <2>2, OutsideTheLease DEF Start
<1>4. ASSUME NEW p \in Process, ReadSchedule(p) PROVE Together'
  <2>1. PICK read \in SchedulesRead(p) : WritesDown(p, [read EXCEPT !.status = proc[p].mine.status])
    BY <1>4 DEF ReadSchedule
  <2> DEFINE mine == [read EXCEPT !.status = proc[p].mine.status]
  <2>2. read \in Schedules /\ read.last \in {None, schedule.last}
    BY <2>1 DEF SchedulesRead, TypeOK, Schedules, Status
  <2>3. mine \in Schedules /\ mine.last = read.last
    BY <2>2 DEF TypeOK, Commands, Schedules
  <2>4. /\ proc'[p].step = "writing" /\ proc'[p].mine = mine
        /\ \A q \in Process : q # p => proc'[q] = proc[q]
    BY <2>1, <2>3, WritingDown
  <2> QED
    BY <1>4, <1>0, <2>2, <2>3, <2>4, OutsideTheLease DEF ReadSchedule
<1>5. ASSUME NEW p \in Process, WriteSchedule(p) PROVE Together'
  <2>1. /\ proc'[p] = Idle \/ proc'[p].step \in {"reading", "locking", "asleep"}
        /\ proc'[p].mine.last \in {None, proc[p].mine.last}
        /\ \A q \in Process : q # p => proc'[q] = proc[q]
    BY <1>5, Writing, IdleIsACommand
  <2>2. schedule' = proc[p].mine /\ UNCHANGED <<store, used, overlapped>>
    BY <1>5 DEF WriteSchedule
  <2> QED
    BY <1>0, <2>1, <2>2, OutsideTheLease, IdleIsACommand
<1>6. ASSUME NEW p \in Process, Wake(p) \/ CheckLease(p) PROVE Together'
  <2>1. /\ proc'[p].step \in {"reading", "free"} /\ proc'[p].mine.last = proc[p].mine.last
        /\ \A q \in Process : q # p => proc'[q] = proc[q]
    BY <1>6 DEF Wake, CheckLease, GoTo, TypeOK, Commands, Schedules
  <2> QED
    BY <1>6, <1>0, <2>1, OutsideTheLease DEF Wake, CheckLease
<1>7. ASSUME NEW p \in Process, Conflict(p) \/ Fails(p) PROVE Together'
  <2>1. /\ proc'[p].step \in {"idle", "writing"}
        /\ proc'[p].mine.last \in {None, proc[p].mine.last}
        /\ \A q \in Process : q # p => proc'[q] = proc[q]
    BY <1>7, Raising, IdleIsACommand DEF Conflict, Fails
  <2> QED
    BY <1>7, <1>0, <2>1, OutsideTheLease DEF Conflict, Fails
<1>8. ASSUME NEW p \in Process, Interrupt(p) \/ Stop(p) PROVE Together'
  <2>1. /\ proc'[p].step \in {"idle", "reading"} /\ proc'[p].mine.last = None
        /\ \A q \in Process : q # p => proc'[q] = proc[q]
    BY <1>8, Interrupting, Ending, IdleIsACommand DEF Stop
  <2>2. schedule' \in {schedule, Torn} /\ UNCHANGED <<store, used, overlapped>>
    BY <1>8 DEF Interrupt, Stop, Cut
  <2> QED
    BY <1>0, <2>1, <2>2, OutsideTheLease
<1>9. ASSUME NEW p \in Process, LeaseRelease(p) PROVE Together'
  <2>1. [status |-> "idle", last |-> proc[p].run] \in Schedules
    BY DEF TypeOK, Commands, Schedules, Status
  <2>2. /\ proc'[p].step \in {"idle", "writing"}
        /\ proc'[p].mine.last \in {None, proc[p].run}
        /\ \A q \in Process : q # p => proc'[q] = proc[q]
    BY <1>9, <2>1, Ending, WritingDown, IdleIsACommand DEF LeaseRelease
  <2>3. ~overlapped => Completed(proc[p].run)
    BY <1>9 DEF LeaseRelease, Together, LeaseInv
  <2> QED
    BY <1>9, <1>0, <2>2, <2>3, OutsideTheLease DEF LeaseRelease
<1>10. ASSUME NEW p \in Process, LeaseWrite(p) PROVE Together'
  <2> SUFFICES ASSUME ~overlapped' PROVE Together'
    BY DEF Together, LeaseInv, LastRunHasItsDiary, NoOrphans
  <2>1. /\ proc'[p].step = "leased" /\ proc'[p].run = used' /\ proc'[p].stage = "begin"
        /\ proc'[p].mine = proc[p].mine /\ used' \in Run
        /\ \A q \in Process : q # p => proc'[q] = proc[q]
    BY <1>10, Beginning
  <2>2. /\ ~(overlapped \/ \E q \in Process \ {p} : InLease(q))
        /\ used' = used + 1 /\ UNCHANGED <<store, schedule>>
    BY <1>10 DEF LeaseWrite
  <2>9. used \in Nat /\ ~overlapped /\ \A q \in Process : q # p => ~InLease(q)
    BY <2>2 DEF TypeOK
  <2>3. \A r \in Run : r > used => store.runs[r] = "absent"
    BY <2>2, <2>9 DEF Together, LeaseInv
  <2>4. store.runs[used'] = "absent"
    BY <2>1, <2>2, <2>9, <2>3
  <2>5. (LastRunHasItsDiary /\ NoOrphans)'
    BY <2>2, <2>9 DEF Together, LastRunHasItsDiary, NoOrphans, Completed, HasDiary
  <2>6. \A q \in Process : InLease(q)' => q = p
    BY <2>1, <2>2, <2>9 DEF InLease
  <2>7. \A r \in Run : r > used' => store.runs[r] = "absent"
    BY <2>2, <2>9, <2>3 DEF Run
  <2>8. LeaseInv'
    BY <2>1, <2>2, <2>9, <2>4, <2>6, <2>7 DEF Together, LeaseInv, InLease, Completed
  <2> QED
    BY <2>5, <2>8 DEF Together
<1>11. ASSUME NEW p \in Process, List(p) PROVE Together'
  <2>1. /\ proc[p].step = "leased" /\ proc'[p].step = "listed"
        /\ proc'[p].items = store[Target[proc[p].stage]]
        /\ proc'[p].run = proc[p].run /\ proc'[p].stage = proc[p].stage
        /\ proc'[p].mine = proc[p].mine
        /\ \A q \in Process : q # p => proc'[q] = proc[q]
    BY <1>11, Listing DEF List
  <2>2. UNCHANGED <<store, used, schedule, overlapped>>
    BY <1>11 DEF List
  <2>3. (LastRunHasItsDiary /\ NoOrphans)'
    BY <2>2 DEF Together, LastRunHasItsDiary, NoOrphans, Completed, HasDiary
  <2>4. LeaseInv'
    BY <2>1, <2>2 DEF Together, LeaseInv, InLease, Completed
  <2> QED
    BY <2>3, <2>4 DEF Together
<1>12. ASSUME NEW p \in Process, Replace(p) PROVE Together'
  <2> DEFINE run == proc[p].run
             stage == proc[p].stage
             value == IF stage = "finish" THEN "complete" ELSE "stored"
  <2> SUFFICES ASSUME ~overlapped' PROVE Together'
    BY DEF Together, LeaseInv, LastRunHasItsDiary, NoOrphans
  <2>1. /\ proc[p].step = "listed"
        /\ proc'[p].step = IF stage = "finish" THEN "leaving" ELSE "leased"
        /\ proc'[p].stage = After[stage] /\ proc'[p].run = run
        /\ proc'[p].mine = proc[p].mine
        /\ \A q \in Process : q # p => proc'[q] = proc[q]
    BY <1>12, Replacing DEF Replace
  <2>2. ~overlapped /\ UNCHANGED <<used, schedule, overlapped>>
    BY <1>12 DEF Replace
  <2>3. /\ run \in Run /\ run <= used /\ stage \in Stage
        /\ stage = "begin" <=> store.runs[run] = "absent"
        /\ stage \in {"diary", "finish"} => store.insights[run] # "absent"
        /\ stage = "finish" => store.diaries[run] # "absent"
        /\ proc[p].items = store[Target[stage]]
    BY <2>1, <2>2 DEF Together, LeaseInv, InLease, TypeOK, Commands
  <2>11. \/ stage = "begin" /\ Target[stage] = "runs" /\ After[stage] = "insights"
         \/ stage = "insights" /\ Target[stage] = "insights" /\ After[stage] = "diary"
         \/ stage = "diary" /\ Target[stage] = "diaries" /\ After[stage] = "finish"
         \/ stage = "finish" /\ Target[stage] = "runs" /\ After[stage] = "finish"
    BY <2>3 DEF Stage, Target, After
  <2>4. /\ Target[stage] \in Repository /\ store \in [Repository -> [Run -> {"absent", "stored", "complete"}]]
        /\ store' = [store EXCEPT ![Target[stage]] = [store[Target[stage]] EXCEPT ![run] = value]]
    BY <1>12, <2>3 DEF Replace, Upserted, Target, Stage, Repository, TypeOK, Records
  <2>5. \A repository \in Repository : \A r \in Run :
          store'[repository][r] = IF repository = Target[stage] /\ r = run THEN value
                                  ELSE store[repository][r]
    BY <2>3, <2>4
  <2>6. \A q \in Process : InLease(q) => q = p
    BY <2>1, <2>2 DEF Together, LeaseInv, InLease
  <2>7. \A r \in Run : Completed(r) => Completed(r)'
    BY <2>3, <2>5, <2>11 DEF Completed, Repository
  <2>8. LastRunHasItsDiary'
    <3>1. \A r \in Run : Completed(r)' => Completed(r) \/ (r = run /\ stage = "finish")
      BY <2>5, <2>11 DEF Completed, Repository
    <3>2. \A r \in Run : HasDiary(r) => HasDiary(r)'
      BY <2>3, <2>5 DEF HasDiary, Repository
    <3>3. stage = "finish" => HasDiary(run)
      BY <2>3 DEF HasDiary
    <3>4. schedule.last # None => schedule.last \in Run
      BY DEF TypeOK, Schedules, Torn
    <3> QED
      BY <2>2, <2>3, <2>7, <3>1, <3>2, <3>3, <3>4 DEF Together, LastRunHasItsDiary
  <2>9. NoOrphans'
    BY <2>2, <2>3, <2>5 DEF Together, NoOrphans, Repository, Target, Stage
  <2>10. LeaseInv'
    <3>1. \A q \in Process : InLease(q)' => q = p
      BY <2>1, <2>6 DEF InLease
    <3>2. \A r \in Run : r > used => store'.runs[r] = "absent"
      BY <2>2, <2>3, <2>5 DEF Together, LeaseInv, Repository, TypeOK, Run
    <3>3. /\ schedule.last # None => store'.runs[schedule.last] = "complete"
          /\ \A q \in Process : proc'[q].mine.last # None => store'.runs[proc'[q].mine.last] = "complete"
      <4>1. /\ schedule.last # None => schedule.last \in Run
            /\ \A q \in Process : proc'[q].mine.last = proc[q].mine.last
            /\ \A q \in Process : proc[q].mine.last \in Run \cup {None}
        BY <2>1 DEF TypeOK, Commands, Schedules, Torn
      <4>2. /\ schedule.last # None => Completed(schedule.last)
            /\ \A q \in Process : proc[q].mine.last # None => Completed(proc[q].mine.last)
        BY <2>2 DEF Together, LeaseInv
      <4> QED
        BY <2>7, <4>1, <4>2 DEF Completed
    <3>4. \A q \in Process : proc'[q].step # "listed"
      BY <2>1, <2>6 DEF InLease
    <3>5. /\ After[stage] = "begin" <=> store'.runs[run] = "absent"
          /\ After[stage] \in {"diary", "finish"} => store'.insights[run] # "absent"
          /\ After[stage] = "finish" => store'.diaries[run] # "absent"
          /\ stage = "finish" => store'.runs[run] = "complete"
      BY <2>3, <2>5, <2>11 DEF Repository, Completed
    <3>6. \A q \in Process : proc'[q].step = "leaving" => q = p /\ stage = "finish"
      BY <2>1, <2>6 DEF InLease
    <3> QED
      BY <2>1, <2>2, <2>3, <3>1, <3>2, <3>3, <3>4, <3>5, <3>6 DEF LeaseInv, InLease, Completed
  <2> QED
    BY <2>8, <2>9, <2>10 DEF Together
<1> QED
  BY <1>1, <1>2, <1>3, <1>4, <1>5, <1>6, <1>7, <1>8, <1>9, <1>10, <1>11, <1>12 DEF Next, Works

-----------------------------------------------------------------------------
(* One dream after the other                                               *)

\* Where the records of a run are, in cases.
LEMMA WhereARunIs ==
  ASSUME TypeOK, Together, Serial, ~overlapped, NEW r \in Run
  PROVE  /\ Reached(r) = "begin" <=> store.runs[r] = "absent"
         /\ Reached(r) = "insights" <=>
              store.runs[r] = "stored" /\ store.insights[r] = "absent"
         /\ Reached(r) = "diary" <=>
              /\ store.runs[r] = "stored"
              /\ store.insights[r] # "absent" /\ store.diaries[r] = "absent"
         /\ Reached(r) = "finish" <=>
              /\ store.runs[r] = "stored"
              /\ store.insights[r] # "absent" /\ store.diaries[r] # "absent"
         /\ Reached(r) = "done" <=> store.runs[r] = "complete"
<1>1. store.runs[r] \in {"absent", "stored", "complete"}
  BY DEF TypeOK, Repository, Records
<1>2. CASE store.runs[r] = "absent"
  BY <1>2 DEF Reached
<1>3. CASE store.runs[r] = "complete"
  BY <1>3 DEF Reached
<1>4. CASE store.runs[r] = "stored"
  BY <1>4 DEF Reached
<1> QED
  BY <1>1, <1>2, <1>3, <1>4

\* The record that is stored is the next one of the last run.
LEMMA Storing ==
  ASSUME TypeOK, TypeOK', Together, Serial, ~overlapped, NEW p \in Process, Replace(p)
  PROVE  /\ used \in Run /\ used' = used
         /\ proc[p].run = used /\ Reached(used) = proc[p].stage /\ proc[p].stage \in Stage
         /\ \A r \in Run \ {used} : Reached(r)' = Reached(r)
         /\ Reached(used)' = IF proc[p].stage = "finish" THEN "done" ELSE After[proc[p].stage]
         /\ \A r \in Run : store'.diaries[r] # "absent" => store'.insights[r] # "absent"
<1> DEFINE stage == proc[p].stage
           value == IF stage = "finish" THEN "complete" ELSE "stored"
<1>1. proc[p].step = "listed" /\ InLease(p)
  BY DEF Replace, At, InLease
<1>2. /\ proc[p].run = used /\ used \in Run /\ stage \in Stage
      /\ Reached(used) = stage /\ proc[p].items = store[Target[stage]] /\ used' = used
  BY <1>1 DEF Replace, Serial, Together, LeaseInv, At, TypeOK, Commands
<1>3. \/ stage = "begin" /\ Target[stage] = "runs" /\ After[stage] = "insights"
      \/ stage = "insights" /\ Target[stage] = "insights" /\ After[stage] = "diary"
      \/ stage = "diary" /\ Target[stage] = "diaries" /\ After[stage] = "finish"
      \/ stage = "finish" /\ Target[stage] = "runs" /\ After[stage] = "finish"
  BY <1>2 DEF Stage, Target, After
<1>4. /\ Target[stage] \in Repository /\ store \in [Repository -> [Run -> {"absent", "stored", "complete"}]]
      /\ store' = [store EXCEPT ![Target[stage]] = [store[Target[stage]] EXCEPT ![used] = value]]
  BY <1>2, <1>3 DEF Replace, Upserted, Repository, TypeOK, Records
<1>5. \A repository \in Repository : \A r \in Run :
        store'[repository][r] = IF repository = Target[stage] /\ r = used THEN value
                                ELSE store[repository][r]
  BY <1>2, <1>4
<1>6. \A r \in Run \ {used} : /\ store'.runs[r] = store.runs[r]
                             /\ store'.insights[r] = store.insights[r]
                             /\ store'.diaries[r] = store.diaries[r]
  BY <1>5 DEF Repository
<1>7. \A r \in Run \ {used} : Reached(r)' = Reached(r)
  BY <1>6 DEF Reached
<1>8. /\ store'.runs[used] = IF stage \in {"begin", "finish"} THEN value ELSE store.runs[used]
      /\ store'.insights[used] = IF stage = "insights" THEN value ELSE store.insights[used]
      /\ store'.diaries[used] = IF stage = "diary" THEN value ELSE store.diaries[used]
  BY <1>2, <1>3, <1>5 DEF Repository
<1>9. /\ store.runs[used] = "absent" => store.insights[used] = "absent" /\ store.diaries[used] = "absent"
      /\ store.diaries[used] # "absent" => store.insights[used] # "absent"
  BY <1>2 DEF Together, NoOrphans, Serial, Repository
<1>10. CASE stage = "begin"
  <2>1. store.runs[used] = "absent"
    BY <1>2, <1>10, WhereARunIs
  <2> QED
    BY <1>2, <1>3, <1>6, <1>7, <1>8, <1>9, <1>10, <2>1 DEF Reached, Serial
<1>11. CASE stage = "insights"
  <2>1. store.runs[used] = "stored" /\ store.insights[used] = "absent"
    BY <1>2, <1>11, WhereARunIs
  <2> QED
    BY <1>2, <1>3, <1>6, <1>7, <1>8, <1>9, <1>11, <2>1 DEF Reached, Serial
<1>12. CASE stage = "diary"
  <2>1. /\ store.runs[used] = "stored"
        /\ store.insights[used] # "absent" /\ store.diaries[used] = "absent"
    BY <1>2, <1>12, WhereARunIs
  <2> QED
    BY <1>2, <1>3, <1>6, <1>7, <1>8, <1>9, <1>12, <2>1 DEF Reached, Serial
<1>13. CASE stage = "finish"
  BY <1>2, <1>3, <1>6, <1>7, <1>8, <1>9, <1>13 DEF Reached, Serial
<1> QED
  BY <1>3, <1>10, <1>11, <1>12, <1>13

\* A step that stores nothing and leaves the process outside the lease.
LEMMA SerialOutside ==
  ASSUME Serial, NEW p \in Process,
         \A q \in Process : q # p => proc'[q] = proc[q],
         UNCHANGED <<store, used, overlapped>>,
         proc'[p].step \notin {"leased", "listed", "leaving"}
  PROVE  Serial'
BY DEF Serial, InLease, At, Reached

\* A step outside the lease, by what it leaves alone.
LEMMA OutsideSteps ==
  ASSUME TypeOK, NEW p \in Process,
         \/ Starts(p) \/ ReadSchedule(p) \/ WriteSchedule(p) \/ Wake(p)
         \/ CheckLease(p) \/ Conflict(p) \/ LeaseRelease(p)
         \/ Fails(p) \/ Interrupt(p) \/ Stop(p)
  PROVE  /\ \A q \in Process : q # p => proc'[q] = proc[q]
         /\ UNCHANGED <<store, used, overlapped>>
         /\ proc'[p].step \notin {"leased", "listed", "leaving"}
<1> USE DEF history
<1>1. CASE Starts(p)
  <2>1. PICK mode \in ModesOf[p] : Start(p, mode)
    BY <1>1 DEF Starts
  <2>2. /\ proc'[p].step \in {"locking", "reading"}
        /\ \A q \in Process : q # p => proc'[q] = proc[q]
    BY <2>1 DEF Start, TypeOK, Idle, Fresh
  <2> QED
    BY <2>1, <2>2 DEF Start
<1>2. CASE ReadSchedule(p)
  <2>1. PICK read \in SchedulesRead(p) : WritesDown(p, [read EXCEPT !.status = proc[p].mine.status])
    BY <1>2 DEF ReadSchedule
  <2>2. read \in Schedules
    BY <2>1 DEF SchedulesRead, TypeOK, Schedules, Status
  <2>3. [read EXCEPT !.status = proc[p].mine.status] \in Schedules
    BY <2>2 DEF TypeOK, Commands, Schedules
  <2> QED
    BY <1>2, <2>1, <2>3, WritingDown DEF ReadSchedule
<1>3. CASE WriteSchedule(p)
  <2>1. proc'[p].step \in {"idle", "reading", "locking", "asleep"}
    BY <1>3, Writing, IdleIsACommand
  <2> QED
    BY <1>3, <2>1, Writing DEF WriteSchedule
<1>4. CASE Wake(p) \/ CheckLease(p)
  BY <1>4 DEF Wake, CheckLease, GoTo, TypeOK, Commands
<1>5. CASE Conflict(p) \/ Fails(p)
  <2>1. proc'[p].step \in {"idle", "writing"}
    BY <1>5, Raising, IdleIsACommand DEF Conflict, Fails
  <2> QED
    BY <1>5, <2>1, Raising DEF Conflict, Fails
<1>6. CASE LeaseRelease(p)
  <2>1. [status |-> "idle", last |-> proc[p].run] \in Schedules
    BY DEF TypeOK, Commands, Schedules, Status
  <2>2. proc'[p].step \in {"idle", "writing"} /\ \A q \in Process : q # p => proc'[q] = proc[q]
    BY <1>6, <2>1, Ending, WritingDown, IdleIsACommand DEF LeaseRelease
  <2> QED
    BY <1>6, <2>2 DEF LeaseRelease
<1>7. CASE Interrupt(p) \/ Stop(p)
  <2>1. proc'[p].step \in {"idle", "reading"} /\ \A q \in Process : q # p => proc'[q] = proc[q]
    BY <1>7, Interrupting, Ending, IdleIsACommand DEF Stop
  <2> QED
    BY <1>7, <2>1 DEF Interrupt, Stop
<1> QED
  BY <1>1, <1>2, <1>3, <1>4, <1>5, <1>6, <1>7

LEMMA SerialStep == TypeOK /\ TypeOK' /\ Together /\ Serial /\ [Next]_vars => Serial'
<1> SUFFICES ASSUME TypeOK, TypeOK', Together, Serial, [Next]_vars PROVE Serial'
  OBVIOUS
<1> USE DEF history
<1>1. CASE UNCHANGED vars
  BY <1>1 DEF vars, Serial, InLease, At, Reached
<1>2. CASE LeaseExpires
  BY <1>2 DEF LeaseExpires, Serial, InLease, At, Reached
<1>3. ASSUME NEW p \in Process,
             \/ Starts(p) \/ ReadSchedule(p) \/ WriteSchedule(p) \/ Wake(p)
             \/ CheckLease(p) \/ Conflict(p) \/ LeaseRelease(p)
             \/ Fails(p) \/ Interrupt(p) \/ Stop(p)
      PROVE  Serial'
  BY <1>3, OutsideSteps, SerialOutside
<1>4. ASSUME NEW p \in Process, LeaseWrite(p) PROVE Serial'
  <2> SUFFICES ASSUME ~overlapped' PROVE Serial'
    BY DEF Serial
  <2>1. /\ proc'[p].step = "leased" /\ proc'[p].run = used' /\ proc'[p].stage = "begin"
        /\ used' \in Run /\ \A q \in Process : q # p => proc'[q] = proc[q]
    BY <1>4, Beginning
  <2>2. /\ ~(overlapped \/ \E q \in Process \ {p} : InLease(q))
        /\ used' = used + 1 /\ UNCHANGED store
    BY <1>4 DEF LeaseWrite
  <2>3. used \in Nat /\ ~overlapped /\ \A q \in Process : q # p => ~InLease(q)
    BY <2>2 DEF TypeOK
  <2>4. store'.runs[used'] = "absent"
    BY <2>1, <2>2, <2>3 DEF Together, LeaseInv
  <2>5. \A q \in Process : InLease(q)' => q = p
    BY <2>1, <2>3 DEF InLease
  <2>6. Reached(used)' = "begin"
    BY <2>4 DEF Reached
  <2> QED
    BY <2>1, <2>2, <2>3, <2>5, <2>6 DEF Serial
<1>5. ASSUME NEW p \in Process, List(p) PROVE Serial'
  <2>1. /\ proc[p].step = "leased" /\ proc'[p].step = "listed"
        /\ proc'[p].run = proc[p].run /\ proc'[p].stage = proc[p].stage
        /\ \A q \in Process : q # p => proc'[q] = proc[q]
    BY <1>5, Listing DEF List, At
  <2>2. UNCHANGED <<store, used, overlapped>>
    BY <1>5 DEF List
  <2> QED
    BY <2>1, <2>2 DEF Serial, InLease, At, Reached
<1>6. ASSUME NEW p \in Process, Replace(p) PROVE Serial'
  <2> SUFFICES ASSUME ~overlapped' PROVE Serial'
    BY DEF Serial
  <2>1. /\ proc[p].step = "listed"
        /\ proc'[p].step = IF proc[p].stage = "finish" THEN "leaving" ELSE "leased"
        /\ proc'[p].stage = After[proc[p].stage] /\ proc'[p].run = proc[p].run
        /\ \A q \in Process : q # p => proc'[q] = proc[q]
    BY <1>6, Replacing DEF Replace, At
  <2>2. ~overlapped /\ used' = used
    BY <1>6 DEF Replace
  <2>3. \A q \in Process : InLease(q)' => q = p
    BY <2>1, <2>2 DEF Together, LeaseInv, InLease
  <2> QED
    BY <1>6, <2>1, <2>2, <2>3, Storing DEF Serial, At
<1> QED
  BY <1>1, <1>2, <1>3, <1>4, <1>5, <1>6 DEF Next, Works

-----------------------------------------------------------------------------
(* The schedule keeps up                                                   *)

\* What is true of a process that does not overlap with another scheduler.
Current(p) ==
  Scheduled(p) => (At(p, "writing") /\ proc[p].mine.status = "idle") \/ proc[p].mine.last = newest

\* A step that leaves the schedule alone, and either keeps the process between
\* its read and its write or takes it out.
LEMMA ScheduleLeftAlone ==
  ASSUME TypeOK, ScheduleInv, NEW p \in Process,
         \A q \in Process : q # p => proc'[q] = proc[q],
         UNCHANGED <<newest, raced>>,
         schedule' = schedule \/ cut'.schedule, cut.schedule => cut'.schedule,
         proc'[p].step \in {"reading", "writing", "asleep"} => proc'[p].mode # "manual",
         Scheduled(p)' => Scheduled(p) /\ (Current(p) => Current(p)')
  PROVE  ScheduleInv'
<1>1. (\A q \in Process : proc[q].step \in {"reading", "writing", "asleep"} => proc[q].mode # "manual")'
  BY DEF ScheduleInv, At
<1> SUFFICES ASSUME ~raced', ~cut'.schedule PROVE ScheduleInv'
  BY <1>1 DEF ScheduleInv
<1>2. /\ schedule # Torn /\ schedule.last = newest
      /\ \A q, r \in Process : Scheduled(q) /\ Scheduled(r) => q = r
      /\ \A q \in Process : Current(q)
  BY DEF ScheduleInv, Current
<1>3. \A q \in Process : Scheduled(q)' => Scheduled(q)
  BY DEF Scheduled
<1>4. \A q \in Process : Current(q)'
  BY <1>2 DEF Current, Scheduled, At
<1> QED
  BY <1>1, <1>2, <1>3, <1>4 DEF ScheduleInv, Current

LEMMA ScheduleStep == TypeOK /\ TypeOK' /\ ScheduleInv /\ [Next]_vars => ScheduleInv'
<1> SUFFICES ASSUME TypeOK, TypeOK', ScheduleInv, [Next]_vars PROVE ScheduleInv'
  OBVIOUS
<1> USE DEF history, At
<1>1. CASE UNCHANGED vars
  BY <1>1 DEF vars, ScheduleInv, Scheduled
<1>2. CASE LeaseExpires
  BY <1>2 DEF LeaseExpires, ScheduleInv, Scheduled
<1>3. ASSUME NEW p \in Process, Starts(p) PROVE ScheduleInv'
  <2>1. PICK mode \in ModesOf[p] : Start(p, mode)
    BY <1>3 DEF Starts
  <2>2. /\ \/ proc'[p].step = "reading" /\ proc'[p].mode # "manual"
           \/ proc'[p].step = "locking" /\ proc'[p].mode = "manual"
        /\ \A q \in Process : q # p => proc'[q] = proc[q]
    BY <2>1 DEF Start, TypeOK, Idle
  <2> QED
    BY <2>1, <2>2, ScheduleLeftAlone DEF Start, Scheduled
<1>4. ASSUME NEW p \in Process, ReadSchedule(p) PROVE ScheduleInv'
  <2>1. PICK read \in SchedulesRead(p) : WritesDown(p, [read EXCEPT !.status = proc[p].mine.status])
    BY <1>4 DEF ReadSchedule
  <2> DEFINE mine == [read EXCEPT !.status = proc[p].mine.status]
  <2>2. read \in Schedules
    BY <2>1 DEF SchedulesRead, TypeOK, Schedules, Status
  <2>3. mine \in Schedules /\ mine.last = read.last
    BY <2>2 DEF TypeOK, Commands, Schedules
  <2>4. /\ proc'[p].step = "writing" /\ proc'[p].mine = mine /\ proc'[p].mode = proc[p].mode
        /\ \A q \in Process : q # p => proc'[q] = proc[q]
    BY <2>1, <2>3, WritingDown
  <2>5. UNCHANGED <<schedule, newest, cut>> /\ proc[p].step = "reading"
    BY <1>4 DEF ReadSchedule
  <2>6. raced' = (raced \/ \E q \in Process \ {p} : Scheduled(q))
    BY <1>4 DEF ReadSchedule
  <2>7. proc[p].mode # "manual"
    BY <2>5 DEF ScheduleInv
  <2>8. (\A q \in Process : proc[q].step \in {"reading", "writing", "asleep"} => proc[q].mode # "manual")'
    BY <2>4, <2>7 DEF ScheduleInv
  <2>9. ASSUME ~raced', ~cut.schedule
        PROVE  /\ ~raced /\ schedule # Torn /\ schedule.last = newest /\ mine.last = newest
               /\ \A q \in Process : q # p => ~Scheduled(q)
    <3>1. ~(raced \/ \E q \in Process \ {p} : Scheduled(q))
      BY <2>6, <2>9
    <3>2. ~raced /\ \A q \in Process : q # p => ~Scheduled(q)
      BY <3>1
    <3>3. schedule # Torn /\ schedule.last = newest
      BY <2>9, <3>2 DEF ScheduleInv
    <3>4. ~ \E q \in Process \ {p} : At(q, "writing")
      BY <3>2 DEF ScheduleInv, Scheduled
    <3>5. read = schedule
      BY <2>1, <3>3, <3>4 DEF SchedulesRead
    <3> QED
      BY <2>3, <3>2, <3>3, <3>5
  <2> QED
    BY <2>4, <2>5, <2>8, <2>9 DEF ScheduleInv, Scheduled
<1>5. ASSUME NEW p \in Process, WriteSchedule(p) PROVE ScheduleInv'
  <2>1. /\ \/ proc'[p] = Idle
           \/ /\ proc'[p].step \in {"reading", "locking", "asleep"}
              /\ proc'[p].mine.last = proc[p].mine.last /\ proc'[p].mode = proc[p].mode
              /\ proc'[p].step = "locking" => proc[p].mine.status = "running"
        /\ \A q \in Process : q # p => proc'[q] = proc[q]
    BY <1>5, Writing
  <2>2. /\ proc[p].step = "writing" /\ schedule' = proc[p].mine
        /\ newest' = IF proc[p].mine.status = "idle" THEN proc[p].mine.last ELSE newest
        /\ UNCHANGED <<raced, cut>>
    BY <1>5 DEF WriteSchedule
  <2>3. Scheduled(p)
    BY <2>2 DEF ScheduleInv, Scheduled
  <2>4. proc[p].mine # Torn
    BY DEF TypeOK, Commands, Schedules, Status, Torn
  <2>5. (\A q \in Process : proc[q].step \in {"reading", "writing", "asleep"} => proc[q].mode # "manual")'
    BY <2>1, <2>2, IdleIsACommand DEF ScheduleInv
  <2>6. ASSUME ~raced, ~cut.schedule
        PROVE  /\ \A q \in Process : q # p => ~Scheduled(q)
               /\ proc[p].mine.last = newest'
    BY <2>2, <2>3, <2>6 DEF ScheduleInv
  <2>7. \A q \in Process : Scheduled(q)' => Scheduled(q) \/ q = p
    BY <2>1 DEF Scheduled
  <2>8. Scheduled(p)' => proc'[p].mine.last = proc[p].mine.last
    BY <2>1, IdleIsACommand DEF Scheduled
  <2> QED
    BY <2>2, <2>4, <2>5, <2>6, <2>7, <2>8 DEF ScheduleInv
<1>6. ASSUME NEW p \in Process, Wake(p) \/ CheckLease(p) PROVE ScheduleInv'
  <2>1. /\ \/ proc[p].step = "asleep" /\ proc'[p].step = "reading"
           \/ proc[p].step = "locking" /\ proc'[p].step = "free"
        /\ proc'[p].mine.last = proc[p].mine.last /\ proc'[p].mode = proc[p].mode
        /\ \A q \in Process : q # p => proc'[q] = proc[q]
    BY <1>6 DEF Wake, CheckLease, GoTo, TypeOK, Commands, Schedules
  <2> QED
    BY <1>6, <2>1, ScheduleLeftAlone DEF Wake, CheckLease, Scheduled, Current, ScheduleInv
<1>7. ASSUME NEW p \in Process, Conflict(p) \/ Fails(p) PROVE ScheduleInv'
  <2>1. /\ \/ proc'[p] = Idle
           \/ /\ proc'[p].step = "writing" /\ proc'[p].mode = proc[p].mode
              /\ proc[p].mode # "manual" /\ proc'[p].mine.last = proc[p].mine.last
        /\ \A q \in Process : q # p => proc'[q] = proc[q]
    BY <1>7, Raising DEF Conflict, Fails
  <2>2. proc[p].step \in {"locking", "leased", "listed", "leaving"}
    BY <1>7 DEF Conflict, Fails, InLease
  <2>3. UNCHANGED <<schedule, newest, raced, cut>>
    BY <1>7 DEF Conflict, Fails
  <2> QED
    BY <2>1, <2>2, <2>3, ScheduleLeftAlone, IdleIsACommand DEF Scheduled, Current
<1>8. ASSUME NEW p \in Process, Interrupt(p) \/ Stop(p) PROVE ScheduleInv'
  <2>1. /\ proc'[p].step \in {"idle", "reading"}
        /\ proc'[p].step = "reading" => proc'[p].mode = "loop"
        /\ \A q \in Process : q # p => proc'[q] = proc[q]
    BY <1>8, Interrupting, Ending, IdleIsACommand DEF Stop
  <2>2. schedule' = schedule \/ cut'.schedule
    BY <1>8 DEF Interrupt, Stop, Cut
  <2>3. cut.schedule => cut'.schedule
    <3>1. CASE cut' = cut
      BY <3>1
    <3>2. CASE \E torn \in BOOLEAN : Cut(p, torn)
      <4>1. PICK torn \in BOOLEAN : Cut(p, torn)
        BY <3>2
      <4>2. cut'.schedule = (cut.schedule \/ (torn /\ At(p, "writing")))
        BY <4>1 DEF Cut
      <4> QED
        BY <4>2
    <3> QED
      BY <1>8, <3>1, <3>2 DEF Interrupt, Stop
  <2>4. UNCHANGED <<newest, raced>>
    BY <1>8 DEF Interrupt, Stop
  <2> QED
    BY <2>1, <2>2, <2>3, <2>4, ScheduleLeftAlone DEF Scheduled
<1>9. ASSUME NEW p \in Process, LeaseRelease(p) PROVE ScheduleInv'
  <2> DEFINE mine == [status |-> "idle", last |-> proc[p].run]
  <2>1. mine \in Schedules /\ mine.status = "idle"
    BY DEF TypeOK, Commands, Schedules, Status
  <2>2. /\ \/ proc'[p] = Idle
           \/ /\ proc'[p].step = "writing" /\ proc'[p].mode = proc[p].mode
              /\ proc[p].mode # "manual" /\ proc'[p].mine.status = "idle"
        /\ \A q \in Process : q # p => proc'[q] = proc[q]
    BY <1>9, <2>1, Ending, WritingDown DEF LeaseRelease
  <2>3. proc[p].step = "leaving" /\ UNCHANGED <<schedule, newest, raced, cut>>
    BY <1>9 DEF LeaseRelease
  <2> QED
    BY <2>2, <2>3, ScheduleLeftAlone, IdleIsACommand DEF Scheduled, Current
<1>10. ASSUME NEW p \in Process, LeaseWrite(p) \/ List(p) \/ Replace(p) PROVE ScheduleInv'
  <2>1. /\ proc[p].step \in {"free", "leased", "listed"}
        /\ proc'[p].step \in {"leased", "listed", "leaving"}
        /\ proc'[p].mode = proc[p].mode /\ proc'[p].mine = proc[p].mine
        /\ \A q \in Process : q # p => proc'[q] = proc[q]
    BY <1>10, Beginning, Listing, Replacing DEF LeaseWrite, List, Replace
  <2>2. UNCHANGED <<schedule, newest, raced, cut>>
    BY <1>10 DEF LeaseWrite, List, Replace
  <2> QED
    BY <2>1, <2>2, ScheduleLeftAlone DEF Scheduled, Current
<1> QED
  BY <1>1, <1>2, <1>3, <1>4, <1>5, <1>6, <1>7, <1>8, <1>9, <1>10 DEF Next, Works

-----------------------------------------------------------------------------

LEMMA DreamStep == DreamInv /\ [Next]_vars => DreamInv'
<1>1. DreamInv /\ [Next]_vars => TypeOK'
  BY TypeStep DEF DreamInv
<1> QED
  BY <1>1, LeaseStep, SerialStep, ScheduleStep DEF DreamInv, Together

\* The invariant that the others rest on. (memory/service.py:128-205, 450-478.)
THEOREM DreamsHold == Spec => []DreamInv
BY DreamInit, DreamStep, PTL DEF Spec

\* Every variable keeps its type. (memory/service.py:128-205.)
THEOREM DreamTypes == Spec => []TypeOK
<1>1. DreamInv => TypeOK
  BY DEF DreamInv
<1> QED
  BY <1>1, DreamsHold, PTL

\* As long as no two dreams were in the lease at once, the last run that the
\* schedule names has its diary, wherever runs failed and processes stopped.
\* (run_dream:129-155, run_dream_scheduler_once:170-186.)
THEOREM DiariesAreThere == Spec => []LastRunHasItsDiary
<1>1. DreamInv => LastRunHasItsDiary
  BY DEF DreamInv
<1> QED
  BY <1>1, DreamsHold, PTL

\* Nor is there a diary or an insight of a run that is not on record.
\* (run_dream:139-152.)
THEOREM NothingIsOrphaned == Spec => []NoOrphans
<1>1. DreamInv => NoOrphans
  BY DEF DreamInv
<1> QED
  BY <1>1, DreamsHold, PTL

\* No failure, interrupt or refusal makes the schedule forget the last run.
\* (run_dream_scheduler_once:165-189, start_dream_scheduler:194-204.)
THEOREM TheScheduleKeepsUp == Spec => []ScheduleKeepsUp
<1>1. DreamInv => ScheduleKeepsUp
  BY DEF DreamInv, ScheduleInv, ScheduleKeepsUp
<1> QED
  BY <1>1, DreamsHold, PTL

-----------------------------------------------------------------------------
(* What the runs implement                                                 *)

USE DEF Log!Advance, Log!Begin, Log!Name, Log!Following

LEMMA LogStep == DreamInv /\ DreamInv' /\ [Next]_vars => [Log!Next]_(Log!logVars)
<1> SUFFICES ASSUME DreamInv, DreamInv', [Next]_vars PROVE [Log!Next]_(Log!logVars)
  OBVIOUS
<1> DEFINE reached == [r \in Run |-> Reached(r)]
<1> USE DEF history
<1>0. TypeOK /\ TypeOK' /\ Together /\ Serial
  BY DEF DreamInv, Together
<1>1. CASE UNCHANGED vars
  BY <1>1 DEF vars, Log!logVars, Reached
<1>2. CASE LeaseExpires
  BY <1>2 DEF LeaseExpires, Log!logVars, Reached
<1>3. CASE overlapped'
  BY <1>3 DEF Log!Next, Log!Overlap
<1>4. ASSUME NEW p \in Process, ~overlapped',
             \/ Starts(p) \/ ReadSchedule(p) \/ WriteSchedule(p) \/ Wake(p)
             \/ CheckLease(p) \/ Conflict(p) \/ LeaseRelease(p)
             \/ Fails(p) \/ Interrupt(p) \/ Stop(p)
      PROVE  [Log!Next]_(Log!logVars)
  <2>1. UNCHANGED <<store, used, overlapped>>
    BY <1>0, <1>4, OutsideSteps
  <2>2. reached' = reached
    BY <2>1 DEF Reached
  <2>3. schedule'.last = None \/ (schedule'.last \in Run /\ Completed(schedule'.last))
    <3>1. schedule'.last \in Run \cup {None}
      BY <1>0 DEF TypeOK, Schedules, Torn
    <3>2. schedule'.last # None => store'.runs[schedule'.last] = "complete"
      BY <1>4 DEF DreamInv, LeaseInv, Completed
    <3> QED
      BY <2>1, <3>1, <3>2 DEF Completed
  <2>4. Log!Name
    BY <2>1, <2>2, <2>3 DEF Completed, Reached
  <2> QED
    BY <1>4, <2>1, <2>4 DEF Log!Next
<1>5. ASSUME NEW p \in Process, ~overlapped', LeaseWrite(p)
      PROVE  [Log!Next]_(Log!logVars)
  <2>1. /\ ~overlapped /\ used' = used + 1 /\ used' \in Run
        /\ UNCHANGED <<store, schedule>> /\ overlapped' = overlapped
    BY <1>0, <1>5, Beginning DEF LeaseWrite, TypeOK
  <2>2. reached' = reached
    BY <2>1 DEF Reached
  <2> QED
    BY <2>1, <2>2 DEF Log!Next
<1>6. ASSUME NEW p \in Process, List(p) PROVE [Log!Next]_(Log!logVars)
  BY <1>6 DEF List, Log!logVars, Reached
<1>7. ASSUME NEW p \in Process, ~overlapped', Replace(p)
      PROVE  [Log!Next]_(Log!logVars)
  <2>1. ~overlapped /\ UNCHANGED <<used, schedule, overlapped>>
    BY <1>7 DEF Replace
  <2>2. /\ used \in Run /\ Reached(used) = proc[p].stage /\ proc[p].stage \in Stage
        /\ \A r \in Run \ {used} : Reached(r)' = Reached(r)
        /\ Reached(used)' = IF proc[p].stage = "finish" THEN "done" ELSE After[proc[p].stage]
    BY <1>0, <1>7, <2>1, Storing
  <2>3. reached[used] # "done" /\ Reached(used)' = Log!Following[reached[used]]
    BY <2>2 DEF Stage, After
  <2>5. PICK u \in Run : u = used
    BY <2>2
  <2>6. Reached(u)' = Log!Following[reached[u]] /\ \A r \in Run \ {u} : Reached(r)' = Reached(r)
    <3>1. Reached(u)' = Reached(used)'
      BY <2>1, <2>5 DEF Reached
    <3> QED
      BY <2>2, <2>3, <2>5, <3>1
  <2>7. reached' = [r \in Run |-> Reached(r)']
    OBVIOUS
  <2>4. reached' = [reached EXCEPT ![used] = Log!Following[@]]
    BY <2>5, <2>6, <2>7
  <2> QED
    BY <2>1, <2>2, <2>3, <2>4 DEF Log!Next
<1> QED
  BY <1>1, <1>2, <1>3, <1>4, <1>5, <1>6, <1>7 DEF Next, Works

\* Dream runs of any number of processes, with their failures, interrupts and
\* stops, implement the log of one dream after the other.
\* (run_dream:129-155, _lease_lock:450-478, run_dream_scheduler_once:165-189.)
THEOREM DreamsImplementLog == Spec => ImplementsDreamLog
<1>1. ASSUME Init PROVE Log!Init
  <2>1. \A r \in Run : Reached(r) = "begin"
    BY <1>1 DEF Init, Reached, NoRecords, Repository
  <2>2. [r \in Run |-> Reached(r)] = [r \in Run |-> "begin"]
    BY <2>1
  <2>3. used = 0 /\ schedule.last = None /\ overlapped = FALSE
    BY <1>1 DEF Init, Fresh
  <2> QED
    BY <2>2, <2>3 DEF Log!Init
<1> QED
  BY <1>1, LogStep, DreamsHold, PTL DEF Spec, ImplementsDreamLog, Log!Spec
=============================================================================
