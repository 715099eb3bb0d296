------------------------------ MODULE MonitorScans ------------------------------
(***************************************************************************)
(* The monitor (monitoring/scanner.py, MonitorService.scan): the files of  *)
(* a directory are compared with the latest snapshot, each difference      *)
(* becomes a signal and an event, then the new snapshot is stored.         *)
(*                                                                         *)
(* A file is its content, which stands for the hash; Gone is no file.      *)
(* Files are edited all the while, at most MaxEdits times.                 *)
(***************************************************************************)
EXTENDS Workspace

CONSTANTS
  Path,        \* the files of the directory
  Content,     \* what they may hold
  Gone,        \* no file
  FirstFiles,  \* what they hold at first
  MaxEdits

ASSUME ScanAssumption == 
  Gone \in Content /\ FirstFiles \in [Path -> Content] /\ MaxEdits \in Nat

VARIABLES
  files,       \* the directory
  edits,       \* how often it was edited
  taken        \* the snapshots made so far, which orders them

scanVars == <<files, edits, taken>>

Files == [Path -> Content]

NoFiles == [f \in Path |-> Gone]

ScanInit ==
  /\ files = FirstFiles
  /\ edits = 0
  /\ taken = 0

Edit ==
  /\ edits < MaxEdits
  /\ edits' = edits + 1
  /\ \E f \in Path, c \in Content : files[f] # c /\ files' = [files EXCEPT ![f] = c]
  /\ UNCHANGED <<workspaceVars, taken>>

-----------------------------------------------------------------------------
(* A task keeps which files were collected, as what (collected, seen);     *)
(* which changes are still to be reported, which files have a signal       *)
(* (todo, signals); the place of the snapshot in time (at).                *)

\* _collect_files, one file at a time.
Collect(p) ==
  /\ At(p, "collecting")
  /\ \E f \in Path \ task[p].collected :
       Turns(p, [task[p] EXCEPT !.collected = @ \cup {f}, !.seen[f] = files[f]])
  /\ UNCHANGED scanVars

\* _latest_snapshot: the files of the newest snapshot, none before the first.
LatestFiles(base) ==
  \/ store["snapshots"] = {} /\ base = NoFiles
  \/ \E s \in store["snapshots"] :
       (\A other \in store["snapshots"] : other.at <= s.at) /\ base = s.files

\* The snapshot is made when all changes are reported.
Reported(next) == [next EXCEPT !.step = "snapshotting", !.at = taken + 1]

\* _diff
Diff(p) ==
  /\ At(p, "collecting")
  /\ task[p].collected = Path
  /\ \E base \in Files :
       /\ LatestFiles(base)
       /\ LET changed == {f \in Path : base[f] # task[p].seen[f]}
              next    == [task[p] EXCEPT !.todo = changed]
          IN  IF changed = {} THEN Turns(p, Reported(next)) /\ taken' = taken + 1
              ELSE Turns(p, [next EXCEPT !.step = "signalling"]) /\ UNCHANGED taken
  /\ UNCHANGED <<files, edits>>

\* The changes are reported in the order of their paths, which matters not.
AddSignal(p) ==
  /\ At(p, "signalling")
  /\ \E f \in task[p].todo :
       Puts(p, [name |-> <<p, f>>, marked |-> FALSE],
            [task[p] EXCEPT !.step = "noting", !.signals = @ \cup {f}])
  /\ UNCHANGED scanVars

AddEvent(p) ==
  /\ At(p, "noting")
  /\ \E f \in task[p].todo \cap task[p].signals :
       LET next == [task[p] EXCEPT !.todo = @ \ {f}, !.step = "signalling"]
       IN  /\ Puts(p, [name |-> <<p, f>>, to |-> task[p].seen[f], signal |-> <<p, f>>],
                   IF next.todo = {} THEN Reported(next) ELSE next)
           /\ taken' = IF next.todo = {} THEN taken + 1 ELSE taken
  /\ UNCHANGED <<files, edits>>

\* Fault: the files are collected once more for the snapshot.
CollectedAgain(p) == [name |-> p, at |-> task[p].at, files |-> files]

MadeSnapshot(p) == [name |-> p, at |-> task[p].at, files |-> task[p].seen]

AddSnapshot(p, next) ==
  /\ At(p, "snapshotting")
  /\ Puts(p, MadeSnapshot(p), next)
  /\ UNCHANGED scanVars

-----------------------------------------------------------------------------

IsReported(f, content) ==
  \E e \in store["events"] :
    /\ e.name[2] = f /\ e.to = content
    /\ \E signal \in store["signals"] : signal.name = e.signal

ScanParts == {"signals", "events"}

\* Whatever a snapshot says of a file, some event has reported, with a signal
\* that is still there: a file that is edited while it is scanned, a scan that
\* stops anywhere, and scans that take turns in any way do not hide a change
\* from the ones that follow.  A snapshot that is lost hides nothing; an upsert
\* of signals or of events that undoes another one may.
\* (scan:16-32, _latest_snapshot:40-48, _diff:69-114, JsonRepository.upsert:29-40.)
NoChangeIsHidden ==
  Kept(ScanParts) =>
    \A s \in store["snapshots"], f \in Path :
      s.files[f] # Gone => IsReported(f, s.files[f])
=============================================================================
