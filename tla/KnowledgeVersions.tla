---------------------------- MODULE KnowledgeVersions ----------------------------
(***************************************************************************)
(* Versions of knowledge (evolution/service.py, EvolutionService): each    *)
(* change set makes a version of its target that supersedes the latest one *)
(* and an event that links the two.                                        *)
(*                                                                         *)
(* A change set, its version and its event have one name, that of the      *)
(* change: create_event makes new ones each time.  The repositories hold   *)
(* the records of all targets; they are replaced at once but read some     *)
(* time before (storage/json_store.py), and nothing locks them.            *)
(***************************************************************************)
EXTENDS Naturals, FiniteSets

CONSTANTS
  Writer,      \* the processes that create events
  Change,      \* the changes
  Target,      \* what they change
  TargetOf,    \* the target of each change
  None         \* no change, and no version

ASSUME ChangeAssumption == TargetOf \in [Change -> Target] /\ None \notin Change

VARIABLES
  store,       \* the repositories
  op,          \* what each writer is doing
  started,     \* the changes whose command was started
  gaps,        \* history: the targets whose last command stopped between two versions
  interfered   \* history: what a writer relied upon had changed since it was read

vars == <<store, op, started, gaps, interfered>>

Version == [number : Nat, status : {"absent", "active", "superseded"},
            supersedes : Change \cup {None}]
Event   == [to : Change, from : Change \cup {None}]
Store   == [changes : SUBSET Change, versions : [Change -> Version], events : SUBSET Event]

Absent == [number |-> 0, status |-> "absent", supersedes |-> None]
Empty  == [changes |-> {}, versions |-> [c \in Change |-> Absent], events |-> {}]

\* The upserts of create_event, in the order of the code, and the reading of
\* the latest version.
Step == {"idle", "recording", "reading", "superseding", "versioning", "linking"}
RepositoryOf == [recording |-> "changes", superseding |-> "versions",
                 versioning |-> "versions", linking |-> "events"]

\* previous: the latest version, as it was read; seen: the versions of the target
\* at that time.  items: what the upsert in progress has read, if it has.
Operation == [step : Step, change : Change \cup {None}, previous : Change \cup {None},
              read : Version, seen : SUBSET Change, listed : BOOLEAN, items : Store]

TypeOK ==
  /\ store \in Store
  /\ op \in [Writer -> Operation]
  /\ \A w \in Writer : op[w].step # "idle" => op[w].change \in Change
  /\ started \subseteq Change
  /\ gaps \subseteq Target
  /\ interfered \in BOOLEAN

Idle == [step |-> "idle", change |-> None, previous |-> None, read |-> Absent,
         seen |-> {}, listed |-> FALSE, items |-> Empty]

Init ==
  /\ store = Empty
  /\ op = [w \in Writer |-> Idle]
  /\ started = {}
  /\ gaps = {}
  /\ interfered = FALSE

At(w, step) == op[w].step = step

Present(c)     == store.versions[c].status # "absent"
VersionsOf(t)  == {c \in Change : TargetOf[c] = t /\ Present(c)}
Number(c)      == store.versions[c].number

\* _latest_version.  Of versions with the same number the last one in the file.
IsLatest(c, t) ==
  \/ c = None /\ VersionsOf(t) = {}
  \/ c \in VersionsOf(t) /\ \A d \in VersionsOf(t) : Number(d) <= Number(c)

-----------------------------------------------------------------------------
(* create_event                                                            *)

Start(w, c) ==
  /\ At(w, "idle")
  /\ c \notin started
  /\ started' = started \cup {c}
  /\ op' = [op EXCEPT ![w] = [Idle EXCEPT !.step = "recording", !.change = c]]
  /\ UNCHANGED <<store, gaps, interfered>>

Reads(w, c, step) ==
  /\ op' = [op EXCEPT ![w].step = step, ![w].previous = c,
                      ![w].read = IF c = None THEN Absent ELSE store.versions[c],
                      ![w].seen = VersionsOf(TargetOf[op[w].change])]
  /\ UNCHANGED <<store, started, gaps, interfered>>

\* Fault: only an active version is looked for.
ReadActive(w) ==
  /\ At(w, "reading")
  /\ LET active == {c \in VersionsOf(TargetOf[op[w].change]) : store.versions[c].status = "active"}
     IN  \/ active = {} /\ Reads(w, None, "versioning")
         \/ \E c \in active : Reads(w, c, "superseding")

\* Fault: the latest version is not superseded.
ReadAndKeep(w) ==
  /\ At(w, "reading")
  /\ \E c \in Change \cup {None} :
       IsLatest(c, TargetOf[op[w].change]) /\ Reads(w, c, "versioning")

ReadLatest(w) ==
  /\ At(w, "reading")
  /\ \E c \in Change \cup {None} :
       /\ IsLatest(c, TargetOf[op[w].change])
       /\ Reads(w, c, IF c = None THEN "versioning" ELSE "superseding")

\* Fault: the new version is as active as the previous one.
NewVersionLikeOld(w) ==
  [number |-> op[w].read.number + 1,
   status |-> IF op[w].previous = None THEN "active" ELSE op[w].read.status,
   supersedes |-> op[w].previous]

\* The version that op[w] makes.
NewVersion(w) ==
  [number |-> op[w].read.number + 1, status |-> "active", supersedes |-> op[w].previous]

\* JsonRepository.upsert: the file is read, later replaced.
List(w) ==
  /\ op[w].step \in DOMAIN RepositoryOf
  /\ ~op[w].listed
  /\ LET repository == RepositoryOf[op[w].step]
     IN  op' = [op EXCEPT ![w].listed = TRUE, ![w].items[repository] = store[repository]]
  /\ UNCHANGED <<store, started, gaps, interfered>>

\* The file is the one that was read, and no version was added to the target
\* since its latest one was read.
StillTrue(w) ==
  LET repository == RepositoryOf[op[w].step]
  IN  /\ op[w].items[repository] = store[repository]
      /\ At(w, "versioning") => op[w].seen = VersionsOf(TargetOf[op[w].change])

Replaces(w, step, upserted) ==
  /\ op[w].listed
  /\ LET repository == RepositoryOf[op[w].step]
     IN  store' = [store EXCEPT ![repository] = upserted]
  /\ op' = [op EXCEPT ![w] = IF step = "idle" THEN Idle
                             ELSE [@ EXCEPT !.step = step, !.listed = FALSE, !.items = Empty]]
  /\ interfered' = (interfered \/ ~StillTrue(w))
  /\ UNCHANGED started

Record(w) ==
  /\ At(w, "recording")
  /\ Replaces(w, "reading", op[w].items.changes \cup {op[w].change})
  /\ UNCHANGED gaps

Supersede(w) ==
  /\ At(w, "superseding")
  /\ Replaces(w, "versioning", [op[w].items.versions EXCEPT
                                  ![op[w].previous] = [op[w].read EXCEPT !.status = "superseded"]])
  /\ UNCHANGED gaps

AddVersion(w) ==
  /\ At(w, "versioning")
  /\ Replaces(w, "linking", [op[w].items.versions EXCEPT ![op[w].change] = NewVersion(w)])
  /\ gaps' = gaps \ {TargetOf[op[w].change]}

Link(w) ==
  /\ At(w, "linking")
  /\ Replaces(w, "idle", op[w].items.events \cup {[to |-> op[w].change, from |-> op[w].previous]})
  /\ UNCHANGED gaps

\* The latest version is superseded, the next one is not stored yet.
Between(w, t) == At(w, "versioning") /\ op[w].previous # None /\ TargetOf[op[w].change] = t

\* The process stops, or a repository cannot be read or written.
Stop(w) ==
  /\ ~At(w, "idle")
  /\ gaps' = gaps \cup {t \in Target : Between(w, t)}
  /\ op' = [op EXCEPT ![w] = Idle]
  /\ UNCHANGED <<store, started, interfered>>

Next ==
  \E w \in Writer :
    \/ \E c \in Change : Start(w, c)
    \/ ReadLatest(w) \/ List(w)
    \/ Record(w) \/ Supersede(w) \/ AddVersion(w) \/ Link(w)
    \/ Stop(w)

Spec == Init /\ [][Next]_vars

-----------------------------------------------------------------------------

\* As long as every writer finds the file and the latest version as it read
\* them, wherever others stop in between, the versions of a target are numbered
\* one after the other, each supersedes the one before it, only the newest can
\* be active, and an event links two versions of which one supersedes the other.
\* (create_event:14-47, _latest_version:49-57.)
LineOfVersions ==
  ~interfered =>
    \A t \in Target :
      /\ \A c, d \in VersionsOf(t) : Number(c) = Number(d) => c = d
      /\ \A c \in VersionsOf(t) :
           LET before == store.versions[c].supersedes
           IN  IF before = None THEN Number(c) = 1
               ELSE before \in VersionsOf(t) /\ Number(c) = Number(before) + 1
      /\ \A c \in VersionsOf(t) : store.versions[c].status = "active" => IsLatest(c, t)
      /\ \A e \in store.events : TargetOf[e.to] = t =>
           e.to \in VersionsOf(t) /\ store.versions[e.to].supersedes = e.from

\* A target has an active version, unless a writer is between superseding the
\* latest one and storing the next, or was when it stopped; the next change
\* makes up for it. (create_event:16-33.)
LatestIsActive ==
  ~interfered =>
    \A t \in Target \ gaps :
      (\A w \in Writer : ~Between(w, t))
        => \A c \in VersionsOf(t) : IsLatest(c, t) => store.versions[c].status = "active"

\* While nothing interferes, a writer knows the number of the version before
\* its own, which is superseded before its own is stored.
WritersAreSound ==
  ~interfered =>
    \A w \in Writer :
      LET c == op[w].change  before == op[w].previous  read == op[w].read
      IN  /\ ~At(w, "idle") => c \in started
          /\ \A x \in Writer \ {w} : ~At(w, "idle") /\ ~At(x, "idle") => op[x].change # c
          /\ ~At(w, "idle") => (Present(c) <=> At(w, "linking"))
          /\ op[w].step \in {"superseding", "versioning", "linking"} /\ before # None =>
               /\ before \in VersionsOf(TargetOf[c])
               /\ read.number = Number(before)
               /\ read.supersedes = store.versions[before].supersedes
          /\ op[w].step \in {"superseding", "versioning"} =>
               /\ op[w].seen \subseteq VersionsOf(TargetOf[c])
               /\ IF before = None THEN op[w].seen = {}
                  ELSE before \in op[w].seen /\ \A d \in op[w].seen : Number(d) <= Number(before)
          /\ before = None => read = Absent /\ ~At(w, "superseding")
          /\ At(w, "versioning") /\ before # None => store.versions[before].status = "superseded"
          /\ At(w, "linking") => store.versions[c].supersedes = before

\* The inductive invariant.
VersionsInv ==
  /\ TypeOK
  /\ ~interfered => \A c \in Change \ started : ~Present(c)
  /\ WritersAreSound
  /\ LineOfVersions
  /\ LatestIsActive

Lineage == INSTANCE VersionLine WITH versions <- store.versions, events <- store.events

\* However the steps of several writers interleave and wherever they stop, the
\* four upserts of a change act on the line of its target as one step each: no
\* version on record is lost, renumbered or made active again, no event is lost,
\* as long as nobody interferes. (create_event:14-47, JsonRepository.upsert:29-40.)
ImplementsVersionLine == Lineage!Spec
=============================================================================
