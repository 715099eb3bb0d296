------------------------- MODULE KnowledgeVersionsProofs -------------------------
(***************************************************************************)
(* Theorems of the versions of knowledge, for any number of processes,     *)
(* changes and targets.                                                    *)
(***************************************************************************)
EXTENDS KnowledgeVersions, TLAPS

USE ChangeAssumption

\* The part of WritersAreSound that is about one writer.
Sound(w) ==
  LET c == op[w].change  before == op[w].previous  read == op[w].read
  IN  /\ ~At(w, "idle") => c \in started
      /\ \A x \in Writer \ {w} : ~At(w, "idle") /\ ~At(x, "idle") => op[x].change # c
      /\ ~At(w, "idle") => (Present(c) <=> At(w, "linking"))
      /\ op[w].step \in {"superseding", "versioning", "linking"} /\ before # None =>
           /\ before \in VersionsOf(TargetOf[c])
           /\ read.number = Number(before)
           /\ read.supersedes = store.versions[before].supersedes
      /\ op[w].step \in {"superseding", "versioning"} =>
           /\ op[w].seen \subseteq VersionsOf(TargetOf[c])
           /\ IF before = None THEN op[w].seen = {}
              ELSE before \in op[w].seen /\ \A d \in op[w].seen : Number(d) <= Number(before)
      /\ before = None => read = Absent /\ ~At(w, "superseding")
      /\ At(w, "versioning") /\ before # None => store.versions[before].status = "superseded"
      /\ At(w, "linking") => store.versions[c].supersedes = before

\* The parts of LineOfVersions.
Unique(t) == \A c, d \in VersionsOf(t) : Number(c) = Number(d) => c = d
Chained(t) ==
  \A c \in VersionsOf(t) :
    LET before == store.versions[c].supersedes
    IN  IF before = None THEN Number(c) = 1
        ELSE before \in VersionsOf(t) /\ Number(c) = Number(before) + 1
OnlyNewest(t) == \A c \in VersionsOf(t) : store.versions[c].status = "active" => IsLatest(c, t)
Linked(t) == \A e \in store.events : TargetOf[e.to] = t =>
               e.to \in VersionsOf(t) /\ store.versions[e.to].supersedes = e.from
Line == \A t \in Target : Unique(t) /\ Chained(t) /\ OnlyNewest(t) /\ Linked(t)

\* LatestIsActive, for one target.
HasActive(t) ==
  (\A w \in Writer : ~Between(w, t))
    => \A c \in VersionsOf(t) : IsLatest(c, t) => store.versions[c].status = "active"

Unborn == \A c \in Change \ started : ~Present(c)

\* What holds while nothing has interfered.
Undisturbed ==
  /\ Unborn
  /\ \A w \in Writer : Sound(w)
  /\ Line
  /\ \A t \in Target \ gaps : HasActive(t)

LEMMA Parts == VersionsInv <=> TypeOK /\ (~interfered => Undisturbed)
<1>1. WritersAreSound <=> (~interfered => \A w \in Writer : Sound(w))
  BY DEF WritersAreSound, Sound
<1>2. LineOfVersions <=> (~interfered => Line)
  BY DEF LineOfVersions, Line, Unique, Chained, OnlyNewest, Linked
<1>3. LatestIsActive <=> (~interfered => \A t \in Target \ gaps : HasActive(t))
  BY DEF LatestIsActive, HasActive
<1> QED
  BY <1>1, <1>2, <1>3 DEF VersionsInv, Undisturbed, Unborn

LEMMA PartsNext == VersionsInv' <=> TypeOK' /\ (~interfered' => Undisturbed')
BY Parts, PTL

LEMMA IdleIsAnOperation ==
  /\ Idle \in Operation /\ Empty \in Store /\ Absent \in Version
  /\ Idle.step = "idle" /\ Idle.previous = None /\ Idle.read = Absent
BY DEF Idle, Operation, Empty, Store, Absent, Version, Event, Step

LEMMA VersionsInit == Init => VersionsInv
<1> SUFFICES ASSUME Init PROVE VersionsInv
  OBVIOUS
<1>1. TypeOK
  BY IdleIsAnOperation DEF Init, TypeOK
<1>2. \A c \in Change : ~Present(c)
  BY DEF Init, Present, Empty, Absent
<1>3. \A t \in Target : VersionsOf(t) = {}
  BY <1>2 DEF VersionsOf
<1>4. store.events = {}
  BY DEF Init, Empty
<1>5. \A w \in Writer : Sound(w)
  BY IdleIsAnOperation DEF Init, Sound, At
<1>6. Line
  BY <1>3, <1>4 DEF Line, Unique, Chained, OnlyNewest, Linked
<1>7. \A t \in Target : HasActive(t)
  BY <1>3 DEF HasActive
<1> QED
  BY <1>1, <1>2, <1>5, <1>6, <1>7, Parts DEF Undisturbed, Unborn

-----------------------------------------------------------------------------
(* What a step does to the writer that takes it                            *)

LEMMA Starting ==
  ASSUME TypeOK, NEW w \in Writer, NEW c \in Change, Start(w, c)
  PROVE  /\ op' \in [Writer -> Operation]
         /\ op'[w].step = "recording" /\ op'[w].change = c /\ op'[w].previous = None
         /\ op'[w].read = Absent
         /\ \A x \in Writer : x # w => op'[x] = op[x]
<1> DEFINE next == [Idle EXCEPT !.step = "recording", !.change = c]
<1>1. next \in Operation /\ next.step = "recording" /\ next.change = c
      /\ next.previous = None /\ next.read = Absent
  BY IdleIsAnOperation DEF Idle, Operation, Step
<1> QED
  BY <1>1 DEF Start, TypeOK

LEMMA Reading ==
  ASSUME TypeOK, NEW w \in Writer, At(w, "reading"), NEW c \in Change \cup {None},
         NEW step \in Step, Reads(w, c, step)
  PROVE  /\ op' \in [Writer -> Operation]
         /\ op'[w].step = step /\ op'[w].change = op[w].change /\ op'[w].previous = c
         /\ op'[w].read = (IF c = None THEN Absent ELSE store.versions[c])
         /\ op'[w].seen = VersionsOf(TargetOf[op[w].change])
         /\ \A x \in Writer : x # w => op'[x] = op[x]
<1> DEFINE read == IF c = None THEN Absent ELSE store.versions[c]
           seen == VersionsOf(TargetOf[op[w].change])
           next == [op[w] EXCEPT !.step = step, !.previous = c, !.read = read, !.seen = seen]
<1>1. read \in Version /\ seen \in SUBSET Change
  BY IdleIsAnOperation DEF TypeOK, Store, VersionsOf
<1> HIDE DEF read, seen
<1>2. next \in Operation /\ next.step = step /\ next.change = op[w].change
      /\ next.previous = c /\ next.read = read /\ next.seen = seen
  BY <1>1 DEF TypeOK, Operation
<1>3. op' = [op EXCEPT ![w] = next]
  BY DEF Reads, TypeOK, Operation, read, seen
<1> QED
  BY <1>2, <1>3 DEF TypeOK, read, seen

\* Nothing but the repository read changes.
LEMMA Listing ==
  ASSUME TypeOK, NEW w \in Writer, List(w)
  PROVE  /\ op' \in [Writer -> Operation]
         /\ op'[w].step = op[w].step /\ op'[w].change = op[w].change
         /\ op'[w].previous = op[w].previous /\ op'[w].read = op[w].read
         /\ op'[w].seen = op[w].seen
         /\ \A x \in Writer : x # w => op'[x] = op[x]
<1> DEFINE repository == RepositoryOf[op[w].step]
           items == [op[w].items EXCEPT ![repository] = store[repository]]
           next == [op[w] EXCEPT !.listed = TRUE, !.items = items]
<1>1. op[w].step \in {"recording", "superseding", "versioning", "linking"}
  BY DEF List, RepositoryOf
<1>2. repository \in {"changes", "versions", "events"}
  BY <1>1 DEF RepositoryOf
<1>3. items \in Store
  <2>1. store \in Store /\ op[w].items \in Store
    BY DEF TypeOK, Operation
  <2>2. CASE repository = "changes"
    BY <2>1, <2>2 DEF Store
  <2>3. CASE repository = "versions"
    BY <2>1, <2>3 DEF Store
  <2>4. CASE repository = "events"
    BY <2>1, <2>4 DEF Store
  <2> QED
    BY <1>2, <2>2, <2>3, <2>4
<1> HIDE DEF items
<1>4. next \in Operation /\ next.step = op[w].step /\ next.change = op[w].change
      /\ next.previous = op[w].previous /\ next.read = op[w].read /\ next.seen = op[w].seen
  BY <1>3 DEF TypeOK, Operation
<1>5. op' = [op EXCEPT ![w] = next]
  BY DEF List, TypeOK, Operation, items
<1> QED
  BY <1>4, <1>5 DEF TypeOK

\* An upsert is over: the writer goes on to the next step.
LEMMA Replacing ==
  ASSUME TypeOK, NEW w \in Writer, NEW step \in Step \ {"idle"}, NEW upserted,
         Replaces(w, step, upserted)
  PROVE  /\ op' \in [Writer -> Operation]
         /\ op'[w].step = step /\ op'[w].change = op[w].change
         /\ op'[w].previous = op[w].previous /\ op'[w].read = op[w].read
         /\ op'[w].seen = op[w].seen
         /\ \A x \in Writer : x # w => op'[x] = op[x]
<1> DEFINE next == [op[w] EXCEPT !.step = step, !.listed = FALSE, !.items = Empty]
<1>1. next \in Operation /\ next.step = step /\ next.change = op[w].change
      /\ next.previous = op[w].previous /\ next.read = op[w].read /\ next.seen = op[w].seen
  BY IdleIsAnOperation DEF TypeOK, Operation
<1>2. op' = [op EXCEPT ![w] = next]
  BY DEF Replaces, TypeOK, Operation
<1> QED
  BY <1>1, <1>2 DEF TypeOK

\* A command ends or stops.
LEMMA Ending ==
  ASSUME TypeOK, NEW w \in Writer, op' = [op EXCEPT ![w] = Idle]
  PROVE  /\ op' \in [Writer -> Operation]
         /\ op'[w] = Idle
         /\ \A x \in Writer : x # w => op'[x] = op[x]
BY IdleIsAnOperation DEF TypeOK

\* The writers keep their types, if the one that takes the step does.
LEMMA WritersStep ==
  ASSUME TypeOK, NEW w \in Writer, op' \in [Writer -> Operation],
         op'[w].step # "idle" => op'[w].change \in Change,
         \A x \in Writer : x # w => op'[x] = op[x]
  PROVE  \A x \in Writer : op'[x].step # "idle" => op'[x].change \in Change
BY DEF TypeOK

\* A step between upserts.
LEMMA QuietTypes ==
  ASSUME TypeOK, NEW w \in Writer,
         (\E c \in Change : Start(w, c)) \/ ReadLatest(w) \/ List(w) \/ Stop(w)
  PROVE  TypeOK'
<1>1. ASSUME NEW c \in Change, Start(w, c) PROVE TypeOK'
  BY <1>1, Starting, WritersStep DEF Start, TypeOK
<1>2. CASE ReadLatest(w)
  <2>1. PICK c \in Change \cup {None} :
             Reads(w, c, IF c = None THEN "versioning" ELSE "superseding")
    BY <1>2 DEF ReadLatest
  <2> DEFINE step == IF c = None THEN "versioning" ELSE "superseding"
  <2>2. step \in Step /\ At(w, "reading") /\ Reads(w, c, step)
    BY <1>2, <2>1 DEF ReadLatest, Step
  <2> HIDE DEF step
  <2>3. op' \in [Writer -> Operation] /\ op'[w].change = op[w].change
        /\ \A x \in Writer : x # w => op'[x] = op[x]
    BY <2>2, Reading
  <2>4. \A x \in Writer : op'[x].step # "idle" => op'[x].change \in Change
    BY <2>2, <2>3, WritersStep DEF TypeOK, At
  <2> QED
    BY <2>2, <2>3, <2>4 DEF Reads, TypeOK
<1>3. CASE List(w)
  <2>1. op[w].step # "idle"
    BY <1>3 DEF List, RepositoryOf
  <2>2. \A x \in Writer : op'[x].step # "idle" => op'[x].change \in Change
    BY <1>3, <2>1, Listing, WritersStep DEF TypeOK
  <2> QED
    BY <1>3, <2>2, Listing DEF List, TypeOK
<1>4. CASE Stop(w)
  <2>1. \A x \in Writer : op'[x].step # "idle" => op'[x].change \in Change
    BY <1>4, Ending, IdleIsAnOperation, WritersStep DEF Stop
  <2>2. gaps' \subseteq Target
    BY <1>4 DEF Stop, TypeOK
  <2> QED
    BY <1>4, <2>1, <2>2, Ending DEF Stop, TypeOK
<1> QED
  BY <1>1, <1>2, <1>3, <1>4

\* An upsert that is over.
LEMMA UpsertTypes ==
  ASSUME TypeOK, NEW w \in Writer,
         Record(w) \/ Supersede(w) \/ AddVersion(w) \/ Link(w)
  PROVE  TypeOK'
<1>0. /\ op[w] \in Operation /\ op[w].change \in Change /\ op[w].items \in Store
      /\ op[w].read \in Version /\ store \in Store
  BY DEF TypeOK, Record, Supersede, AddVersion, Link, At, Operation
<1>1. /\ op' \in [Writer -> Operation]
      /\ \A x \in Writer : op'[x].step # "idle" => op'[x].change \in Change
  <2>1. CASE Link(w)
    BY <2>1, Ending, IdleIsAnOperation, WritersStep DEF Link, Replaces
  <2>2. CASE Record(w) \/ Supersede(w) \/ AddVersion(w)
    <3>1. PICK step \in Step \ {"idle"} : \E upserted : Replaces(w, step, upserted)
      BY <2>2 DEF Record, Supersede, AddVersion, Step
    <3> QED
      BY <3>1, <1>0, Replacing, WritersStep
  <2> QED
    BY <2>1, <2>2
<1>2. store' \in Store
  <2>1. CASE Record(w)
    <3>1. store' = [store EXCEPT !["changes"] = op[w].items.changes \cup {op[w].change}]
      BY <2>1 DEF Record, Replaces, At, RepositoryOf
    <3> QED
      BY <3>1, <1>0 DEF Store
  <2>2. CASE Supersede(w)
    <3> DEFINE old == [op[w].read EXCEPT !.status = "superseded"]
    <3>1. store' = [store EXCEPT !["versions"] = [op[w].items.versions EXCEPT ![op[w].previous] = old]]
      BY <2>2 DEF Supersede, Replaces, At, RepositoryOf
    <3>2. old \in Version
      BY <1>0 DEF Version
    <3> HIDE DEF old
    <3> QED
      BY <3>1, <3>2, <1>0 DEF Store
  <2>3. CASE AddVersion(w)
    <3>1. store' = [store EXCEPT !["versions"] = [op[w].items.versions EXCEPT ![op[w].change] = NewVersion(w)]]
      BY <2>3 DEF AddVersion, Replaces, At, RepositoryOf
    <3>2. NewVersion(w) \in Version
      BY <1>0 DEF NewVersion, Version, Operation
    <3> QED
      BY <3>1, <3>2, <1>0 DEF Store
  <2>4. CASE Link(w)
    <3>1. store' = [store EXCEPT !["events"] = op[w].items.events
                      \cup {[to |-> op[w].change, from |-> op[w].previous]}]
      BY <2>4 DEF Link, Replaces, At, RepositoryOf
    <3>2. [to |-> op[w].change, from |-> op[w].previous] \in Event
      BY <1>0 DEF Event, Operation
    <3> QED
      BY <3>1, <3>2, <1>0 DEF Store
  <2> QED
    BY <2>1, <2>2, <2>3, <2>4
<1>3. started' \subseteq Change /\ gaps' \subseteq Target /\ interfered' \in BOOLEAN
  BY DEF TypeOK, Record, Supersede, AddVersion, Link, Replaces
<1> QED
  BY <1>1, <1>2, <1>3 DEF TypeOK

-----------------------------------------------------------------------------
(* While nothing interferes                                                *)

\* A stored version stays, and is at most superseded.
Kept(c) ==
  /\ store'.versions[c].status # "absent"
  /\ store'.versions[c].number = store.versions[c].number
  /\ store'.versions[c].supersedes = store.versions[c].supersedes
  /\ store.versions[c].status = "superseded" => store'.versions[c].status = "superseded"

\* A step that keeps the versions disturbs no writer but the one that takes it.
LEMMA OthersStaySound ==
  ASSUME TypeOK, TypeOK', NEW w \in Writer, NEW x \in Writer, x # w, Sound(x),
         \A y \in Writer : y # w => op'[y] = op[y],
         started \subseteq started',
         op'[w].step # "idle" /\ op[x].step # "idle" => op'[w].change # op[x].change,
         \A c \in Change : Present(c) => Kept(c),
         op[x].step # "idle" => (Present(op[x].change)' => Present(op[x].change))
  PROVE  Sound(x)'
<1> DEFINE c == op[x].change
           before == op[x].previous
           read == op[x].read
<1>0. op'[x] = op[x]
  OBVIOUS
<1>1. op[x].step # "idle" => c \in started'
  BY DEF Sound, At
<1>2. \A y \in Writer \ {x} : op'[x].step # "idle" /\ op'[y].step # "idle" => op'[y].change # op'[x].change
  BY DEF Sound, At
<1>3. op[x].step # "idle" => (Present(c)' <=> op[x].step = "linking")
  BY DEF Sound, At, Present, Kept, TypeOK
<1>4. op[x].step \in {"superseding", "versioning", "linking"} /\ before # None =>
           /\ before \in VersionsOf(TargetOf[c])'
           /\ read.number = store'.versions[before].number
           /\ read.supersedes = store'.versions[before].supersedes
  BY DEF Sound, At, VersionsOf, Number, Present, Kept
<1>5. op[x].step \in {"superseding", "versioning"} =>
           /\ op[x].seen \subseteq VersionsOf(TargetOf[c])'
           /\ IF before = None THEN op[x].seen = {}
              ELSE before \in op[x].seen /\ \A d \in op[x].seen : Number(d)' <= Number(before)'
  BY DEF Sound, At, VersionsOf, Number, Present, Kept
<1>6. before = None => read = Absent /\ op[x].step # "superseding"
  BY DEF Sound, At
<1>7. op[x].step = "versioning" /\ before # None => store'.versions[before].status = "superseded"
  BY DEF Sound, At, VersionsOf, Present, Kept
<1>8. op[x].step = "linking" => store'.versions[c].supersedes = before
  BY DEF Sound, At, Present, Kept, TypeOK
<1> QED
  BY <1>0, <1>1, <1>2, <1>3, <1>4, <1>5, <1>6, <1>7, <1>8 DEF Sound, At, Number

\* A step that changes neither versions nor events.
LEMMA LineStays ==
  ASSUME Line, store'.versions = store.versions, store'.events = store.events
  PROVE  Line'
<1>1. \A t \in Target : VersionsOf(t)' = VersionsOf(t)
  BY DEF VersionsOf, Present
<1>2. \A t \in Target, c \in Change \cup {None} : IsLatest(c, t)' <=> IsLatest(c, t)
  BY <1>1 DEF IsLatest, Number
<1>3. \A t \in Target : \A c \in VersionsOf(t) : c \in Change
  BY DEF VersionsOf
<1> QED
  BY <1>1, <1>2, <1>3 DEF Line, Unique, Chained, OnlyNewest, Linked, Number

LEMMA ActiveStays ==
  ASSUME NEW t \in Target, HasActive(t), store'.versions = store.versions,
         \A x \in Writer : Between(x, t) => Between(x, t)'
  PROVE  HasActive(t)'
<1>1. VersionsOf(t)' = VersionsOf(t)
  BY DEF VersionsOf, Present
<1>2. \A c \in Change \cup {None} : IsLatest(c, t)' <=> IsLatest(c, t)
  BY <1>1 DEF IsLatest, Number
<1> QED
  BY <1>1, <1>2 DEF HasActive, VersionsOf

LEMMA KeptAsItIs ==
  ASSUME store'.versions = store.versions
  PROVE  \A c \in Change : Present(c) => Kept(c)
BY DEF Present, Kept

LEMMA StartStep ==
  ASSUME TypeOK, TypeOK', Undisturbed, NEW w \in Writer, NEW c \in Change, Start(w, c)
  PROVE  Undisturbed'
<1>1. /\ store' = store /\ gaps' = gaps /\ started' = started \cup {c} /\ c \notin started
      /\ op[w].step = "idle"
  BY DEF Start, At
<1>2. /\ op'[w].step = "recording" /\ op'[w].change = c /\ op'[w].previous = None
      /\ op'[w].read = Absent
      /\ \A x \in Writer : x # w => op'[x] = op[x]
  BY Starting
<1>3. \A x \in Writer : op[x].step # "idle" => op[x].change # c
  BY <1>1 DEF Undisturbed, Sound, At
<1>4. \A x \in Writer : x # w => Sound(x)'
  <2> SUFFICES ASSUME NEW x \in Writer, x # w PROVE Sound(x)'
    OBVIOUS
  <2>1. Sound(x) /\ started \subseteq started'
    BY <1>1 DEF Undisturbed
  <2>2. op[x].step # "idle" => (Present(op[x].change)' => Present(op[x].change))
    BY <1>1, <1>2 DEF Present
  <2> QED
    BY <1>1, <1>2, <1>3, <2>1, <2>2, KeptAsItIs, OthersStaySound
<1>5. Sound(w)'
  <2>1. ~Present(c)'
    BY <1>1 DEF Undisturbed, Unborn, Present
  <2> QED
    BY <1>1, <1>2, <1>3, <2>1 DEF Sound, At
<1>6. Unborn'
  BY <1>1 DEF Undisturbed, Unborn, Present
<1>7. Line'
  BY <1>1, LineStays DEF Undisturbed
<1>8. \A t \in Target \ gaps : HasActive(t)'
  <2>1. \A t \in Target, x \in Writer : Between(x, t) => Between(x, t)'
    BY <1>1, <1>2 DEF Between, At
  <2> QED
    BY <1>1, <2>1, ActiveStays DEF Undisturbed
<1> QED
  BY <1>1, <1>4, <1>5, <1>6, <1>7, <1>8 DEF Undisturbed

LEMMA ReadStep ==
  ASSUME TypeOK, TypeOK', Undisturbed, NEW w \in Writer, ReadLatest(w)
  PROVE  Undisturbed'
<1> DEFINE t == TargetOf[op[w].change]
<1>1. PICK c \in Change \cup {None} :
           IsLatest(c, t) /\ Reads(w, c, IF c = None THEN "versioning" ELSE "superseding")
  BY DEF ReadLatest
<1> DEFINE step == IF c = None THEN "versioning" ELSE "superseding"
<1>2. /\ store' = store /\ gaps' = gaps /\ started' = started
      /\ op[w].step = "reading" /\ step \in Step /\ op[w].change \in Change
  BY <1>1 DEF ReadLatest, Reads, At, Step, TypeOK
<1>3. /\ op'[w].step = step /\ op'[w].change = op[w].change /\ op'[w].previous = c
      /\ op'[w].read = (IF c = None THEN Absent ELSE store.versions[c])
      /\ op'[w].seen = VersionsOf(t)
      /\ \A x \in Writer : x # w => op'[x] = op[x]
  <2> HIDE DEF step
  <2> QED
    BY <1>1, <1>2, Reading DEF step, At
<1>4. \A x \in Writer \ {w} : op[x].step # "idle" => op[x].change # op[w].change
  BY <1>2 DEF Undisturbed, Sound, At
<1>5. \A x \in Writer : x # w => Sound(x)'
  <2> SUFFICES ASSUME NEW x \in Writer, x # w PROVE Sound(x)'
    OBVIOUS
  <2>1. Sound(x) /\ started \subseteq started'
    BY <1>2 DEF Undisturbed
  <2>2. op[x].step # "idle" => (Present(op[x].change)' => Present(op[x].change))
    BY <1>2, <1>3 DEF Present
  <2> QED
    BY <1>2, <1>3, <1>4, <2>1, <2>2, KeptAsItIs, OthersStaySound
<1>6. VersionsOf(t)' = VersionsOf(t)
  BY <1>2, <1>3 DEF VersionsOf, Present
<1>7. Sound(w)'
  <2>1. op[w].change \in started /\ ~Present(op[w].change)
    BY <1>2 DEF Undisturbed, Sound, At
  <2>2. ~Present(op[w].change)'
    BY <2>1, <1>2, <1>3 DEF Present
  <2>3. CASE c = None
    BY <2>1, <2>2, <2>3, <1>1, <1>2, <1>3, <1>4, <1>6 DEF Sound, At, IsLatest, VersionsOf
  <2>4. CASE c # None
    BY <2>1, <2>2, <2>4, <1>1, <1>2, <1>3, <1>4, <1>6 DEF Sound, At, IsLatest, Number, Present
  <2> QED
    BY <2>3, <2>4
<1>8. Unborn'
  BY <1>2 DEF Undisturbed, Unborn, Present
<1>9. Line'
  BY <1>2, LineStays DEF Undisturbed
<1>10. \A u \in Target \ gaps : HasActive(u)'
  <2>1. \A u \in Target, x \in Writer : Between(x, u) => Between(x, u)'
    BY <1>2, <1>3 DEF Between, At
  <2> QED
    BY <1>2, <2>1, ActiveStays DEF Undisturbed
<1> QED
  BY <1>2, <1>5, <1>7, <1>8, <1>9, <1>10 DEF Undisturbed

LEMMA ListStep ==
  ASSUME TypeOK, TypeOK', Undisturbed, NEW w \in Writer, List(w)
  PROVE  Undisturbed'
<1>1. /\ store' = store /\ gaps' = gaps /\ started' = started
  BY DEF List
<1>2. /\ op'[w].step = op[w].step /\ op'[w].change = op[w].change
      /\ op'[w].previous = op[w].previous /\ op'[w].read = op[w].read
      /\ op'[w].seen = op[w].seen
      /\ \A x \in Writer : x # w => op'[x] = op[x]
  BY Listing
<1>3. \A t \in Target : VersionsOf(t)' = VersionsOf(t)
  BY <1>1 DEF VersionsOf, Present
<1>4. \A x \in Writer : Sound(x)'
  <2> SUFFICES ASSUME NEW x \in Writer PROVE Sound(x)'
    OBVIOUS
  <2>1. /\ op'[x].step = op[x].step /\ op'[x].change = op[x].change
        /\ op'[x].previous = op[x].previous /\ op'[x].read = op[x].read
        /\ op'[x].seen = op[x].seen
    BY <1>2
  <2>2. \A y \in Writer \ {x} : op'[y].step = op[y].step /\ op'[y].change = op[y].change
    BY <1>2
  <2>3. \A u : VersionsOf(u)' = VersionsOf(u)
    BY <1>1 DEF VersionsOf, Present
  <2>4. Sound(x)
    BY DEF Undisturbed
  <2> QED
    BY <1>1, <2>1, <2>2, <2>3, <2>4 DEF Sound, At, Number, Present
<1>5. Unborn'
  BY <1>1 DEF Undisturbed, Unborn, Present
<1>6. Line'
  BY <1>1, LineStays DEF Undisturbed
<1>7. \A t \in Target \ gaps : HasActive(t)'
  <2>1. \A t \in Target, x \in Writer : Between(x, t) => Between(x, t)'
    BY <1>1, <1>2 DEF Between, At
  <2> QED
    BY <1>1, <2>1, ActiveStays DEF Undisturbed
<1> QED
  BY <1>1, <1>4, <1>5, <1>6, <1>7 DEF Undisturbed

\* The writer that takes the step is idle after it, the versions are as they were.
LEMMA OthersAfterTheEnd ==
  ASSUME TypeOK, TypeOK', Undisturbed, NEW w \in Writer, op' = [op EXCEPT ![w] = Idle],
         store'.versions = store.versions, started' = started
  PROVE  \A x \in Writer : Sound(x)'
<1>1. op'[w] = Idle /\ \A x \in Writer : x # w => op'[x] = op[x]
  BY Ending
<1>2. Sound(w)'
  BY <1>1, IdleIsAnOperation DEF Sound, At
<1>3. ASSUME NEW x \in Writer, x # w PROVE Sound(x)'
  <2>1. Sound(x) /\ started \subseteq started' /\ op'[w].step = "idle"
    BY <1>1, IdleIsAnOperation DEF Undisturbed
  <2>2. op[x].step # "idle" => (Present(op[x].change)' => Present(op[x].change))
    BY <1>1, <1>3 DEF Present
  <2> QED
    BY <1>1, <1>3, <2>1, <2>2, KeptAsItIs, OthersStaySound
<1> QED
  BY <1>2, <1>3

LEMMA StopStep ==
  ASSUME TypeOK, TypeOK', Undisturbed, NEW w \in Writer, Stop(w)
  PROVE  Undisturbed'
<1>1. /\ store' = store /\ started' = started /\ op' = [op EXCEPT ![w] = Idle]
      /\ gaps' = gaps \cup {t \in Target : Between(w, t)}
  BY DEF Stop
<1>2. \A x \in Writer : x # w => op'[x] = op[x]
  BY <1>1
<1>3. \A x \in Writer : Sound(x)'
  BY <1>1, OthersAfterTheEnd
<1>4. Unborn'
  BY <1>1 DEF Undisturbed, Unborn, Present
<1>5. Line'
  BY <1>1, LineStays DEF Undisturbed
<1>6. \A t \in Target \ gaps' : HasActive(t)'
  <2>1. \A t \in Target \ gaps', x \in Writer : Between(x, t) => Between(x, t)'
    BY <1>1, <1>2 DEF Between, At
  <2> QED
    BY <1>1, <2>1, ActiveStays DEF Undisturbed
<1> QED
  BY <1>3, <1>4, <1>5, <1>6 DEF Undisturbed

LEMMA RecordStep ==
  ASSUME TypeOK, TypeOK', Undisturbed, NEW w \in Writer, Record(w)
  PROVE  Undisturbed'
<1>1. /\ store'.versions = store.versions /\ store'.events = store.events
      /\ started' = started /\ gaps' = gaps /\ op[w].step = "recording"
  BY DEF Record, Replaces, At, RepositoryOf, TypeOK, Store
<1>2. /\ op'[w].step = "reading" /\ op'[w].change = op[w].change
      /\ op'[w].previous = op[w].previous /\ op'[w].read = op[w].read
      /\ \A x \in Writer : x # w => op'[x] = op[x]
  BY Replacing DEF Record, Step
<1>3. Sound(w)
  BY DEF Undisturbed
<1>4. ASSUME NEW x \in Writer, x # w PROVE Sound(x)'
  <2>1. Sound(x) /\ started \subseteq started'
    BY <1>1 DEF Undisturbed
  <2>2. op[x].step # "idle" => (Present(op[x].change)' => Present(op[x].change))
    BY <1>1, <1>2, <1>4 DEF Present
  <2>3. op[x].step # "idle" => op[x].change # op'[w].change
    BY <1>1, <1>2, <1>3, <1>4 DEF Sound, At
  <2> QED
    BY <1>1, <1>2, <1>4, <2>1, <2>2, <2>3, KeptAsItIs, OthersStaySound
<1>5. Sound(w)'
  BY <1>1, <1>2, <1>3 DEF Sound, At, Present
<1>6. Unborn'
  BY <1>1 DEF Undisturbed, Unborn, Present
<1>7. Line'
  BY <1>1, LineStays DEF Undisturbed
<1>8. \A t \in Target \ gaps : HasActive(t)'
  <2>1. \A t \in Target, x \in Writer : Between(x, t) => Between(x, t)'
    BY <1>1, <1>2 DEF Between, At
  <2> QED
    BY <1>1, <2>1, ActiveStays DEF Undisturbed
<1> QED
  BY <1>1, <1>4, <1>5, <1>6, <1>7, <1>8 DEF Undisturbed

LEMMA SupersedeStep ==
  ASSUME TypeOK, TypeOK', Undisturbed, NEW w \in Writer, Supersede(w), StillTrue(w)
  PROVE  Undisturbed'
<1> DEFINE c == op[w].change
           before == op[w].previous
           t == TargetOf[c]
<1>1. /\ op[w].step = "superseding" /\ started' = started /\ gaps' = gaps
      /\ op[w].items.versions = store.versions
  BY DEF Supersede, Replaces, At, StillTrue, RepositoryOf
<1>2. Sound(w) /\ c \in Change
  BY <1>1 DEF Undisturbed, TypeOK
<1>3. /\ before # None /\ before \in VersionsOf(t) /\ before \in Change
      /\ op[w].read.number = Number(before)
      /\ op[w].read.supersedes = store.versions[before].supersedes
      /\ op[w].seen \subseteq VersionsOf(t) /\ before \in op[w].seen
      /\ \A d \in op[w].seen : Number(d) <= Number(before)
  BY <1>1, <1>2 DEF Sound, At, VersionsOf
<1>4. /\ store'.events = store.events
      /\ store'.versions = [store.versions EXCEPT
                              ![before] = [op[w].read EXCEPT !.status = "superseded"]]
  BY <1>1 DEF Supersede, Replaces, RepositoryOf, TypeOK, Store
<1>5. \A d \in Change : /\ store'.versions[d].number = Number(d)
                       /\ store'.versions[d].supersedes = store.versions[d].supersedes
                       /\ store'.versions[d].status = IF d = before THEN "superseded"
                                                     ELSE store.versions[d].status
  <2>1. op[w].read \in Version /\ store.versions \in [Change -> Version]
    BY DEF TypeOK, Operation, Store
  <2> QED
    BY <1>3, <1>4, <2>1 DEF Version, Number
<1>6. \A d \in Change : Present(d)' <=> Present(d)
  BY <1>3, <1>5 DEF Present, VersionsOf
<1>7. \A u : VersionsOf(u)' = VersionsOf(u)
  BY <1>6 DEF VersionsOf
<1>8. \A u \in Target, d \in Change \cup {None} : IsLatest(d, u)' <=> IsLatest(d, u)
  <2>1. \A d \in Change : Number(d)' = Number(d)
    BY <1>5 DEF Number
  <2>2. \A u : VersionsOf(u) \subseteq Change
    BY DEF VersionsOf
  <2> QED
    BY <1>7, <2>1, <2>2 DEF IsLatest
<1>9. /\ op'[w].step = "versioning" /\ op'[w].change = c
      /\ op'[w].previous = before /\ op'[w].read = op[w].read /\ op'[w].seen = op[w].seen
      /\ \A x \in Writer : x # w => op'[x] = op[x]
  BY Replacing DEF Supersede, Step
<1>10. ASSUME NEW x \in Writer, x # w PROVE Sound(x)'
  <2>1. Sound(x) /\ started \subseteq started'
    BY <1>1 DEF Undisturbed
  <2>2. op[x].step # "idle" => (Present(op[x].change)' => Present(op[x].change))
    BY <1>6, <1>9, <1>10 DEF TypeOK
  <2>3. op[x].step # "idle" => op[x].change # op'[w].change
    BY <1>1, <1>2, <1>9, <1>10 DEF Sound, At
  <2>4. \A d \in Change : Present(d) => Kept(d)
    BY <1>5, <1>6 DEF Kept, Present, Number
  <2> QED
    BY <1>9, <1>10, <2>1, <2>2, <2>3, <2>4, OthersStaySound
<1>11. Sound(w)'
  <2>1. c \in started /\ ~Present(c)' /\ op[w].seen \subseteq Change
    BY <1>1, <1>2, <1>6, <1>9 DEF Sound, At, TypeOK, Operation
  <2>2. \A y \in Writer \ {w} : op[y].step # "idle" => op[y].change # c
    BY <1>1, <1>2 DEF Sound, At
  <2>3. \A d \in op[w].seen : Number(d)' <= Number(before)'
    BY <1>3, <1>5, <1>9, <2>1 DEF Number
  <2> QED
    BY <1>1, <1>3, <1>5, <1>7, <1>9, <2>1, <2>2, <2>3 DEF Sound, At, Number
<1>12. Unborn'
  BY <1>1, <1>6 DEF Undisturbed, Unborn
<1>13. Line'
  <2> SUFFICES ASSUME NEW u \in Target
               PROVE  (Unique(u) /\ Chained(u) /\ OnlyNewest(u) /\ Linked(u))'
    BY DEF Line
  <2>1. Unique(u) /\ Chained(u) /\ OnlyNewest(u) /\ Linked(u)
    BY DEF Undisturbed, Line
  <2>2. \A d \in VersionsOf(u) : d \in Change
    BY DEF VersionsOf
  <2>3. Unique(u)'
    BY <2>1, <2>2, <1>5, <1>7 DEF Unique, Number
  <2>4. Chained(u)'
    BY <2>1, <2>2, <1>5, <1>7 DEF Chained, Number
  <2>5. OnlyNewest(u)'
    BY <2>1, <2>2, <1>5, <1>7, <1>8 DEF OnlyNewest
  <2>6. Linked(u)'
    BY <2>1, <2>2, <1>4, <1>5, <1>7 DEF Linked
  <2> QED
    BY <2>3, <2>4, <2>5, <2>6
<1>14. ASSUME NEW u \in Target \ gaps PROVE HasActive(u)'
  <2>1. CASE u = t
    BY <2>1, <1>3, <1>9 DEF HasActive, Between, At
  <2>2. CASE u # t
    <3>1. \A x \in Writer : Between(x, u) => Between(x, u)'
      BY <1>1, <1>9 DEF Between, At
    <3>2. \A d \in VersionsOf(u) : d \in Change /\ store'.versions[d].status = store.versions[d].status
      BY <2>2, <1>3, <1>5 DEF VersionsOf
    <3>3. HasActive(u)
      BY DEF Undisturbed
    <3> QED
      BY <3>1, <3>2, <3>3, <1>7, <1>8 DEF HasActive
  <2> QED
    BY <2>1, <2>2
<1> QED
  BY <1>1, <1>10, <1>11, <1>12, <1>13, <1>14 DEF Undisturbed

LEMMA LinkStep ==
  ASSUME TypeOK, TypeOK', Undisturbed, NEW w \in Writer, Link(w), StillTrue(w)
  PROVE  Undisturbed'
<1> DEFINE c == op[w].change
           event == [to |-> c, from |-> op[w].previous]
<1>1. /\ op[w].step = "linking" /\ started' = started /\ gaps' = gaps
      /\ op[w].items.events = store.events /\ op' = [op EXCEPT ![w] = Idle]
  BY DEF Link, Replaces, At, StillTrue, RepositoryOf
<1>2. /\ store'.versions = store.versions
      /\ store'.events = store.events \cup {event}
  BY <1>1 DEF Link, Replaces, RepositoryOf, TypeOK, Store
<1>3. \A x \in Writer : Sound(x)'
  BY <1>1, <1>2, OthersAfterTheEnd
<1>4. Unborn'
  BY <1>1, <1>2 DEF Undisturbed, Unborn, Present
<1>5. c \in VersionsOf(TargetOf[c]) /\ store.versions[c].supersedes = op[w].previous
  BY <1>1 DEF Undisturbed, Sound, At, VersionsOf, TypeOK
<1>6. \A u : VersionsOf(u)' = VersionsOf(u)
  BY <1>2 DEF VersionsOf, Present
<1>7. \A u \in Target, d \in Change \cup {None} : IsLatest(d, u)' <=> IsLatest(d, u)
  BY <1>2, <1>6 DEF IsLatest, Number
<1>8. Line'
  <2> SUFFICES ASSUME NEW u \in Target
               PROVE  (Unique(u) /\ Chained(u) /\ OnlyNewest(u) /\ Linked(u))'
    BY DEF Line
  <2>1. Unique(u) /\ Chained(u) /\ OnlyNewest(u) /\ Linked(u)
    BY DEF Undisturbed, Line
  <2>2. Unique(u)' /\ Chained(u)'
    BY <2>1, <1>2, <1>6 DEF Unique, Chained, Number
  <2>3. OnlyNewest(u)'
    BY <2>1, <1>2, <1>6, <1>7 DEF OnlyNewest, VersionsOf
  <2>4. Linked(u)'
    BY <2>1, <1>2, <1>5, <1>6 DEF Linked
  <2> QED
    BY <2>2, <2>3, <2>4
<1>9. \A u \in Target \ gaps : HasActive(u)'
  <2>1. \A u \in Target, x \in Writer : Between(x, u) => Between(x, u)'
    BY <1>1, Ending DEF Between, At
  <2> QED
    BY <1>2, <2>1, ActiveStays DEF Undisturbed
<1> QED
  BY <1>1, <1>3, <1>4, <1>8, <1>9 DEF Undisturbed

LEMMA AddStep ==
  ASSUME TypeOK, TypeOK', Undisturbed, NEW w \in Writer, AddVersion(w), StillTrue(w)
  PROVE  Undisturbed'
<1>0. PICK c \in Change, before \in Change \cup {None} : c = op[w].change /\ before = op[w].previous
  <2>1. op[w].change \in Change /\ op[w].previous \in Change \cup {None}
    BY DEF AddVersion, At, TypeOK, Operation
  <2> QED
    BY <2>1
<1> USE <1>0
<1> DEFINE t == TargetOf[c]
<1>1. /\ op[w].step = "versioning" /\ started' = started /\ gaps' = gaps \ {t}
      /\ op[w].items.versions = store.versions /\ op[w].seen = VersionsOf(t)
  BY DEF AddVersion, Replaces, At, StillTrue, RepositoryOf
<1>2. Sound(w) /\ c \in Change /\ t \in Target
  BY <1>1 DEF Undisturbed, TypeOK
<1>3. /\ c \in started /\ ~Present(c)
      /\ before = None => op[w].read = Absent /\ VersionsOf(t) = {}
      /\ before # None => /\ before \in VersionsOf(t)
                          /\ op[w].read.number = Number(before)
                          /\ op[w].read.supersedes = store.versions[before].supersedes
                          /\ \A d \in VersionsOf(t) : Number(d) <= Number(before)
                          /\ store.versions[before].status = "superseded"
      /\ \A y \in Writer \ {w} : op[y].step # "idle" => op[y].change # c
  BY <1>1, <1>2 DEF Sound, At
<1>4. /\ store'.events = store.events
      /\ store'.versions = [store.versions EXCEPT ![c] = NewVersion(w)]
  BY <1>1 DEF AddVersion, Replaces, RepositoryOf, TypeOK, Store
<1>5. /\ \A d \in Change \ {c} : store'.versions[d] = store.versions[d]
      /\ store'.versions[c].number = op[w].read.number + 1
      /\ store'.versions[c].status = "active"
      /\ store'.versions[c].supersedes = before
  BY <1>2, <1>4 DEF NewVersion, TypeOK, Store
<1>6. \A d \in Change : Number(d) \in Nat /\ Number(d)' \in Nat
  BY DEF TypeOK, Store, Version, Number
<1>7. \A d \in Change : Present(d)' <=> Present(d) \/ d = c
  BY <1>2, <1>5 DEF Present
<1>8. \A u : VersionsOf(u)' = IF u = t THEN VersionsOf(u) \cup {c} ELSE VersionsOf(u)
  BY <1>2, <1>7 DEF VersionsOf
<1>9. \A u : \A d \in VersionsOf(u) : d \in Change /\ d # c
  BY <1>3 DEF VersionsOf
<1>10. \A u : \A d \in VersionsOf(u) : Number(d)' = Number(d)
  BY <1>5, <1>9 DEF Number
<1>11. \A d \in VersionsOf(t) : Number(d) < Number(c)'
  BY <1>3, <1>5, <1>6, <1>9 DEF Number, TypeOK, Operation
<1>12. /\ op'[w].step = "linking" /\ op'[w].change = c
      /\ op'[w].previous = before /\ op'[w].read = op[w].read
      /\ \A x \in Writer : x # w => op'[x] = op[x]
  BY Replacing DEF AddVersion, Step
<1>13. ASSUME NEW x \in Writer, x # w PROVE Sound(x)'
  <2>1. Sound(x) /\ started \subseteq started'
    BY <1>1 DEF Undisturbed
  <2>2. op[x].step # "idle" => op[x].change # op'[w].change
    BY <1>3, <1>12, <1>13
  <2>3. op[x].step # "idle" => (Present(op[x].change)' => Present(op[x].change))
    BY <1>7, <1>12, <1>13, <2>2 DEF TypeOK
  <2>4. \A d \in Change : Present(d) => Kept(d)
    BY <1>3, <1>5 DEF Kept, Present
  <2> QED
    BY <1>12, <1>13, <2>1, <2>2, <2>3, <2>4, OthersStaySound
<1>14. Sound(w)'
  <2>1. Present(c)' /\ \A y \in Writer \ {w} : op'[y].step # "idle" => op'[y].change # c
    BY <1>2, <1>3, <1>7, <1>12
  <2>2. before # None => /\ before \in VersionsOf(t)'
                         /\ op[w].read.number = Number(before)'
                         /\ op[w].read.supersedes = store'.versions[before].supersedes
    BY <1>3, <1>5, <1>8, <1>9, <1>10, <1>12
  <2> QED
    BY <1>1, <1>3, <1>5, <1>12, <2>1, <2>2 DEF Sound, At
<1>15. Unborn'
  BY <1>1, <1>3, <1>7 DEF Undisturbed, Unborn
<1>16. Line'
  <2> SUFFICES ASSUME NEW u \in Target
               PROVE  (Unique(u) /\ Chained(u) /\ OnlyNewest(u) /\ Linked(u))'
    BY DEF Line
  <2>1. Unique(u) /\ Chained(u) /\ OnlyNewest(u) /\ Linked(u)
    BY DEF Undisturbed, Line
  <2>2. Linked(u)'
    BY <2>1, <1>4, <1>5, <1>8, <1>9 DEF Linked
  <2>3. CASE u # t
    <3>1. VersionsOf(u)' = VersionsOf(u)
      BY <2>3, <1>8
    <3>2. Unique(u)'
      BY <2>1, <3>1, <1>10 DEF Unique
    <3>3. Chained(u)'
      BY <2>1, <3>1, <1>5, <1>9, <1>10 DEF Chained
    <3>4. OnlyNewest(u)'
      BY <2>1, <3>1, <1>5, <1>9, <1>10 DEF OnlyNewest, IsLatest
    <3> QED
      BY <3>2, <3>3, <3>4, <2>2
  <2>4. CASE u = t
    <3>1. VersionsOf(t)' = VersionsOf(t) \cup {c}
      BY <1>8
    <3>2. \A d \in VersionsOf(t) : Number(d)' < Number(c)' /\ d # c
      BY <1>9, <1>10, <1>11
    <3>3. Unique(t)'
      <4> SUFFICES ASSUME NEW d \in VersionsOf(t)', NEW e \in VersionsOf(t)', Number(d)' = Number(e)'
                   PROVE  d = e
        BY <1>12 DEF Unique
      <4>1. d \in Change /\ e \in Change
        BY <3>1, <1>2, <1>9
      <4>2. CASE d = c \/ e = c
        BY <4>1, <4>2, <3>1, <3>2, <1>6
      <4>3. CASE d # c /\ e # c
        BY <4>3, <3>1, <2>1, <2>4, <1>10 DEF Unique
      <4> QED
        BY <4>2, <4>3
    <3>4. Chained(t)'
      <4> SUFFICES ASSUME NEW d \in VersionsOf(t)'
                   PROVE  LET b == store'.versions[d].supersedes
                          IN  IF b = None THEN store'.versions[d].number = 1
                              ELSE /\ b \in VersionsOf(t)'
                                   /\ store'.versions[d].number = store'.versions[b].number + 1
        BY DEF Chained, Number
      <4>1. CASE d = c
        <5>1. CASE before = None
          BY <4>1, <5>1, <1>3, <1>5 DEF Number, Absent
        <5>2. CASE before # None
          <6>1. before \in VersionsOf(t) /\ store'.versions[before].number = Number(before)
            BY <5>2, <1>3, <1>5, <1>9 DEF Number
          <6>2. store'.versions[c].number = Number(before) + 1
            BY <5>2, <1>3, <1>5
          <6> QED
            BY <4>1, <5>2, <6>1, <6>2, <3>1, <1>5
        <5> QED
          BY <5>1, <5>2
      <4>2. CASE d # c
        <5> DEFINE b == store.versions[d].supersedes
        <5>1. d \in VersionsOf(t) /\ d \in Change /\ store'.versions[d].supersedes = b
          BY <4>2, <3>1, <1>5, <1>9
        <5>2. IF b = None THEN Number(d) = 1 ELSE b \in VersionsOf(t) /\ Number(d) = Number(b) + 1
          BY <5>1, <2>1, <2>4 DEF Chained
        <5>3. store'.versions[d].number = Number(d)
          BY <5>1, <1>5, <1>9 DEF Number
        <5>4. CASE b = None
          BY <5>1, <5>2, <5>3, <5>4
        <5>5. CASE b # None
          <6>1. b \in VersionsOf(t) /\ store'.versions[b].number = Number(b)
            BY <5>2, <5>5, <1>5, <1>9 DEF Number
          <6> QED
            BY <5>1, <5>2, <5>3, <5>5, <6>1, <3>1
        <5> QED
          BY <5>4, <5>5
      <4> QED
        BY <4>1, <4>2
    <3>5. OnlyNewest(t)'
      <4>1. ASSUME NEW d \in VersionsOf(t), store.versions[d].status = "active" PROVE FALSE
        <5>1. IsLatest(d, t)
          BY <4>1, <2>1, <2>4 DEF OnlyNewest
        <5>2. before # None /\ before \in VersionsOf(t) /\ Number(before) <= Number(d)
              /\ Number(d) <= Number(before)
          BY <5>1, <4>1, <1>3, <1>9 DEF IsLatest, TypeOK
        <5>3. Number(d) = Number(before)
          BY <5>2, <1>6, <1>9, <4>1
        <5>4. d = before
          BY <5>2, <5>3, <4>1, <2>1, <2>4 DEF Unique
        <5> QED
          BY <5>2, <5>4, <4>1, <1>3
      <4>2. IsLatest(c, t)'
        BY <3>1, <3>2, <1>2, <1>6, <1>9, <1>12 DEF IsLatest
      <4> QED
        BY <4>1, <4>2, <3>1, <1>5, <1>9, <1>12 DEF OnlyNewest
    <3> QED
      BY <3>3, <3>4, <3>5, <2>2, <2>4, <1>12
  <2> QED
    BY <2>3, <2>4
<1>17. ASSUME NEW u \in Target \ gaps' PROVE HasActive(u)'
  <2>1. CASE u = t
    <3>1. VersionsOf(t)' = VersionsOf(t) \cup {c}
      BY <1>8
    <3>2. \A d \in VersionsOf(t) : Number(d)' < Number(c)' /\ d # c
      BY <1>9, <1>10, <1>11
    <3>3. ASSUME NEW d \in VersionsOf(t)', IsLatest(d, t)' PROVE d = c
      <4>1. d # None /\ Number(c)' <= Number(d)'
        BY <3>1, <3>3, <1>2, <1>9, <1>12 DEF IsLatest
      <4> QED
        BY <4>1, <3>1, <3>2, <1>2, <1>6, <1>9
    <3> QED
      BY <2>1, <3>3, <1>5, <1>12 DEF HasActive
  <2>2. CASE u # t
    <3>1. u \in Target \ gaps /\ VersionsOf(u)' = VersionsOf(u)
      BY <1>1, <2>2, <1>8
    <3>2. HasActive(u)
      BY <3>1 DEF Undisturbed
    <3>3. \A x \in Writer : Between(x, u) => Between(x, u)'
      BY <2>2, <1>12 DEF Between, At
    <3>4. \A d \in VersionsOf(u) : IsLatest(d, u)' => IsLatest(d, u)
      BY <3>1, <1>9, <1>10 DEF IsLatest
    <3> QED
      BY <3>1, <3>2, <3>3, <3>4, <1>5, <1>9 DEF HasActive
  <2> QED
    BY <2>1, <2>2
<1> QED
  BY <1>13, <1>14, <1>15, <1>16, <1>17 DEF Undisturbed

-----------------------------------------------------------------------------

LEMMA VersionsStep == VersionsInv /\ [Next]_vars => VersionsInv'
<1> SUFFICES ASSUME VersionsInv, [Next]_vars PROVE VersionsInv'
  OBVIOUS
<1>1. TypeOK /\ (~interfered => Undisturbed)
  BY Parts
<1>2. CASE UNCHANGED vars
  <2>1. (TypeOK' <=> TypeOK) /\ (Undisturbed' <=> Undisturbed) /\ interfered' = interfered
    BY <1>2 DEF vars, TypeOK, Undisturbed, Unborn, Sound, Line, Unique, Chained, OnlyNewest,
       Linked, HasActive, Between, IsLatest, VersionsOf, Number, Present, At
  <2> QED
    BY <1>1, <2>1, PartsNext
<1>3. CASE Next
  <2>1. PICK w \in Writer :
          \/ (\E c \in Change : Start(w, c)) \/ ReadLatest(w) \/ List(w) \/ Stop(w)
          \/ Record(w) \/ Supersede(w) \/ AddVersion(w) \/ Link(w)
    BY <1>3 DEF Next
  <2>2. CASE (\E c \in Change : Start(w, c)) \/ ReadLatest(w) \/ List(w) \/ Stop(w)
    <3>1. TypeOK'
      BY <1>1, <2>2, QuietTypes
    <3>2. interfered' = interfered
      BY <2>2 DEF Start, ReadLatest, Reads, List, Stop
    <3>3. ~interfered => Undisturbed'
      BY <1>1, <2>2, <3>1, StartStep, ReadStep, ListStep, StopStep
    <3> QED
      BY <3>1, <3>2, <3>3, PartsNext
  <2>3. CASE Record(w) \/ Supersede(w) \/ AddVersion(w) \/ Link(w)
    <3>1. TypeOK'
      BY <1>1, <2>3, UpsertTypes
    <3>2. interfered' = (interfered \/ ~StillTrue(w))
      BY <2>3 DEF Record, Supersede, AddVersion, Link, Replaces
    <3>3. ~interfered' => Undisturbed'
      BY <1>1, <2>3, <3>1, <3>2, RecordStep, SupersedeStep, AddStep, LinkStep
    <3> QED
      BY <3>1, <3>3, PartsNext
  <2> QED
    BY <2>1, <2>2, <2>3
<1> QED
  BY <1>2, <1>3

\* The invariant holds at all times. (create_event:14-47, _latest_version:49-57,
\* upsert:29-40.)
THEOREM VersionsHold == Spec => []VersionsInv
BY VersionsInit, VersionsStep, PTL DEF Spec

\* The versions of a target, which its events link, are a line, wherever
\* commands stop, as long as no writer acts on what another one has changed.
\* (create_event:16-47.)
THEOREM VersionsAreALine == Spec => []LineOfVersions
<1>1. VersionsInv => LineOfVersions
  BY DEF VersionsInv
<1> QED
  BY <1>1, VersionsHold, PTL

\* The latest version of a target is active but for the moment between the two
\* upserts that change it, or until the command after one that stopped there.
\* (create_event:16-33.)
THEOREM TheLatestIsActive == Spec => []LatestIsActive
<1>1. VersionsInv => LatestIsActive
  BY DEF VersionsInv
<1> QED
  BY <1>1, VersionsHold, PTL

-----------------------------------------------------------------------------
(* The refinement of the line of versions                                  *)

lineVars == <<store.versions, store.events, interfered>>

LEMMA SameLine ==
  /\ \A t : Lineage!Line(t) = VersionsOf(t)
  /\ \A c \in Change : Lineage!Newest(c) <=> c # None /\ IsLatest(c, TargetOf[c])
<1>1. \A t : Lineage!Line(t) = VersionsOf(t)
  BY DEF Lineage!Line, VersionsOf, Present
<1>2. \A c \in Change : c # None
  BY ChangeAssumption
<1> QED
  BY <1>1, <1>2 DEF Lineage!Newest, IsLatest, Number

\* The copy of the previous version that is written back is that version.
LEMMA SupersedeRefines ==
  ASSUME TypeOK, Undisturbed, NEW w \in Writer, Supersede(w), StillTrue(w),
         interfered' = interfered
  PROVE  \/ \E c \in Change : Lineage!Supersede(c)
         \/ UNCHANGED lineVars
<1>0. PICK c \in Change, before \in Change \cup {None} : c = op[w].change /\ before = op[w].previous
  <2>1. op[w].change \in Change /\ op[w].previous \in Change \cup {None}
    BY DEF Supersede, At, TypeOK, Operation
  <2> QED
    BY <2>1
<1> DEFINE t == TargetOf[c]
<1>1. op[w].step = "superseding" /\ op[w].items.versions = store.versions
  BY DEF Supersede, Replaces, At, StillTrue, RepositoryOf
<1>2. Sound(w)
  BY DEF Undisturbed
<1>3. /\ before \in VersionsOf(t) /\ before \in Change
      /\ op[w].read.number = Number(before)
      /\ op[w].read.supersedes = store.versions[before].supersedes
  BY <1>0, <1>1, <1>2 DEF Sound, At, VersionsOf
<1>4. /\ store'.events = store.events
      /\ store'.versions = [store.versions EXCEPT
                              ![before] = [op[w].read EXCEPT !.status = "superseded"]]
  BY <1>0, <1>1 DEF Supersede, Replaces, RepositoryOf, TypeOK, Store
<1>5. op[w].read \in Version /\ store.versions \in [Change -> Version]
  BY DEF TypeOK, Operation, Store
<1>6. [op[w].read EXCEPT !.status = "superseded"]
        = [store.versions[before] EXCEPT !.status = "superseded"]
  BY <1>3, <1>5 DEF Version, Number
<1>7. store'.versions = [store.versions EXCEPT ![before].status = "superseded"]
  BY <1>4, <1>6
<1>8. CASE store.versions[before].status = "active"
  <2>1. OnlyNewest(t) /\ t \in Target /\ TargetOf[before] = t
    BY <1>3, ChangeAssumption DEF Undisturbed, Line, VersionsOf
  <2>2. IsLatest(before, TargetOf[before]) /\ before # None
    BY <1>3, <1>8, <2>1, ChangeAssumption DEF OnlyNewest
  <2> QED
    BY <1>3, <1>4, <1>7, <2>2, SameLine DEF Lineage!Supersede
<1>9. CASE store.versions[before].status # "active"
  <2>1. store.versions[before].status = "superseded"
    BY <1>3, <1>5, <1>9 DEF VersionsOf, Present, Version
  <2>2. [store.versions[before] EXCEPT !.status = "superseded"] = store.versions[before]
    BY <1>3, <1>5, <2>1 DEF Version
  <2>3. store'.versions = store.versions
    BY <1>3, <1>4, <1>5, <1>6, <2>2
  <2> QED
    BY <1>4, <2>3 DEF lineVars
<1> QED
  BY <1>8, <1>9

\* Nothing came between the reading of the latest version and the new one.
LEMMA AddRefines ==
  ASSUME TypeOK, Undisturbed, NEW w \in Writer, AddVersion(w), StillTrue(w),
         interfered' = interfered
  PROVE  \E c \in Change : Lineage!First(c) \/ \E before \in Change : Lineage!Follow(c, before)
<1>0. PICK c \in Change, before \in Change \cup {None} : c = op[w].change /\ before = op[w].previous
  <2>1. op[w].change \in Change /\ op[w].previous \in Change \cup {None}
    BY DEF AddVersion, At, TypeOK, Operation
  <2> QED
    BY <2>1
<1> DEFINE t == TargetOf[c]
<1>1. /\ op[w].step = "versioning" /\ op[w].items.versions = store.versions
      /\ op[w].seen = VersionsOf(t)
  BY <1>0 DEF AddVersion, Replaces, At, StillTrue, RepositoryOf
<1>2. Sound(w)
  BY DEF Undisturbed
<1>3. /\ ~Present(c)
      /\ before = None => op[w].read = Absent /\ VersionsOf(t) = {}
      /\ before # None => /\ before \in VersionsOf(t)
                          /\ op[w].read.number = Number(before)
                          /\ \A d \in VersionsOf(t) : Number(d) <= Number(before)
                          /\ store.versions[before].status = "superseded"
  BY <1>0, <1>1, <1>2 DEF Sound, At
<1>4. /\ store'.events = store.events
      /\ store'.versions = [store.versions EXCEPT ![c] = NewVersion(w)]
  BY <1>0, <1>1 DEF AddVersion, Replaces, RepositoryOf, TypeOK, Store
<1>5. CASE before = None
  <2>1. NewVersion(w) = [number |-> 1, status |-> "active", supersedes |-> None]
    BY <1>0, <1>3, <1>5 DEF NewVersion, Absent
  <2> QED
    BY <1>3, <1>4, <1>5, <2>1, SameLine DEF Lineage!First
<1>6. CASE before # None
  <2>1. NewVersion(w) = [number |-> store.versions[before].number + 1, status |-> "active",
                         supersedes |-> before]
    BY <1>0, <1>3, <1>6 DEF NewVersion, Number
  <2>2. before \in Change /\ TargetOf[before] = t
    BY <1>3, <1>6 DEF VersionsOf
  <2>3. Lineage!Newest(before)
    BY <1>3, <1>6, <2>2, SameLine DEF IsLatest
  <2>4. Lineage!Follow(c, before)
    BY <1>3, <1>4, <1>6, <2>1, <2>2, <2>3 DEF Lineage!Follow, Present
  <2> QED
    BY <2>2, <2>4
<1> QED
  BY <1>5, <1>6

LEMMA LineageStep == VersionsInv /\ [Next]_vars => [Lineage!Next]_lineVars
<1> SUFFICES ASSUME VersionsInv, [Next]_vars PROVE [Lineage!Next]_lineVars
  OBVIOUS
<1>1. TypeOK /\ (~interfered => Undisturbed)
  BY Parts
<1>2. CASE UNCHANGED vars
  BY <1>2 DEF vars, lineVars
<1>3. CASE interfered'
  BY <1>3 DEF Lineage!Next, Lineage!Interfere
<1>4. CASE Next /\ ~interfered'
  <2>1. PICK w \in Writer :
          \/ (\E c \in Change : Start(w, c)) \/ ReadLatest(w) \/ List(w) \/ Stop(w)
          \/ Record(w) \/ Supersede(w) \/ AddVersion(w) \/ Link(w)
    BY <1>4 DEF Next
  <2>2. CASE (\E c \in Change : Start(w, c)) \/ ReadLatest(w) \/ List(w) \/ Stop(w)
    BY <2>2 DEF Start, ReadLatest, Reads, List, Stop, lineVars
  <2>3. CASE Record(w) \/ Supersede(w) \/ AddVersion(w) \/ Link(w)
    <3>1. interfered' = (interfered \/ ~StillTrue(w))
      BY <2>3 DEF Record, Supersede, AddVersion, Link, Replaces
    <3>2. ~interfered /\ StillTrue(w) /\ interfered' = interfered
      BY <1>1, <1>4, <3>1 DEF TypeOK
    <3>3. Undisturbed
      BY <1>1, <3>2
    <3>4. CASE Record(w)
      <4>1. op[w].step = "recording"
        BY <3>4 DEF Record, At
      <4>2. RepositoryOf[op[w].step] = "changes"
        BY <4>1 DEF RepositoryOf
      <4>3. store'.versions = store.versions /\ store'.events = store.events
        BY <1>1, <3>4, <4>2 DEF Record, Replaces, TypeOK, Store
      <4> QED
        BY <3>2, <4>3 DEF lineVars
    <3>5. CASE Supersede(w)
      BY <1>1, <3>2, <3>3, <3>5, SupersedeRefines DEF Lineage!Next
    <3>6. CASE AddVersion(w)
      BY <1>1, <3>2, <3>3, <3>6, AddRefines DEF Lineage!Next
    <3>7. CASE Link(w)
      <4> DEFINE c == op[w].change
      <4>1. op[w].step = "linking" /\ op[w].items.events = store.events /\ c \in Change
        BY <1>1, <3>2, <3>7 DEF Link, Replaces, At, StillTrue, RepositoryOf, TypeOK
      <4>2. /\ store'.versions = store.versions
            /\ store'.events = store.events \cup {[to |-> c, from |-> op[w].previous]}
        BY <1>1, <3>7, <4>1 DEF Link, Replaces, At, RepositoryOf, TypeOK, Store
      <4>3. Present(c) /\ store.versions[c].supersedes = op[w].previous
        BY <3>3, <4>1 DEF Undisturbed, Sound, At
      <4>4. Lineage!Link(c)
        BY <3>2, <4>2, <4>3 DEF Lineage!Link, Present
      <4> QED
        BY <3>2, <4>1, <4>4 DEF Lineage!Next
    <3> QED
      BY <2>3, <3>4, <3>5, <3>6, <3>7
  <2> QED
    BY <2>1, <2>2, <2>3
<1> QED
  BY <1>2, <1>3, <1>4

\* The four upserts of each change, interleaved with those of other writers,
\* implement the line of versions that is changed in one step.
THEOREM VersionsImplementLine == Spec => ImplementsVersionLine
<1>1. Init => Lineage!Init
  BY DEF Init, Empty, Absent, Lineage!Init
<1>2. VersionsInv /\ [Next]_vars => [Lineage!Next]_(Lineage!lineVars)
  BY LineageStep DEF lineVars, Lineage!lineVars
<1> QED
  BY <1>1, <1>2, VersionsHold, PTL DEF Spec, ImplementsVersionLine, Lineage!Spec
=============================================================================
