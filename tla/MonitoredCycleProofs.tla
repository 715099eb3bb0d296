-------------------------- MODULE MonitoredCycleProofs --------------------------
(***************************************************************************)
(* Theorems of the MAPE cycle over a scan and under a receipt, for any     *)
(* directory, any plan and any number of invocations, whose upserts may    *)
(* overlap in any way.                                                     *)
(***************************************************************************)
EXTENDS MonitoredCycle, OperationReceiptsProofs

USE ScanAssumption, CycleAssumption, MonitoredAssumption DEF ScanSteps

-----------------------------------------------------------------------------
(* What an upsert does to the repositories.                                *)

LEMMA Repositories ==
  /\ DOMAIN Empty = {"signals", "events", "snapshots", "workflows", "runs", "artifacts",
                     "proposals", "decisions", "cycles", "loops"}
  /\ RepositoryOf["signalling"] = "signals" /\ RepositoryOf["noting"] = "events"
  /\ RepositoryOf["snapshotting"] = "snapshots" /\ RepositoryOf["marking"] = "signals"
  /\ RepositoryOf["working"] = "workflows" /\ RepositoryOf["acting"] = "runs"
  /\ RepositoryOf["producing"] = "artifacts" /\ RepositoryOf["closing"] = "runs"
  /\ RepositoryOf["proposing"] = "proposals" /\ RepositoryOf["screening"] = "decisions"
  /\ RepositoryOf["settling"] = "proposals" /\ RepositoryOf["recording"] = "cycles"
  /\ RepositoryOf["looping"] = "loops"
BY DEF Empty, RepositoryOf

Storing == {"signalling", "noting", "snapshotting", "marking", "working", "acting", "producing",
            "closing", "proposing", "screening", "settling", "recording", "looping"}

LEMMA StoringSteps == DOMAIN RepositoryOf = Storing
BY DEF RepositoryOf, Storing

LEMMA AroundMember ==
  ASSUME NEW repository, NEW item
  PROVE  item \in Around(repository) <=>
           \/ item \in store[repository]
           \/ \E q \in Process : \E items \in listed[q] :
                /\ task[q].step \in DOMAIN RepositoryOf /\ RepositoryOf[task[q].step] = repository
                /\ item \in items
BY DEF Around

LEMMA UpsertedNames ==
  ASSUME NEW items, NEW record
  PROVE  /\ \A item \in items : item.name # record.name => item \in Upserted(items, record)
         /\ record \in Upserted(items, record)
         /\ \A item \in Upserted(items, record) : item \in items \/ item = record
BY DEF Upserted

\* Only p goes on, and what is still around was so, or is the record.
LEMMA PutsEffect ==
  ASSUME WorkTypeOK, NEW p \in Runner, NEW record, NEW next, Puts(p, record, next),
         NEW repository, task[p].step \in Storing, repository = RepositoryOf[task[p].step]
  PROVE  /\ task'[p] = next /\ task' = [task EXCEPT ![p] = next]
         /\ DOMAIN listed' = Process /\ listed'[p] = {}
         /\ \A q \in Process \ {p} : task'[q] = task[q] /\ listed'[q] = listed[q]
         /\ repository \in DOMAIN Empty /\ DOMAIN store' = DOMAIN Empty
         /\ \A other \in DOMAIN Empty \ {repository} : store'[other] = store[other]
         /\ repository \notin overtaken' => store'[repository] = Upserted(store[repository], record)
         /\ overtaken \subseteq overtaken' /\ overtaken' \subseteq overtaken \cup {repository}
         /\ (\A items \in listed[p] : items = store[repository]) => overtaken' = overtaken
         /\ record \in store'[repository]
         /\ \A other \in DOMAIN Empty : \A item \in Around(other)' :
              item \in Around(other) \/ (other = repository /\ item = record)
<1>1. repository \in DOMAIN Empty
  BY Repositories DEF Storing
<1>2. task \in [Process -> Task] /\ DOMAIN store = DOMAIN Empty /\ DOMAIN listed = Process
  BY DEF WorkTypeOK
<1>3. PICK items \in listed[p] :
        /\ store' = [store EXCEPT ![repository] = Upserted(items, record)]
        /\ overtaken' = IF items = store[repository] THEN overtaken ELSE overtaken \cup {repository}
        /\ listed' = [listed EXCEPT ![p] = {}]
        /\ task' = [task EXCEPT ![p] = next]
  BY DEF Puts
<1>4. /\ task'[p] = next /\ DOMAIN listed' = Process /\ listed'[p] = {}
      /\ \A q \in Process \ {p} : task'[q] = task[q] /\ listed'[q] = listed[q]
      /\ store'[repository] = Upserted(items, record) /\ DOMAIN store' = DOMAIN Empty
      /\ \A other \in DOMAIN Empty \ {repository} : store'[other] = store[other]
  BY <1>1, <1>2, <1>3
<1>5. ASSUME NEW other \in DOMAIN Empty, NEW item \in Around(other)'
      PROVE  item \in Around(other) \/ (other = repository /\ item = record)
  <2>1. CASE item \in store'[other]
    <3>1. CASE other = repository
      <4>1. item \in items \/ item = record
        BY <2>1, <3>1, <1>4, UpsertedNames
      <4>2. item \in items => item \in Around(repository)
        BY StoringSteps, AroundMember
      <4> QED
        BY <3>1, <4>1, <4>2
    <3>2. CASE other # repository
      BY <2>1, <3>2, <1>4, AroundMember
    <3> QED
      BY <3>1, <3>2
  <2>2. CASE item \notin store'[other]
    <3>1. item \in store'[other] \/ \E q \in Process : \E list \in listed'[q] :
            /\ task'[q].step \in DOMAIN RepositoryOf /\ RepositoryOf[task'[q].step] = other
            /\ item \in list
      BY <1>5 DEF Around
    <3>2. PICK q \in Process : \E list \in listed'[q] :
            /\ task'[q].step \in DOMAIN RepositoryOf /\ RepositoryOf[task'[q].step] = other
            /\ item \in list
      BY <2>2, <3>1
    <3>3. q # p
      BY <3>2, <1>4
    <3> QED
      BY <3>2, <3>3, <1>4, AroundMember
  <2> QED
    BY <2>1, <2>2
<1>6. record \in store'[repository]
  BY <1>4, UpsertedNames
<1>7. /\ overtaken \subseteq overtaken' /\ overtaken' \subseteq overtaken \cup {repository}
      /\ repository \notin overtaken' => items = store[repository]
  BY <1>3
<1>8. (\A list \in listed[p] : list = store[repository]) => overtaken' = overtaken
  BY <1>3
<1> QED
  BY <1>1, <1>3, <1>4, <1>5, <1>6, <1>7, <1>8

\* Which promises about an item survive a step of p about the item x: all
\* but those of x that the step is about to redo, and those that an upsert
\* took away.  Nothing is around that was not so before, but what p stored.
Grows(p, x) ==
  /\ \A repository \in DOMAIN Empty \ overtaken' : \A name :
       Stored(repository, name) => Stored(repository, name)'
  /\ Kept(ScanParts)' => \A f, content : IsReported(f, content) => IsReported(f, content)'
  /\ Kept(CycleParts)' => \A q \in Runner : \A y :
       /\ Marked(<<q, y>>) /\ (task[p].step # "signalling" \/ <<q, y>> # <<p, x>>)
            => Marked(<<q, y>>)'
       /\ Produced(<<q, y>>) /\ (task[p].step # "acting" \/ <<q, y>> # <<p, x>>)
            => Produced(<<q, y>>)'
       /\ Screened(<<q, y>>) /\ (task[p].step # "proposing" \/ <<q, y>> # <<p, x>>)
            => Screened(<<q, y>>)'
  /\ \A q \in Runner \ {p} : \A y : Held("events", <<q, y>>)' => Held("events", <<q, y>>)
  /\ task[p].step # "noting" => \A y : Held("events", y)' => Held("events", y)
  /\ \A repository \in {"snapshots", "cycles"} :
       LET step == IF repository = "cycles" THEN "recording" ELSE "snapshotting"
       IN  /\ task[p].step # step =>
                /\ Around(repository)' \subseteq Around(repository)
                /\ store'[repository] = store[repository]
                /\ repository \in overtaken' => repository \in overtaken
           /\ repository \notin overtaken' => store[repository] \subseteq store'[repository]
           /\ \E new : \A item \in Around(repository)' :
                item \in Around(repository) \/ (item = new /\ new.name = p /\ ~Held(repository, p))
  /\ \A q \in Process \ {p} : task'[q] = task[q] /\ listed'[q] = listed[q]
  /\ task' = [task EXCEPT ![p] = task'[p]]
  /\ listed'[p] = {} /\ DOMAIN listed' = Process
  /\ overtaken \subseteq overtaken' /\ overtaken' \subseteq DOMAIN Empty
  /\ DOMAIN store' = DOMAIN Empty

LEMMA KeptBefore ==
  ASSUME overtaken \subseteq overtaken'
  PROVE  \A repositories : Kept(repositories)' => Kept(repositories)
BY DEF Kept

LEMMA PutsGrow ==
  ASSUME WorkTypeOK, NEW p \in Runner, NEW x, NEW record, NEW next, Puts(p, record, next),
         task[p].step \in Storing,
         task[p].step \notin {"snapshotting", "recording", "looping"} => record.name = <<p, x>>,
         task[p].step = "noting" => ~Held("events", <<p, x>>),
         task[p].step = "marking" => record.marked,
         task[p].step = "closing" => record.status = "completed" /\ record.artifact,
         task[p].step = "settling" => record.screened,
         task[p].step = "recording" => record.name = p /\ ~Held("cycles", p),
         task[p].step = "snapshotting" => record.name = p /\ ~Held("snapshots", p)
  PROVE  Grows(p, x)
<1> DEFINE step == task[p].step
           repository == RepositoryOf[step]
<1>1. /\ \A q \in Process \ {p} : task'[q] = task[q] /\ listed'[q] = listed[q]
      /\ repository \notin overtaken' => store'[repository] = Upserted(store[repository], record)
      /\ \A other \in DOMAIN Empty \ {repository} : store'[other] = store[other]
      /\ repository \in DOMAIN Empty
      /\ DOMAIN store' = DOMAIN Empty
      /\ listed'[p] = {} /\ DOMAIN listed' = Process
      /\ record \in store'[repository]
      /\ overtaken \subseteq overtaken' /\ overtaken' \subseteq DOMAIN Empty
      /\ overtaken' \subseteq overtaken \cup {repository}
      /\ task' = [task EXCEPT ![p] = task'[p]]
  <2>1. overtaken \subseteq DOMAIN Empty
    BY DEF WorkTypeOK
  <2> QED
    BY <2>1, PutsEffect
<1>2. ASSUME NEW other \in DOMAIN Empty
      PROVE  /\ other \notin overtaken' => \A item \in store[other] :
                  other # repository \/ item.name # record.name => item \in store'[other]
             /\ other \notin overtaken' => \A item \in store'[other] :
                  item \in store[other] \/ (other = repository /\ item = record)
             /\ other = repository => record \in store'[other]
             /\ \A item \in Around(other)' :
                  item \in Around(other) \/ (other = repository /\ item = record)
  <2>1. \A item \in Around(other)' : item \in Around(other) \/ (other = repository /\ item = record)
    BY PutsEffect
  <2> QED
    BY <1>1, <2>1, UpsertedNames
<1>3. step \in Storing
  OBVIOUS
<1> HIDE DEF step, repository
<1>4. ASSUME NEW other \in DOMAIN Empty \ overtaken', NEW name, Stored(other, name)
      PROVE  Stored(other, name)'
  BY <1>2, <1>4 DEF Stored
<1>5. ASSUME Kept(ScanParts)', NEW f, NEW content, IsReported(f, content)
      PROVE  IsReported(f, content)'
  <2>1. PICK e \in store["events"] :
          e.name[2] = f /\ e.to = content /\ Stored("signals", e.signal)
    BY <1>5 DEF IsReported, Stored
  <2>2. {"events", "signals"} \subseteq DOMAIN Empty \ overtaken'
    BY <1>5, Repositories DEF Kept, ScanParts
  <2>3. Stored("signals", e.signal)'
    BY <1>4, <2>1, <2>2
  <2>4. e \in store'["events"]
    <3>1. CASE step = "noting"
      <4>1. record.name = <<p, x>> /\ ~Held("events", <<p, x>>)
        BY <3>1 DEF step
      <4>2. e \in Around("events")
        BY <2>1, AroundMember
      <4> QED
        BY <4>1, <4>2, <1>2, <2>1, <2>2 DEF Held
    <3>2. CASE step # "noting"
      <4>1. repository # "events"
        BY <3>2, <1>3, Repositories DEF repository, Storing
      <4> QED
        BY <4>1, <1>2, <2>1, <2>2
    <3> QED
      BY <3>1, <3>2
  <2> QED
    BY <2>1, <2>3, <2>4 DEF IsReported, Stored
<1>6. ASSUME Kept(CycleParts)', NEW q \in Runner, NEW y
      PROVE  /\ Marked(<<q, y>>) /\ (step # "signalling" \/ <<q, y>> # <<p, x>>)
                  => Marked(<<q, y>>)'
             /\ Produced(<<q, y>>) /\ (step # "acting" \/ <<q, y>> # <<p, x>>)
                  => Produced(<<q, y>>)'
             /\ Screened(<<q, y>>) /\ (step # "proposing" \/ <<q, y>> # <<p, x>>)
                  => Screened(<<q, y>>)'
  <2> DEFINE name == <<q, y>>
  <2>1. {"signals", "runs", "artifacts", "proposals"} \subseteq DOMAIN Empty \ overtaken'
    BY <1>6, Repositories DEF Kept, CycleParts
  <2>2. /\ repository = "signals" => step \in {"signalling", "marking"}
        /\ repository = "runs" => step \in {"acting", "closing"}
        /\ repository = "proposals" => step \in {"proposing", "settling"}
        /\ repository \in {"signals", "runs", "proposals"} => record.name = <<p, x>>
    BY <1>3, Repositories DEF repository, step, Storing
  <2>3. /\ step = "marking" => record.marked
        /\ step = "closing" => record.status = "completed" /\ record.artifact
        /\ step = "settling" => record.screened
    BY DEF step
  <2> HIDE DEF name
  <2>4. Marked(name) /\ (step # "signalling" \/ name # <<p, x>>) => Marked(name)'
    BY <1>2, <2>1, <2>2, <2>3 DEF Marked
  <2>5. Produced(name) /\ (step # "acting" \/ name # <<p, x>>) => Produced(name)'
    <3>1. Stored("artifacts", name) => Stored("artifacts", name)'
      BY <1>4, <2>1
    <3> QED
      BY <3>1, <1>2, <2>1, <2>2, <2>3 DEF Produced
  <2>6. Screened(name) /\ (step # "proposing" \/ name # <<p, x>>) => Screened(name)'
    BY <1>2, <2>1, <2>2, <2>3 DEF Screened
  <2> QED
    BY <2>4, <2>5, <2>6 DEF name
<1>7. /\ \A q \in Runner \ {p} : \A y : Held("events", <<q, y>>)' => Held("events", <<q, y>>)
      /\ step # "noting" => \A y : Held("events", y)' => Held("events", y)
  <2>1. "events" \in DOMAIN Empty
    BY Repositories
  <2>2. repository = "events" => step = "noting" /\ record.name = <<p, x>>
    BY <1>3, Repositories DEF repository, step, Storing
  <2> QED
    BY <1>2, <2>1, <2>2 DEF Held
<1>8. ASSUME NEW other \in {"snapshots", "cycles"}
      PROVE  LET once == IF other = "cycles" THEN "recording" ELSE "snapshotting"
             IN  /\ step # once =>
                      /\ Around(other)' \subseteq Around(other)
                      /\ store'[other] = store[other]
                      /\ other \in overtaken' => other \in overtaken
                 /\ other \notin overtaken' => store[other] \subseteq store'[other]
                 /\ \E new : \A item \in Around(other)' :
                      item \in Around(other) \/ (item = new /\ new.name = p /\ ~Held(other, p))
  <2> DEFINE once == IF other = "cycles" THEN "recording" ELSE "snapshotting"
  <2>1. other \in DOMAIN Empty
    BY Repositories
  <2>2. repository = other => step = once /\ record.name = p /\ ~Held(other, p)
    BY <1>3, Repositories DEF repository, step, Storing
  <2> HIDE DEF once
  <2>3. step # once =>
          /\ Around(other)' \subseteq Around(other)
          /\ store'[other] = store[other]
          /\ other \in overtaken' => other \in overtaken
    BY <1>1, <1>2, <2>1, <2>2
  <2>4. other \notin overtaken' => store[other] \subseteq store'[other]
    <3>1. \A item \in store[other] : item \in Around(other)
      BY AroundMember
    <3> QED
      BY <3>1, <1>2, <2>1, <2>2 DEF Held
  <2>5. \A item \in Around(other)' :
          item \in Around(other) \/ (item = record /\ record.name = p /\ ~Held(other, p))
    BY <1>2, <2>1, <2>2
  <2> QED
    BY <2>3, <2>4, <2>5 DEF once
<1> QED
  BY <1>1, <1>4, <1>5, <1>6, <1>7, <1>8 DEF Grows, step

\* A step that stores nothing.
LEMMA TurnsGrow ==
  ASSUME WorkTypeOK, NEW p \in Runner, NEW x, NEW next, Turns(p, next)
  PROVE  /\ Grows(p, x) /\ task'[p] = next /\ store' = store /\ overtaken' = overtaken
<1>1. /\ task'[p] = next /\ task' = [task EXCEPT ![p] = task'[p]]
      /\ \A q \in Process \ {p} : task'[q] = task[q] /\ listed'[q] = listed[q]
      /\ listed'[p] = {} /\ DOMAIN listed' = Process
      /\ store' = store /\ overtaken' = overtaken
      /\ DOMAIN store = DOMAIN Empty /\ overtaken \subseteq DOMAIN Empty
  BY DEF Turns, WorkTypeOK
<1>2. ASSUME NEW repository, NEW item \in Around(repository)'
      PROVE  item \in Around(repository)
  <2>1. item \in store'[repository] \/ \E q \in Process : \E items \in listed'[q] :
          /\ task'[q].step \in DOMAIN RepositoryOf /\ RepositoryOf[task'[q].step] = repository
          /\ item \in items
    BY <1>2 DEF Around
  <2> QED
    BY <2>1, <1>1, AroundMember
<1>3. \A repository, name : Held(repository, name)' => Held(repository, name)
  BY <1>2 DEF Held
<1>4. /\ \A repository, name : Stored(repository, name)' <=> Stored(repository, name)
      /\ \A f, content : IsReported(f, content)' <=> IsReported(f, content)
      /\ \A name : Marked(name)' <=> Marked(name)
      /\ \A name : Produced(name)' <=> Produced(name)
      /\ \A name : Screened(name)' <=> Screened(name)
  BY <1>1 DEF Stored, IsReported, Marked, Produced, Screened
<1>5. \A repository : Around(repository)' \subseteq Around(repository)
  BY <1>2
<1> QED
  BY <1>1, <1>3, <1>4, <1>5 DEF Grows

\* What is backed stays so.
LEMMA BacksStay ==
  ASSUME NEW p \in Runner, NEW x, Grows(p, x), NEW q \in Runner, Kept(CycleParts)'
  PROVE  \A signals, done, unscreened :
           /\ Backs(q, signals, done, unscreened)
           /\ q = p => /\ task[p].step # "signalling"
                       /\ task[p].step = "acting" => x \notin done.artifacts
                       /\ task[p].step = "proposing" => x \notin done.artifacts \ unscreened
           => Backs(q, signals, done, unscreened)'
<1> SUFFICES ASSUME NEW signals, NEW done, NEW unscreened,
                    Backs(q, signals, done, unscreened),
                    q = p => /\ task[p].step # "signalling"
                             /\ task[p].step = "acting" => x \notin done.artifacts
                             /\ task[p].step = "proposing" => x \notin done.artifacts \ unscreened
             PROVE  Backs(q, signals, done, unscreened)'
  OBVIOUS
<1>1. \A f \in signals : Marked(<<q, f>>)'
  BY DEF Backs, Grows
<1>2. /\ \A a \in done.runs : Stored(IF a \in Workflows THEN "workflows" ELSE "runs", <<q, a>>)'
      /\ \A a \in done.proposals : Stored("proposals", <<q, a>>)'
  <2>1. {"workflows", "runs", "proposals"} \subseteq DOMAIN Empty \ overtaken'
    BY Repositories DEF Kept, CycleParts
  <2> QED
    BY <2>1 DEF Backs, Grows
<1>3. \A a \in done.artifacts : Produced(<<q, a>>)'
  BY DEF Backs, Grows
<1>4. done.status = "completed" => \A a \in done.artifacts \ unscreened : Screened(<<q, a>>)'
  BY DEF Backs, Grows
<1> QED
  BY <1>1, <1>2, <1>3, <1>4 DEF Backs

\* What was nowhere stays so.
LEMMA HeldBefore ==
  ASSUME NEW p \in Runner, NEW x, Grows(p, x), NEW repository \in {"snapshots", "cycles"}, NEW name,
         Held(repository, name)',
         \/ name # p
         \/ task[p].step # (IF repository = "cycles" THEN "recording" ELSE "snapshotting")
  PROVE  Held(repository, name)
<1>1. PICK item \in Around(repository)' : item.name = name
  BY DEF Held
<1>2. item \in Around(repository)
  <2>1. CASE name # p
    <3>1. PICK new : \A i \in Around(repository)' :
            i \in Around(repository) \/ (i = new /\ new.name = p /\ ~Held(repository, p))
      BY DEF Grows
    <3> QED
      BY <2>1, <3>1, <1>1
  <2>2. CASE task[p].step # (IF repository = "cycles" THEN "recording" ELSE "snapshotting")
    <3>1. Around(repository)' \subseteq Around(repository)
      BY <2>2 DEF Grows
    <3> QED
      BY <3>1
  <2> QED
    BY <2>1, <2>2
<1> QED
  BY <1>1, <1>2 DEF Held

\* The promises of the others are not affected.
LEMMA OthersSound ==
  ASSUME NEW p \in Runner, NEW x, Grows(p, x), NEW q \in Runner, q # p, TaskIsSound(q)
  PROVE  TaskIsSound(q)'
<1>1. task'[q] = task[q]
  BY DEF Grows
<1>2. ScanIsFresh(q)'
  <2>1. \A y : Held("events", <<q, y>>)' => Held("events", <<q, y>>)
    BY DEF Grows
  <2>2. Held("snapshots", q)' => Held("snapshots", q)
    BY HeldBefore
  <2> QED
    BY <1>1, <2>1, <2>2 DEF ScanIsFresh, TaskIsSound
<1>3. CycleIsOrderly(q)'
  <2>1. Held("cycles", q)' => Held("cycles", q)
    BY HeldBefore
  <2> QED
    BY <1>1, <2>1 DEF CycleIsOrderly, TaskIsSound
<1>4. \A repositories : Kept(repositories)' => Kept(repositories)
  BY KeptBefore DEF Grows
<1>5. ASSUME Kept(ScanParts)' PROVE ScanIsReported(q)'
  <2>1. /\ \A f, content : IsReported(f, content) => IsReported(f, content)'
        /\ \A name : Stored("signals", name) => Stored("signals", name)'
    BY <1>5, Repositories DEF Grows, Kept, ScanParts
  <2> QED
    BY <1>1, <1>4, <1>5, <2>1 DEF ScanIsReported, TaskIsSound
<1>6. ASSUME Kept(CycleParts)' PROVE CycleIsBacked(q)'
  <2>1. \A signals, done, unscreened :
          Backs(q, signals, done, unscreened) => Backs(q, signals, done, unscreened)'
    BY <1>6, BacksStay
  <2>2. /\ \A y : Marked(<<q, y>>) => Marked(<<q, y>>)'
        /\ \A name : Stored("artifacts", name) => Stored("artifacts", name)'
    BY <1>6, Repositories DEF Grows, Kept, CycleParts
  <2> QED
    BY <1>1, <1>4, <1>6, <2>1, <2>2 DEF CycleIsBacked, TaskIsSound
<1>7. Kept({"cycles"})' /\ task'[q].step = "looping" => Stored("cycles", q)'
  <2>1. Kept({"cycles"})' => (Stored("cycles", q) => Stored("cycles", q)')
    BY Repositories DEF Grows, Kept
  <2> QED
    BY <1>1, <1>4, <2>1 DEF TaskIsSound
<1> QED
  BY <1>2, <1>3, <1>5, <1>6, <1>7 DEF TaskIsSound

LEMMA CyclesStayBacked ==
  ASSUME NEW p \in Runner, NEW x, Grows(p, x), CyclesAreSound,
         Held("cycles", p) => task[p].step = "looping",
         NEW c \in Around("cycles")
  PROVE  c.name \in Process /\ (Kept(CycleParts)' => Backs(c.name, c.signals, c.execution, {})')
<1>1. c.name = p => task[p].step = "looping"
  BY DEF Held
<1>2. c.name \in Runner /\ (Kept(CycleParts) => Backs(c.name, c.signals, c.execution, {}))
  BY DEF CyclesAreSound
<1>3. Kept(CycleParts)' => Kept(CycleParts)
  BY KeptBefore DEF Grows
<1> DEFINE q == c.name
<1>4. q \in Runner /\ (q = p => task[p].step = "looping")
  BY <1>1, <1>2
<1> HIDE DEF q
<1>5. ASSUME Kept(CycleParts)', Backs(q, c.signals, c.execution, {})
      PROVE  Backs(q, c.signals, c.execution, {})'
  <2>1. \A signals, done, unscreened :
          Backs(q, signals, done, unscreened) => Backs(q, signals, done, unscreened)'
    BY <1>4, <1>5, BacksStay
  <2> QED
    BY <1>5, <2>1
<1> QED
  BY <1>2, <1>3, <1>5 DEF q

LEMMA ReportsStay ==
  ASSUME NEW p \in Runner, NEW x, Grows(p, x), SnapshotsAreSound,
         task[p].step # "snapshotting"
  PROVE  SnapshotsAreSound'
<1>1. Around("snapshots")' \subseteq Around("snapshots")
  BY DEF Grows
<1>2. Kept(ScanParts)' => Kept(ScanParts)
  BY KeptBefore DEF Grows
<1>3. Kept(ScanParts)' => \A f, content : IsReported(f, content) => IsReported(f, content)'
  BY DEF Grows
<1> QED
  BY <1>1, <1>2, <1>3 DEF SnapshotsAreSound

-----------------------------------------------------------------------------
(* One step of a task that is under way.                                   *)

UnderWay(p) == WorkTypeOK /\ SnapshotsAreSound /\ TaskIsSound(p)

\* The step keeps the promises of the task, and takes away from others only
\* what an upsert undoes.
Advances(p) ==
  /\ \E x : Grows(p, x)
  /\ Held("cycles", p) => task[p].step = "looping"
  /\ task'[p] \in Task
  /\ TaskIsSound(p)' /\ SnapshotsAreSound'

LEMMA UnderWayFacts ==
  ASSUME NEW p \in Runner, UnderWay(p)
  PROVE  /\ task[p] \in Task /\ task \in [Process -> Task]
         /\ ScanIsFresh(p) /\ CycleIsOrderly(p)
         /\ Kept(ScanParts) => ScanIsReported(p)
         /\ Kept(CycleParts) => CycleIsBacked(p)
         /\ Kept({"cycles"}) /\ task[p].step = "looping" => Stored("cycles", p)
         /\ taken \in Nat /\ files \in Files
BY DEF UnderWay, WorkTypeOK, TaskIsSound

\* A scan has done nothing for the cycle yet.
LEMMA ScanningSound ==
  ASSUME NEW p \in Runner, CycleIsOrderly(p), NEW x, Grows(p, x),
         task[p].step \notin CycleSteps,
         task'[p].step \in ScanSteps,
         task'[p].done = task[p].done, task'[p].left = task[p].left,
         task'[p].action = task[p].action
  PROVE  /\ CycleIsOrderly(p)' /\ ~Held("cycles", p)
         /\ CycleIsBacked(p)'
         /\ task'[p].step # "looping"
<1>1. task[p].done = Nothing /\ task[p].action = NoAction /\ ~Held("cycles", p)
  BY DEF CycleIsOrderly, CycleSteps, ActionSteps
<1>2. ~Held("cycles", p)'
  <2>1. task[p].step # "recording"
    BY DEF CycleSteps
  <2> QED
    BY <1>1, <2>1, HeldBefore
<1>3. CycleIsOrderly(p)'
  BY <1>1, <1>2 DEF CycleIsOrderly, CycleSteps, ActionSteps
<1>4. CycleIsBacked(p)'
  BY DEF CycleIsBacked, CycleSteps, ActionSteps
<1> QED
  BY <1>1, <1>3, <1>4

\* A task that is not scanning any more owes nothing to the scan.
LEMMA ScanOver ==
  ASSUME NEW p \in Runner, task'[p].step \notin ScanSteps
  PROVE  ScanIsFresh(p)' /\ ScanIsReported(p)'
BY DEF ScanIsFresh, ScanIsReported

\* The parts of the promises make a task that advances.
LEMMA ScanAdvances ==
  ASSUME NEW p \in Runner, UnderWay(p), NEW x, Grows(p, x), task'[p] \in Task,
         task[p].step \in ScanSteps \ {"snapshotting"}, task'[p].step \in ScanSteps,
         task'[p].done = task[p].done, task'[p].left = task[p].left,
         task'[p].action = task[p].action,
         task'[p].step = "collecting" => task[p].step = "collecting" /\ task'[p].signals = {},
         task'[p].step \in {"signalling", "noting"} =>
           \A f \in task'[p].todo : ~Held("events", <<p, f>>)',
         Kept(ScanParts)' => ScanIsReported(p)'
  PROVE  Advances(p) /\ Around("cycles")' \subseteq Around("cycles")
<1>1. task[p].step \notin CycleSteps
  BY DEF CycleSteps, ActionSteps
<1>2. ScanIsFresh(p) /\ CycleIsOrderly(p) /\ SnapshotsAreSound
  BY UnderWayFacts DEF UnderWay
<1>3. /\ CycleIsOrderly(p)' /\ ~Held("cycles", p) /\ CycleIsBacked(p)'
      /\ task'[p].step # "looping"
  BY <1>1, <1>2, ScanningSound
<1>4. ScanIsFresh(p)'
  <2>1. ~Held("snapshots", p)'
    <3>1. ~Held("snapshots", p)
      BY <1>2 DEF ScanIsFresh
    <3> QED
      BY <3>1, HeldBefore
  <2>2. task'[p].step = "collecting" => \A f \in Path : ~Held("events", <<p, f>>)'
    <3>1. task[p].step = "collecting" => \A f \in Path : ~Held("events", <<p, f>>)
      BY <1>2 DEF ScanIsFresh
    <3> QED
      BY <3>1 DEF Grows
  <2> QED
    BY <2>1, <2>2 DEF ScanIsFresh
<1>5. SnapshotsAreSound'
  BY <1>2, ReportsStay
<1>6. Around("cycles")' \subseteq Around("cycles")
  BY DEF Grows
<1> QED
  BY <1>3, <1>4, <1>5, <1>6 DEF Advances, TaskIsSound

LEMMA CollectAdvances ==
  ASSUME NEW p \in Runner, UnderWay(p), Collect(p)
  PROVE  Advances(p) /\ Around("cycles")' \subseteq Around("cycles")
<1>1. PICK f \in Path \ task[p].collected :
        Turns(p, [task[p] EXCEPT !.collected = @ \cup {f}, !.seen[f] = files[f]])
  BY DEF Collect
<1>2. /\ Grows(p, f)
      /\ task'[p] = [task[p] EXCEPT !.collected = @ \cup {f}, !.seen[f] = files[f]]
  BY <1>1, TurnsGrow DEF UnderWay
<1>3. task[p] \in Task /\ files \in Files /\ task[p].step = "collecting"
  BY UnderWayFacts DEF Collect, At
<1>4. /\ task'[p] \in Task /\ task'[p].step = "collecting"
      /\ task'[p].signals = task[p].signals /\ task'[p].done = task[p].done
      /\ task'[p].left = task[p].left /\ task'[p].action = task[p].action
  <2>1. files[f] \in Content /\ task[p].seen \in [Path -> Content]
    BY <1>3 DEF Task, Files
  <2> DEFINE seen == [task[p].seen EXCEPT ![f] = files[f]]
             collected == task[p].collected \cup {f}
  <2>2. seen \in Files /\ collected \in SUBSET Path
    BY <1>3, <2>1 DEF Files, Task
  <2>3. task'[p] = [task[p] EXCEPT !.collected = collected, !.seen = seen]
    BY <1>2, <1>3 DEF Task
  <2> HIDE DEF seen, collected
  <2> QED
    BY <1>3, <2>2, <2>3 DEF Task
<1>5. task[p].signals = {}
  BY <1>3, UnderWayFacts DEF ScanIsFresh
<1>6. ScanIsReported(p)'
  BY <1>4 DEF ScanIsReported
<1> QED
  BY <1>2, <1>3, <1>4, <1>5, <1>6, ScanAdvances

LEMMA DiffAdvances ==
  ASSUME NEW p \in Runner, UnderWay(p), Diff(p)
  PROVE  Advances(p) /\ Around("cycles")' \subseteq Around("cycles")
<1>1. PICK base \in Files :
        /\ LatestFiles(base)
        /\ LET changed == {f \in Path : base[f] # task[p].seen[f]}
               next    == [task[p] EXCEPT !.todo = changed]
           IN  IF changed = {} THEN Turns(p, Reported(next)) /\ taken' = taken + 1
               ELSE Turns(p, [next EXCEPT !.step = "signalling"]) /\ UNCHANGED taken
  BY DEF Diff
<1> DEFINE changed == {f \in Path : base[f] # task[p].seen[f]}
<1>2. /\ task[p] \in Task /\ taken \in Nat /\ task[p].step = "collecting"
      /\ task[p].signals = {}
      /\ \A f \in Path : ~Held("events", <<p, f>>)
  BY UnderWayFacts DEF Diff, At, ScanIsFresh
<1>3. Kept(ScanParts) => \A f \in Path : base[f] # Gone => IsReported(f, base[f])
  <2>1. \A s \in store["snapshots"] : s \in Around("snapshots")
    BY AroundMember
  <2>2. Kept(ScanParts) =>
          \A s \in Around("snapshots"), f \in Path : s.files[f] # Gone => IsReported(f, s.files[f])
    BY DEF UnderWay, SnapshotsAreSound
  <2> QED
    BY <1>1, <2>1, <2>2 DEF LatestFiles, NoFiles
<1>4. /\ Grows(p, p)
      /\ task'[p] \in Task
      /\ task'[p].seen = task[p].seen /\ task'[p].todo = changed /\ task'[p].signals = {}
      /\ task'[p].done = task[p].done /\ task'[p].left = task[p].left
      /\ task'[p].action = task[p].action
      /\ \/ changed = {} /\ task'[p].step = "snapshotting"
         \/ task'[p].step = "signalling"
  <2>1. changed \in SUBSET Path
    OBVIOUS
  <2> HIDE DEF changed
  <2>2. \/ /\ changed = {} /\ Turns(p, Reported([task[p] EXCEPT !.todo = changed]))
        \/ Turns(p, [[task[p] EXCEPT !.todo = changed] EXCEPT !.step = "signalling"])
    BY <1>1 DEF changed
  <2>3. CASE changed = {} /\ Turns(p, Reported([task[p] EXCEPT !.todo = changed]))
    <3>1. /\ Grows(p, p)
          /\ task'[p] = Reported([task[p] EXCEPT !.todo = changed])
      BY <2>3, TurnsGrow DEF UnderWay
    <3>2. taken + 1 \in Nat /\ "snapshotting" \in Steps
      BY <1>2 DEF Steps
    <3>3. [task[p] EXCEPT !.todo = changed] \in Task
      BY <2>1, <1>2 DEF Task
    <3>4. Reported([task[p] EXCEPT !.todo = changed]) \in Task
      BY <3>2, <3>3 DEF Reported, Task
    <3> QED
      BY <3>1, <3>4, <2>3, <1>2 DEF Reported, Task
  <2>4. CASE Turns(p, [[task[p] EXCEPT !.todo = changed] EXCEPT !.step = "signalling"])
    <3>1. /\ Grows(p, p)
          /\ task'[p] = [[task[p] EXCEPT !.todo = changed] EXCEPT !.step = "signalling"]
      BY <2>4, TurnsGrow DEF UnderWay
    <3> QED
      BY <3>1, <2>1, <1>2 DEF Task, Steps
  <2> QED
    BY <2>2, <2>3, <2>4
<1>5. ASSUME Kept(ScanParts)' PROVE ScanIsReported(p)'
  <2>1. \A f \in Path \ changed : base[f] = task[p].seen[f]
    OBVIOUS
  <2>2. Kept(ScanParts)
    BY <1>4, <1>5, KeptBefore DEF Grows
  <2>3. \A f \in Path \ changed : task[p].seen[f] # Gone => IsReported(f, task[p].seen[f])'
    BY <1>3, <1>4, <1>5, <2>1, <2>2 DEF Grows
  <2> HIDE DEF changed
  <2> QED
    BY <1>4, <2>3 DEF ScanIsReported
<1>6. \A f \in changed : ~Held("events", <<p, f>>)'
  BY <1>2, <1>4 DEF Grows
<1> HIDE DEF changed
<1> QED
  BY <1>2, <1>4, <1>5, <1>6, ScanAdvances

LEMMA SignalAdvances ==
  ASSUME NEW p \in Runner, UnderWay(p), AddSignal(p)
  PROVE  Advances(p) /\ Around("cycles")' \subseteq Around("cycles")
<1>1. PICK f \in task[p].todo :
        Puts(p, [name |-> <<p, f>>, marked |-> FALSE],
             [task[p] EXCEPT !.step = "noting", !.signals = @ \cup {f}])
  BY DEF AddSignal
<1>2. task[p] \in Task /\ task[p].step = "signalling" /\ WorkTypeOK
  BY UnderWayFacts DEF UnderWay, AddSignal, At
<1>3. /\ task'[p] = [task[p] EXCEPT !.step = "noting", !.signals = @ \cup {f}]
      /\ [name |-> <<p, f>>, marked |-> FALSE] \in store'["signals"]
  BY <1>1, <1>2, PutsEffect, Repositories DEF Storing
<1>4. Grows(p, f)
  BY <1>1, <1>2, PutsGrow DEF Storing
<1>5. /\ task'[p] \in Task /\ task'[p].step = "noting"
      /\ task'[p].signals = task[p].signals \cup {f} /\ task'[p].todo = task[p].todo
      /\ task'[p].seen = task[p].seen /\ task'[p].done = task[p].done
      /\ task'[p].left = task[p].left /\ task'[p].action = task[p].action
  <2> DEFINE signals == task[p].signals \cup {f}
  <2>1. signals \in SUBSET Path /\ "noting" \in Steps
    BY <1>2 DEF Task, Steps
  <2>2. task'[p] = [task[p] EXCEPT !.step = "noting", !.signals = signals]
    BY <1>2, <1>3 DEF Task
  <2> HIDE DEF signals
  <2>3. /\ task'[p] \in Task /\ task'[p].step = "noting"
        /\ task'[p].signals = signals /\ task'[p].todo = task[p].todo
        /\ task'[p].seen = task[p].seen /\ task'[p].done = task[p].done
        /\ task'[p].left = task[p].left /\ task'[p].action = task[p].action
    BY <1>2, <2>1, <2>2 DEF Task
  <2> QED
    BY <2>3 DEF signals
<1>6. \A g \in task[p].todo : ~Held("events", <<p, g>>)'
  <2>1. \A g \in task[p].todo : ~Held("events", <<p, g>>)
    BY <1>2, UnderWayFacts DEF ScanIsFresh
  <2> QED
    BY <1>2, <1>4, <2>1 DEF Grows
<1>7. ASSUME Kept(ScanParts)' PROVE ScanIsReported(p)'
  <2>1. ScanIsReported(p)
    BY <1>4, <1>7, KeptBefore, UnderWayFacts DEF Grows
  <2>2. "signals" \in DOMAIN Empty \ overtaken'
    BY <1>7, Repositories DEF Kept, ScanParts
  <2>3. \A g \in task[p].signals \cup {f} : Stored("signals", <<p, g>>)'
    <3>1. Stored("signals", <<p, f>>)'
      BY <1>3 DEF Stored
    <3>2. \A g \in task[p].signals : Stored("signals", <<p, g>>)
      BY <1>2, <2>1 DEF ScanIsReported
    <3>3. \A name : Stored("signals", name) => Stored("signals", name)'
      BY <1>4, <2>2 DEF Grows
    <3> QED
      BY <3>1, <3>2, <3>3
  <2>4. \A g \in Path \ task[p].todo : task[p].seen[g] # Gone => IsReported(g, task[p].seen[g])'
    BY <1>2, <1>4, <1>5, <1>7, <2>1 DEF ScanIsReported, Grows
  <2> QED
    BY <1>5, <2>3, <2>4 DEF ScanIsReported
<1> QED
  BY <1>2, <1>4, <1>5, <1>6, <1>7, ScanAdvances

LEMMA EventAdvances ==
  ASSUME NEW p \in Runner, UnderWay(p), AddEvent(p)
  PROVE  Advances(p) /\ Around("cycles")' \subseteq Around("cycles")
<1>1. PICK f \in task[p].todo \cap task[p].signals :
        LET next == [task[p] EXCEPT !.todo = @ \ {f}, !.step = "signalling"]
        IN  Puts(p, [name |-> <<p, f>>, to |-> task[p].seen[f], signal |-> <<p, f>>],
                 IF next.todo = {} THEN Reported(next) ELSE next)
  BY DEF AddEvent
<1> DEFINE event == [name |-> <<p, f>>, to |-> task[p].seen[f], signal |-> <<p, f>>]
           rest  == task[p].todo \ {f}
<1>2. task[p] \in Task /\ task[p].step = "noting" /\ taken \in Nat /\ WorkTypeOK
  BY UnderWayFacts DEF UnderWay, AddEvent, At
<1>3. \A g \in task[p].todo : ~Held("events", <<p, g>>)
  BY <1>2, UnderWayFacts DEF ScanIsFresh
<1>4. /\ \/ task'[p] = [[task[p] EXCEPT !.todo = rest, !.step = "signalling"]
                          EXCEPT !.step = "snapshotting", !.at = taken + 1] /\ rest = {}
         \/ task'[p] = [task[p] EXCEPT !.todo = rest, !.step = "signalling"]
      /\ event \in store'["events"]
      /\ \A item \in Around("events")' : item \in Around("events") \/ item = event
  <2> DEFINE next == [task[p] EXCEPT !.todo = @ \ {f}, !.step = "signalling"]
  <2>1. Puts(p, event, IF next.todo = {} THEN Reported(next) ELSE next)
    BY <1>1
  <2>2. /\ task'[p] = IF next.todo = {} THEN Reported(next) ELSE next
        /\ event \in store'["events"]
        /\ \A item \in Around("events")' : item \in Around("events") \/ item = event
    <3> HIDE DEF event, next
    <3> QED
      BY <1>2, <2>1, PutsEffect, Repositories DEF Storing
  <2>3. next.todo = rest /\ next = [task[p] EXCEPT !.todo = rest, !.step = "signalling"]
    BY <1>2 DEF Task
  <2> QED
    BY <2>2, <2>3 DEF Reported
<1>5. Grows(p, f)
  BY <1>1, <1>2, <1>3, PutsGrow DEF Storing
<1>6. /\ task'[p] \in Task /\ task'[p].todo = rest
      /\ \/ rest = {} /\ task'[p].step = "snapshotting"
         \/ task'[p].step = "signalling"
      /\ task'[p].signals = task[p].signals
      /\ task'[p].seen = task[p].seen /\ task'[p].done = task[p].done
      /\ task'[p].left = task[p].left /\ task'[p].action = task[p].action
  <2>1. rest \in SUBSET Path /\ taken + 1 \in Nat /\ {"snapshotting", "signalling"} \subseteq Steps
    BY <1>2 DEF Task, Steps
  <2> HIDE DEF rest
  <2>2. CASE task'[p] = [task[p] EXCEPT !.todo = rest, !.step = "signalling"]
    BY <1>2, <2>1, <2>2 DEF Task
  <2>3. CASE /\ rest = {}
             /\ task'[p] = [[task[p] EXCEPT !.todo = rest, !.step = "signalling"]
                              EXCEPT !.step = "snapshotting", !.at = taken + 1]
    <3> DEFINE next == [task[p] EXCEPT !.todo = rest, !.step = "signalling"]
    <3>1. /\ next \in Task /\ next.todo = rest /\ next.signals = task[p].signals
          /\ next.seen = task[p].seen /\ next.done = task[p].done
          /\ next.left = task[p].left /\ next.action = task[p].action
      BY <1>2, <2>1 DEF Task
    <3>2. task'[p] = [next EXCEPT !.step = "snapshotting", !.at = taken + 1]
      BY <2>3
    <3> HIDE DEF next
    <3> QED
      BY <2>1, <2>3, <3>1, <3>2 DEF Task
  <2> QED
    BY <1>4, <2>2, <2>3
<1>7. \A g \in rest : ~Held("events", <<p, g>>)'
  <2>1. \A g \in rest : event.name # <<p, g>>
    OBVIOUS
  <2> HIDE DEF event
  <2> QED
    BY <1>3, <1>4, <2>1 DEF Held
<1>8. ASSUME Kept(ScanParts)' PROVE ScanIsReported(p)'
  <2>1. ScanIsReported(p)
    BY <1>5, <1>8, KeptBefore, UnderWayFacts DEF Grows
  <2>2. \A g \in task[p].signals : Stored("signals", <<p, g>>)'
    <3>1. "signals" \in DOMAIN Empty \ overtaken'
      BY <1>8, Repositories DEF Kept, ScanParts
    <3> QED
      BY <1>2, <1>5, <2>1, <3>1 DEF ScanIsReported, Grows
  <2>3. IsReported(f, task[p].seen[f])'
    <3>1. event \in store'["events"] /\ Stored("signals", <<p, f>>)'
      BY <1>4, <2>2
    <3>2. <<p, f>>[2] = f
      OBVIOUS
    <3>3. \E e \in store'["events"] :
            e.name[2] = f /\ e.to = task[p].seen[f]
            /\ \E signal \in store'["signals"] : signal.name = e.signal
      BY <3>1, <3>2 DEF Stored
    <3>4. \A g, c : (\E e \in store'["events"] :
                       e.name[2] = g /\ e.to = c /\ \E signal \in store'["signals"] : signal.name = e.signal)
                    => IsReported(g, c)'
      BY DEF IsReported
    <3> QED
      BY <1>6, <3>3, <3>4
  <2>4. \A g \in Path \ rest : task'[p].seen[g] # Gone => IsReported(g, task[p].seen[g])'
    BY <1>2, <1>5, <1>6, <1>8, <2>1, <2>3 DEF ScanIsReported, Grows
  <2> HIDE DEF rest
  <2> QED
    BY <1>6, <2>2, <2>4 DEF ScanIsReported
<1> HIDE DEF rest, event
<1> QED
  BY <1>2, <1>5, <1>6, <1>7, <1>8, ScanAdvances

LEMMA OnwardFields ==
  ASSUME NEW t \in Task
  PROVE  /\ Onward(t) \in Task
         /\ Onward(t).step \in {"recording", "working"} /\ Onward(t).action = NoAction
         /\ Onward(t).signals = t.signals /\ Onward(t).left = t.left /\ Onward(t).done = t.done
BY DEF Onward, Task, Steps, CycleSteps

\* The cycle starts with all signals marked.
LEMMA PlansSoundly ==
  ASSUME NEW p \in Runner, NEW t \in Task, task'[p] = Planned(t), t.done = Nothing,
         Kept(CycleParts)' => \A f \in t.signals : Marked(<<p, f>>)', ~Held("cycles", p)'
  PROVE  task'[p] \in Task /\ TaskIsSound(p)'
<1> DEFINE planned == [t EXCEPT !.left = RecommendedActions(t)]
<1>1. RecommendedActions(t) \in SUBSET Action
  BY DEF RecommendedActions, Task
<1>2. planned \in Task /\ planned.signals = t.signals /\ planned.done = t.done
  BY <1>1 DEF Task
<1>3. task'[p] = Onward(planned)
  BY DEF Planned
<1> HIDE DEF planned
<1>4. /\ task'[p] \in Task
      /\ task'[p].step \in {"recording", "working"} /\ task'[p].action = NoAction
      /\ task'[p].signals = t.signals /\ task'[p].done = Nothing /\ task'[p].left \subseteq Action
  BY <1>2, <1>3, OnwardFields DEF Task
<1>5. Nothing.runs = {} /\ Nothing.artifacts = {} /\ Nothing.proposals = {}
  BY DEF Nothing
<1>6. Kept(CycleParts)' => Backs(p, task[p].signals, task[p].done, {task[p].action})'
  BY <1>4, <1>5 DEF Backs
<1>7. ScanIsFresh(p)' /\ ScanIsReported(p)'
  BY <1>4, ScanOver
<1>8. CycleIsOrderly(p)'
  BY <1>4, <1>5 DEF CycleIsOrderly, ActionSteps, CycleSteps
<1>9. Kept(CycleParts)' => CycleIsBacked(p)'
  BY <1>4, <1>6 DEF CycleIsBacked
<1> QED
  BY <1>4, <1>7, <1>8, <1>9 DEF TaskIsSound

LEMMA ScannedSoundly ==
  ASSUME NEW p \in Runner, NEW t \in Task, task'[p] = Scanned(t), t.done = Nothing,
         t.action = NoAction, ~Held("cycles", p)'
  PROVE  task'[p] \in Task /\ TaskIsSound(p)'
<1>1. CASE t.signals = {}
  BY <1>1, PlansSoundly DEF Scanned
<1>2. CASE t.signals # {}
  <2>1. task'[p] = [t EXCEPT !.step = "marking", !.todo = t.signals]
    BY <1>2 DEF Scanned
  <2>2. /\ task'[p] \in Task /\ task'[p].step = "marking"
        /\ task'[p].signals = task'[p].todo /\ task'[p].done = Nothing
        /\ task'[p].action = NoAction /\ task'[p].left \subseteq Action
    BY <2>1 DEF Task, Steps
  <2>3. Nothing.artifacts = {}
    BY DEF Nothing
  <2>4. ScanIsFresh(p)' /\ ScanIsReported(p)'
    BY <2>2, ScanOver
  <2>5. CycleIsOrderly(p)' /\ CycleIsBacked(p)'
    BY <2>2, <2>3 DEF CycleIsOrderly, CycleIsBacked, CycleSteps, ActionSteps
  <2> QED
    BY <2>2, <2>4, <2>5 DEF TaskIsSound
<1> QED
  BY <1>1, <1>2

LEMMA SnapshotAdvances ==
  ASSUME NEW p \in Runner, UnderWay(p), AddSnapshot(p, Scanned(task[p]))
  PROVE  Advances(p) /\ Around("cycles")' \subseteq Around("cycles")
<1>1. Puts(p, MadeSnapshot(p), Scanned(task[p])) /\ task[p].step = "snapshotting" /\ WorkTypeOK
  BY DEF AddSnapshot, At, UnderWay
<1>2. /\ task[p] \in Task /\ task[p].done = Nothing /\ task[p].action = NoAction
      /\ ~Held("cycles", p) /\ ~Held("snapshots", p)
      /\ Kept(ScanParts) =>
           \A f \in Path : task[p].seen[f] # Gone => IsReported(f, task[p].seen[f])
  BY <1>1, UnderWayFacts DEF ScanIsFresh, ScanIsReported, CycleIsOrderly, CycleSteps, ActionSteps
<1>3. /\ task'[p] = Scanned(task[p])
      /\ \A item \in Around("snapshots")' : item \in Around("snapshots") \/ item = MadeSnapshot(p)
  BY <1>1, PutsEffect, Repositories DEF Storing
<1>4. MadeSnapshot(p).name = p
  BY DEF MadeSnapshot
<1>5. Grows(p, p)
  BY <1>1, <1>2, <1>4, PutsGrow DEF Storing
<1>6. ~Held("cycles", p)'
  BY <1>1, <1>2, <1>5, HeldBefore
<1>7. task'[p] \in Task /\ TaskIsSound(p)'
  BY <1>2, <1>3, <1>6, ScannedSoundly
<1>8. SnapshotsAreSound'
  <2>1. ASSUME NEW s \in Around("snapshots")'
        PROVE  /\ s.files \in Files
               /\ Kept(ScanParts) =>
                    \A f \in Path : s.files[f] # Gone => IsReported(f, s.files[f])
    <3>1. CASE s \in Around("snapshots")
      BY <3>1 DEF SnapshotsAreSound, UnderWay
    <3>2. CASE s = MadeSnapshot(p)
      <4>1. s.files = task[p].seen /\ task[p].seen \in Files
        BY <3>2, <1>2 DEF MadeSnapshot, Task
      <4> QED
        BY <4>1, <1>2
    <3> QED
      BY <2>1, <3>1, <3>2, <1>3
  <2>2. Kept(ScanParts)' => Kept(ScanParts)
    BY <1>5, KeptBefore DEF Grows
  <2>3. Kept(ScanParts)' => \A f, content : IsReported(f, content) => IsReported(f, content)'
    BY <1>5 DEF Grows
  <2> QED
    BY <2>1, <2>2, <2>3 DEF SnapshotsAreSound
<1>9. Around("cycles")' \subseteq Around("cycles")
  BY <1>1, <1>5 DEF Grows
<1> QED
  BY <1>2, <1>5, <1>7, <1>8, <1>9 DEF Advances

LEMMA MarkAdvances ==
  ASSUME NEW p \in Runner, UnderWay(p), Mark(p)
  PROVE  Advances(p) /\ Around("cycles")' \subseteq Around("cycles")
<1> DEFINE Rest(f) == [task[p] EXCEPT !.todo = @ \ {f}]
           Then(f) == CASE Rest(f).todo # {} -> Rest(f)
                        [] Rest(f).todo = {} /\ Rest(f).rounds > 1 ->
                             Scanned([Rest(f) EXCEPT !.rounds = @ - 1])
                        [] OTHER -> Planned(Rest(f))
<1>1. PICK f \in task[p].todo : Puts(p, [name |-> <<p, f>>, marked |-> TRUE], Then(f))
  BY DEF Mark
<1>2. /\ task[p] \in Task /\ task[p].step = "marking" /\ WorkTypeOK
      /\ task[p].done = Nothing /\ task[p].action = NoAction /\ ~Held("cycles", p)
      /\ Kept(CycleParts) => \A g \in task[p].signals \ task[p].todo : Marked(<<p, g>>)
  BY UnderWayFacts DEF UnderWay, Mark, At, CycleIsOrderly, CycleIsBacked, CycleSteps, ActionSteps
<1>3. /\ task'[p] = Then(f)
      /\ [name |-> <<p, f>>, marked |-> TRUE] \in store'["signals"]
  <2> HIDE DEF Then
  <2> QED
    BY <1>1, <1>2, PutsEffect, Repositories DEF Storing
<1>4. Grows(p, f)
  <2> HIDE DEF Then
  <2> QED
    BY <1>1, <1>2, PutsGrow DEF Storing
<1>5. ~Held("cycles", p)'
  BY <1>2, <1>4, HeldBefore
<1> DEFINE next == Rest(f)
<1>6. /\ next \in Task /\ next.todo = task[p].todo \ {f} /\ next.step = "marking"
      /\ next.signals = task[p].signals /\ next.done = Nothing /\ next.action = NoAction
      /\ next.left = task[p].left
  <2> DEFINE todo == task[p].todo \ {f}
  <2>1. todo \in SUBSET Path /\ next = [task[p] EXCEPT !.todo = todo]
    BY <1>2 DEF Task
  <2> HIDE DEF todo, next
  <2>2. /\ next \in Task /\ next.todo = todo /\ next.step = "marking"
        /\ next.signals = task[p].signals /\ next.done = Nothing /\ next.action = NoAction
        /\ next.left = task[p].left
    BY <1>2, <2>1 DEF Task
  <2> QED
    BY <2>2 DEF todo
<1>7. Kept(CycleParts)' => \A g \in next.signals \ next.todo : Marked(<<p, g>>)'
  <2> HIDE DEF next
  <2> SUFFICES ASSUME Kept(CycleParts)' PROVE \A g \in next.signals \ next.todo : Marked(<<p, g>>)'
    OBVIOUS
  <2>1. Marked(<<p, f>>)'
    BY <1>3 DEF Marked
  <2>2. Kept(CycleParts)
    BY <1>4, KeptBefore DEF Grows
  <2>3. \A g \in task[p].signals \ task[p].todo : Marked(<<p, g>>)
    BY <1>2, <2>2
  <2>4. \A g : Marked(<<p, g>>) => Marked(<<p, g>>)'
    BY <1>2, <1>4 DEF Grows
  <2> QED
    BY <1>6, <2>1, <2>3, <2>4
<1>8. \/ task'[p] = next /\ next.todo # {}
      \/ task'[p] = Scanned([next EXCEPT !.rounds = @ - 1]) /\ next.rounds > 1
      \/ task'[p] = Planned(next) /\ next.todo = {}
  BY <1>3
<1> HIDE DEF next, Then
<1>9. task'[p] \in Task /\ TaskIsSound(p)'
  <2>1. CASE task'[p] = next
    <3>1. Nothing.artifacts = {} /\ NoAction \notin task[p].left
      BY <1>2 DEF Nothing, Task
    <3>2. ScanIsFresh(p)' /\ ScanIsReported(p)'
      BY <2>1, <1>6, ScanOver
    <3>3. CycleIsOrderly(p)' /\ (Kept(CycleParts)' => CycleIsBacked(p)')
      BY <2>1, <1>5, <1>6, <1>7, <3>1 DEF CycleIsOrderly, CycleIsBacked, CycleSteps, ActionSteps
    <3> QED
      BY <2>1, <1>6, <3>2, <3>3 DEF TaskIsSound
  <2>2. CASE task'[p] = Scanned([next EXCEPT !.rounds = @ - 1]) /\ next.rounds > 1
    <3> DEFINE again == [next EXCEPT !.rounds = @ - 1]
    <3>1. next.rounds - 1 \in Nat
      BY <1>6, <2>2 DEF Task
    <3>2. again \in Task /\ again.done = Nothing /\ again.action = NoAction
      BY <1>6, <3>1 DEF Task
    <3> HIDE DEF again
    <3>3. task'[p] = Scanned(again)
      BY <2>2 DEF again
    <3> QED
      BY <1>5, <3>2, <3>3, ScannedSoundly
  <2>3. CASE task'[p] = Planned(next) /\ next.todo = {}
    BY <2>3, <1>5, <1>6, <1>7, PlansSoundly
  <2> QED
    BY <1>8, <2>1, <2>2, <2>3
<1>10. SnapshotsAreSound'
  BY <1>2, <1>4, ReportsStay DEF UnderWay
<1>11. Around("cycles")' \subseteq Around("cycles")
  BY <1>2, <1>4 DEF Grows
<1> QED
  BY <1>2, <1>4, <1>9, <1>10, <1>11 DEF Advances

LEMMA ActionFacts ==
  ASSUME NEW p \in Runner, UnderWay(p), NEW t, t = task[p],
         t.step \in ActionSteps \cup {"working", "recording"}
  PROVE  /\ t \in Task /\ ~Held("cycles", p)
         /\ Kept(CycleParts) => Backs(p, t.signals, t.done, {t.action})
         /\ t.left \cap t.done.artifacts = {} /\ t.action \notin t.left \cup Workflows
         /\ t.step \in ActionSteps => t.action \in Action
         /\ t.step \notin ActionSteps => t.action = NoAction
         /\ t.step \in {"acting", "producing", "closing"} => t.action \notin t.done.artifacts
         /\ Kept(CycleParts) /\ t.step = "closing" => Stored("artifacts", <<p, t.action>>)
         /\ t.step = "validating" => t.action \in t.done.artifacts
<1>1. t.step \in CycleSteps /\ t.step \notin {"looping", "finished"}
  BY DEF CycleSteps, ActionSteps
<1>2. t \in Task /\ CycleIsOrderly(p) /\ (Kept(CycleParts) => CycleIsBacked(p))
  BY UnderWayFacts
<1>3. t.action \in Action \cup {NoAction}
  BY <1>2 DEF Task
<1> QED
  BY <1>1, <1>2, <1>3 DEF CycleIsOrderly, CycleIsBacked

LEMMA ActionAdvances ==
  ASSUME NEW p \in Runner, UnderWay(p), NEW x, Grows(p, x), NEW u, u = task'[p], u \in Task,
         task[p].step \in ActionSteps \cup {"working"},
         u.step \in ActionSteps \cup {"working", "recording"},
         Kept(CycleParts)' => Backs(p, u.signals, u.done, {u.action})',
         u.left \cap u.done.artifacts = {}, u.action \notin u.left \cup Workflows,
         u.step \in ActionSteps <=> u.action # NoAction,
         u.step \in {"acting", "producing", "closing"} => u.action \notin u.done.artifacts,
         Kept(CycleParts)' /\ u.step = "closing" => Stored("artifacts", <<p, u.action>>)',
         u.step = "validating" => u.action \in u.done.artifacts
  PROVE  Advances(p) /\ Around("cycles")' \subseteq Around("cycles")
<1>1. ~Held("cycles", p) /\ task[p].step \notin {"snapshotting", "recording"}
  BY ActionFacts DEF ActionSteps
<1>2. Around("cycles")' \subseteq Around("cycles")
  BY <1>1 DEF Grows
<1>3. ~Held("cycles", p)'
  BY <1>1, HeldBefore
<1>4. SnapshotsAreSound'
  BY <1>1, ReportsStay DEF UnderWay
<1>5. u.step \in CycleSteps
      /\ u.step \notin {"looping", "finished", "marking", "collecting", "signalling", "noting", "snapshotting"}
  BY DEF CycleSteps, ActionSteps
<1>6. ScanIsFresh(p)' /\ ScanIsReported(p)'
  BY <1>5, ScanOver
<1>7. CycleIsOrderly(p)'
  BY <1>3, <1>5 DEF CycleIsOrderly
<1>8. Kept(CycleParts)' => CycleIsBacked(p)'
  BY <1>5 DEF CycleIsBacked
<1> QED
  BY <1>1, <1>2, <1>4, <1>5, <1>6, <1>7, <1>8 DEF Advances, TaskIsSound

LEMMA WorkflowAdvances ==
  ASSUME NEW p \in Runner, UnderWay(p), RunWorkflow(p)
  PROVE  Advances(p) /\ Around("cycles")' \subseteq Around("cycles")
<1>1. PICK t : t = task[p]
  OBVIOUS
<1>2. PICK a \in t.left :
        LET next == [t EXCEPT !.left = @ \ {a}]
        IN  Puts(p, [name |-> <<p, a>>],
                 IF a \in Workflows THEN Onward([next EXCEPT !.done.runs = @ \cup {a}])
                 ELSE [next EXCEPT !.action = a, !.step = "acting"])
  BY <1>1 DEF RunWorkflow
<1>3. t.step = "working" /\ t.step \in ActionSteps \cup {"working", "recording"} /\ t.step \in Storing
  BY <1>1 DEF RunWorkflow, At, Storing
<1>4. /\ t \in Task /\ (Kept(CycleParts) => Backs(p, t.signals, t.done, {NoAction}))
      /\ t.left \cap t.done.artifacts = {} /\ t.action = NoAction
  BY <1>1, <1>3, ActionFacts DEF ActionSteps
<1>5. t.left \in SUBSET Action /\ t.done.artifacts \in SUBSET Action /\ a \in Action
  BY <1>4 DEF Task
<1> DEFINE left == t.left \ {a}
           runs == t.done.runs \cup {a}
           u == IF a \in Workflows
                THEN Onward([t EXCEPT !.left = left, !.done = [t.done EXCEPT !.runs = runs]])
                ELSE [t EXCEPT !.left = left, !.action = a, !.step = "acting"]
<1>6. Puts(p, [name |-> <<p, a>>], u)
  <2>1. [[t EXCEPT !.left = @ \ {a}] EXCEPT !.done.runs = @ \cup {a}]
          = [t EXCEPT !.left = left, !.done = [t.done EXCEPT !.runs = runs]]
    BY <1>4 DEF Task
  <2>2. [[t EXCEPT !.left = @ \ {a}] EXCEPT !.action = a, !.step = "acting"]
          = [t EXCEPT !.left = left, !.action = a, !.step = "acting"]
    BY <1>4 DEF Task
  <2> HIDE DEF left, runs
  <2> QED
    BY <1>2, <2>1, <2>2
<1>7. left \in SUBSET Action /\ runs \in SUBSET Action
  BY <1>4, <1>5 DEF Task
<1>8. /\ u \in Task /\ u.left = left /\ u.signals = t.signals /\ u.done.artifacts = t.done.artifacts
      /\ u.done.proposals = t.done.proposals /\ u.done.status = t.done.status
      /\ \/ /\ a \in Workflows /\ u.step \in {"working", "recording"} /\ u.action = NoAction
            /\ u.done.runs = runs
         \/ a \notin Workflows /\ u.step = "acting" /\ u.action = a /\ u.done.runs = t.done.runs
  <2> HIDE DEF left, runs
  <2>1. CASE a \in Workflows
    <3> DEFINE next == [t EXCEPT !.left = left, !.done = [t.done EXCEPT !.runs = runs]]
    <3>1. next \in Task /\ next.left = left /\ next.signals = t.signals
          /\ next.done = [t.done EXCEPT !.runs = runs]
      BY <1>4, <1>7 DEF Task
    <3>2. /\ next.done.artifacts = t.done.artifacts /\ next.done.runs = runs
          /\ next.done.proposals = t.done.proposals /\ next.done.status = t.done.status
      BY <1>4, <3>1 DEF Task
    <3>3. u = Onward(next)
      BY <2>1
    <3> HIDE DEF next, u
    <3> QED
      BY <2>1, <3>1, <3>2, <3>3, OnwardFields
  <2>2. CASE a \notin Workflows
    <3>1. u = [t EXCEPT !.left = left, !.action = a, !.step = "acting"]
      BY <2>2
    <3> HIDE DEF u
    <3> QED
      BY <2>2, <3>1, <1>4, <1>5, <1>7 DEF Task, Steps, CycleSteps, ActionSteps
  <2> QED
    BY <2>1, <2>2
<1> HIDE DEF u
<1>9. /\ u = task'[p]
      /\ [name |-> <<p, a>>] \in store'["workflows"]
  BY <1>1, <1>3, <1>6, PutsEffect, Repositories DEF UnderWay
<1>10. Grows(p, a)
  BY <1>1, <1>3, <1>6, PutsGrow DEF UnderWay
<1>11. Stored("workflows", <<p, a>>)'
  BY <1>9 DEF Stored
<1>12. Kept(CycleParts)' => Backs(p, t.signals, t.done, {NoAction})'
  <2>1. Kept(CycleParts)' => Kept(CycleParts)
    BY <1>10, KeptBefore DEF Grows
  <2> QED
    BY <1>1, <1>3, <1>4, <1>10, <2>1, BacksStay
<1>13. Kept(CycleParts)' => Backs(p, u.signals, u.done, {u.action})'
  BY <1>5, <1>8, <1>11, <1>12 DEF Backs
<1>14. /\ u.left \cap u.done.artifacts = {} /\ u.action \notin u.left \cup Workflows
       /\ u.step = "acting" => u.action \notin u.done.artifacts
  BY <1>4, <1>5, <1>7, <1>8
<1>15. /\ u.step \in {"acting", "working", "recording"} /\ (u.step = "acting" <=> u.action # NoAction)
  BY <1>5, <1>8
<1> QED
  BY <1>1, <1>3, <1>8, <1>9, <1>10, <1>13, <1>14, <1>15, ActionAdvances DEF ActionSteps

\* The facts of the step of an action, which is about its item.
Stores(p, t, record, next) ==
  /\ UnderWay(p)
  /\ t = task[p] /\ t.step \in ActionSteps \ {"validating"}
  /\ Puts(p, record, next)
  /\ record.name = Name(p)
  /\ t.step = "closing" => record.status = "completed" /\ record.artifact
  /\ t.step = "settling" => record.screened

LEMMA StepFacts ==
  ASSUME NEW p \in Runner, NEW t, NEW record, NEW next, Stores(p, t, record, next)
  PROVE  /\ t \in Task /\ t.action \in Action /\ t.action \notin t.left \cup Workflows
         /\ Grows(p, t.action) /\ task'[p] = next
         /\ record \in store'[RepositoryOf[t.step]]
         /\ Stored(RepositoryOf[t.step], <<p, t.action>>)'
         /\ Kept(CycleParts)' => Backs(p, t.signals, t.done, {t.action})'
<1>0. /\ UnderWay(p) /\ t = task[p] /\ t.step \in ActionSteps /\ t.step # "validating"
      /\ Puts(p, record, next) /\ record.name = Name(p)
      /\ t.step = "closing" => record.status = "completed" /\ record.artifact
      /\ t.step = "settling" => record.screened
  BY DEF Stores
<1>1. t.step \in Storing /\ t.step \notin {"signalling", "noting", "snapshotting", "marking", "recording", "looping"}
  BY <1>0 DEF ActionSteps, Storing
<1>2. /\ t \in Task /\ t.action \in Action /\ t.action \notin t.left \cup Workflows
      /\ Kept(CycleParts) => Backs(p, t.signals, t.done, {t.action})
      /\ t.step = "acting" => t.action \notin t.done.artifacts
  BY <1>0, ActionFacts
<1>3. record.name = <<p, t.action>>
  BY <1>0 DEF Name
<1>4. Grows(p, t.action)
  BY <1>0, <1>1, <1>3, PutsGrow DEF UnderWay
<1>5. task'[p] = next /\ record \in store'[RepositoryOf[t.step]]
  BY <1>0, <1>1, PutsEffect DEF UnderWay
<1>6. Kept(CycleParts)' => Backs(p, t.signals, t.done, {t.action})'
  <2>1. Kept(CycleParts)' => Kept(CycleParts)
    BY <1>4, KeptBefore DEF Grows
  <2> QED
    BY <1>0, <1>1, <1>2, <1>4, <2>1, BacksStay
<1>7. Stored(RepositoryOf[t.step], <<p, t.action>>)'
  BY <1>3, <1>5 DEF Stored
<1> QED
  BY <1>2, <1>4, <1>5, <1>6, <1>7

LEMMA FailAdvances ==
  ASSUME NEW p \in Runner, UnderWay(p), FailAction(p)
  PROVE  Advances(p) /\ Around("cycles")' \subseteq Around("cycles")
<1>1. PICK t : t = task[p]
  OBVIOUS
<1> DEFINE a == t.action
           done == [t.done EXCEPT !.runs = @ \cup {a}]
           u == Onward([t EXCEPT !.done.runs = @ \cup {a}])
           record == [name |-> Name(p), status |-> "failed", artifact |-> FALSE]
<1>2. t.step = "acting" /\ t.step \in ActionSteps /\ Puts(p, record, u)
  BY <1>1 DEF FailAction, At, ActionSteps
<1>3. /\ t \in Task /\ a \in Action /\ a \notin t.left \cup Workflows
      /\ t.left \cap t.done.artifacts = {} /\ a \notin t.done.artifacts
  BY <1>1, <1>2, ActionFacts
<1>4. /\ Grows(p, a) /\ task'[p] = u
      /\ Stored("runs", <<p, a>>)' /\ (Kept(CycleParts)' => Backs(p, t.signals, t.done, {a})')
  <2>1. Stores(p, t, record, u)
    BY <1>1, <1>2 DEF Stores
  <2> HIDE DEF record, u
  <2>2. /\ t \in Task /\ t.action \in Action /\ t.action \notin t.left \cup Workflows
        /\ Grows(p, t.action) /\ task'[p] = u
        /\ Stored(RepositoryOf[t.step], <<p, t.action>>)'
        /\ Kept(CycleParts)' => Backs(p, t.signals, t.done, {t.action})'
    BY <2>1, StepFacts
  <2> QED
    BY <1>1, <1>2, <2>2, Repositories
<1>5. /\ done.artifacts = t.done.artifacts /\ done.proposals = t.done.proposals
      /\ done.status = t.done.status /\ done.runs = t.done.runs \cup {a}
      /\ [t EXCEPT !.done = done] \in Task
      /\ [t EXCEPT !.done.runs = @ \cup {a}] = [t EXCEPT !.done = done]
  BY <1>3 DEF Task
<1>6. NoAction \notin t.done.artifacts \cup t.left \cup Workflows
  BY <1>3 DEF Task
<1>7. /\ u \in Task /\ u.step \in {"recording", "working"} /\ u.action = NoAction
      /\ u.signals = t.signals /\ u.left = t.left /\ u.done = done
  <2> DEFINE next == [t EXCEPT !.done = done]
  <2>1. next \in Task /\ next.signals = t.signals /\ next.left = t.left /\ next.done = done /\ u = Onward(next)
    BY <1>3, <1>5 DEF Task
  <2> HIDE DEF next, u
  <2> QED
    BY <2>1, OnwardFields
<1> HIDE DEF u, done
<1>8. Kept(CycleParts)' => Backs(p, u.signals, u.done, {u.action})'
  BY <1>3, <1>4, <1>5, <1>6, <1>7 DEF Backs
<1> QED
  BY <1>1, <1>2, <1>3, <1>4, <1>5, <1>6, <1>7, <1>8, ActionAdvances DEF ActionSteps

LEMMA CompleteAdvances ==
  ASSUME NEW p \in Runner, UnderWay(p), CompleteAction(p)
  PROVE  Advances(p) /\ Around("cycles")' \subseteq Around("cycles")
<1>1. PICK t : t = task[p]
  OBVIOUS
<1> DEFINE u == [t EXCEPT !.step = "producing"]
           record == [name |-> Name(p), status |-> "completed", artifact |-> FALSE]
<1>2. t.step = "acting" /\ t.step \in ActionSteps /\ Puts(p, record, u)
  BY <1>1 DEF CompleteAction, At, ActionSteps
<1>3. t.left \cap t.done.artifacts = {} /\ t.action \notin t.done.artifacts
  BY <1>1, <1>2, ActionFacts
<1>4. /\ t \in Task /\ t.action \in Action /\ t.action \notin t.left \cup Workflows
      /\ Grows(p, t.action) /\ task'[p] = u
      /\ Stored("runs", <<p, t.action>>)'
      /\ Kept(CycleParts)' => Backs(p, t.signals, t.done, {t.action})'
  <2>1. Stores(p, t, record, u)
    BY <1>1, <1>2 DEF Stores
  <2> HIDE DEF record, u
  <2>2. /\ t \in Task /\ t.action \in Action /\ t.action \notin t.left \cup Workflows
        /\ Grows(p, t.action) /\ task'[p] = u
        /\ Stored(RepositoryOf[t.step], <<p, t.action>>)'
        /\ Kept(CycleParts)' => Backs(p, t.signals, t.done, {t.action})'
    BY <2>1, StepFacts
  <2> QED
    BY <1>1, <1>2, <2>2, Repositories
<1>5. /\ u \in Task /\ u.step = "producing" /\ u.action = t.action
      /\ u.signals = t.signals /\ u.left = t.left /\ u.done = t.done
  BY <1>4 DEF Task, Steps, CycleSteps, ActionSteps
<1> HIDE DEF u
<1> QED
  BY <1>1, <1>2, <1>3, <1>4, <1>5, ActionAdvances DEF ActionSteps

LEMMA ArtifactAdvances ==
  ASSUME NEW p \in Runner, UnderWay(p), AddArtifact(p)
  PROVE  Advances(p) /\ Around("cycles")' \subseteq Around("cycles")
<1>1. PICK t : t = task[p]
  OBVIOUS
<1> DEFINE u == [t EXCEPT !.step = "closing"]
           record == [name |-> Name(p)]
<1>2. t.step = "producing" /\ t.step \in ActionSteps /\ Puts(p, record, u)
  BY <1>1 DEF AddArtifact, At, ActionSteps
<1>3. t.left \cap t.done.artifacts = {} /\ t.action \notin t.done.artifacts
  BY <1>1, <1>2, ActionFacts
<1>4. /\ t \in Task /\ t.action \in Action /\ t.action \notin t.left \cup Workflows
      /\ Grows(p, t.action) /\ task'[p] = u
      /\ Kept(CycleParts)' => Backs(p, t.signals, t.done, {t.action})'
      /\ Stored("artifacts", <<p, t.action>>)'
  <2>1. Stores(p, t, record, u)
    BY <1>1, <1>2 DEF Stores
  <2> HIDE DEF record, u
  <2>2. /\ t \in Task /\ t.action \in Action /\ t.action \notin t.left \cup Workflows
        /\ Grows(p, t.action) /\ task'[p] = u
        /\ Stored(RepositoryOf[t.step], <<p, t.action>>)'
        /\ Kept(CycleParts)' => Backs(p, t.signals, t.done, {t.action})'
    BY <2>1, StepFacts
  <2> QED
    BY <1>1, <1>2, <2>2, Repositories
<1>5. /\ u \in Task /\ u.step = "closing" /\ u.action = t.action
      /\ u.signals = t.signals /\ u.left = t.left /\ u.done = t.done
  BY <1>4 DEF Task, Steps, CycleSteps, ActionSteps
<1> HIDE DEF u
<1> QED
  BY <1>1, <1>2, <1>3, <1>4, <1>5, ActionAdvances DEF ActionSteps

LEMMA CloseAdvances ==
  ASSUME NEW p \in Runner, UnderWay(p), CloseRun(p)
  PROVE  Advances(p) /\ Around("cycles")' \subseteq Around("cycles")
<1>1. PICK t : t = task[p]
  OBVIOUS
<1> DEFINE a == t.action
           done == [t.done EXCEPT !.runs = @ \cup {a}, !.artifacts = @ \cup {a}]
           u == [t EXCEPT !.step = "validating", !.done = done]
           record == [name |-> Name(p), status |-> "completed", artifact |-> TRUE]
<1>2. t.step = "closing" /\ t.step \in ActionSteps
  BY <1>1 DEF CloseRun, At, ActionSteps
<1>3. /\ t \in Task /\ a \in Action /\ a \notin t.left \cup Workflows
      /\ t.left \cap t.done.artifacts = {} /\ (Kept(CycleParts) => Stored("artifacts", <<p, a>>))
  BY <1>1, <1>2, ActionFacts
<1>4. Puts(p, record, u)
  <2>1. u = [t EXCEPT !.step = "validating", !.done.runs = @ \cup {t.action},
                      !.done.artifacts = @ \cup {t.action}]
    BY <1>3 DEF Task
  <2> QED
    BY <1>1, <2>1 DEF CloseRun
<1>5. /\ Grows(p, a) /\ task'[p] = u /\ record \in store'["runs"]
      /\ Stored("runs", <<p, a>>)' /\ (Kept(CycleParts)' => Backs(p, t.signals, t.done, {a})')
  <2>1. Stores(p, t, record, u)
    BY <1>1, <1>2, <1>4 DEF Stores
  <2>2. RepositoryOf[t.step] = "runs"
    BY <1>2, Repositories
  <2> HIDE DEF record, u, a
  <2>3. /\ Grows(p, t.action) /\ task'[p] = u /\ record \in store'[RepositoryOf[t.step]]
        /\ Stored(RepositoryOf[t.step], <<p, t.action>>)'
        /\ Kept(CycleParts)' => Backs(p, t.signals, t.done, {t.action})'
    BY <2>1, StepFacts
  <2> QED
    BY <2>2, <2>3 DEF a
<1>6. /\ done.artifacts = t.done.artifacts \cup {a} /\ done.proposals = t.done.proposals
      /\ done.status = t.done.status /\ done.runs = t.done.runs \cup {a}
  BY <1>3 DEF Task
<1>7. /\ u \in Task /\ u.step = "validating" /\ u.action = a
      /\ u.signals = t.signals /\ u.left = t.left /\ u.done = done
  BY <1>3 DEF Task, Steps, CycleSteps, ActionSteps
<1>8. Kept(CycleParts)' => Produced(<<p, a>>)'
  <2>1. Kept(CycleParts)' => Stored("artifacts", <<p, a>>)'
    <3>1. Kept(CycleParts)' => Kept(CycleParts)
      BY <1>5, KeptBefore DEF Grows
    <3>2. Kept(CycleParts)' => (Stored("artifacts", <<p, a>>) => Stored("artifacts", <<p, a>>)')
      BY <1>5, Repositories DEF Grows, Kept, CycleParts
    <3> QED
      BY <1>3, <3>1, <3>2
  <2>2. /\ record.name = <<p, a>> /\ record.status = "completed" /\ record.artifact
    BY <1>1 DEF Name
  <2> QED
    BY <1>5, <2>1, <2>2 DEF Produced
<1> HIDE DEF u, done
<1>9. Kept(CycleParts)' => Backs(p, u.signals, u.done, {u.action})'
  BY <1>3, <1>5, <1>6, <1>7, <1>8 DEF Backs
<1>10. u.left \cap u.done.artifacts = {} /\ u.action \notin u.left \cup Workflows /\ u.action # NoAction
  BY <1>3, <1>6, <1>7
<1> QED
  BY <1>1, <1>2, <1>5, <1>6, <1>7, <1>9, <1>10, ActionAdvances DEF ActionSteps

\* What was made is read back, unless another upsert took it away.
LEMMA ValidateAdvances ==
  ASSUME NEW p \in Runner, UnderWay(p), Validate(p)
  PROVE  Advances(p) /\ Around("cycles")' \subseteq Around("cycles") /\ store' = store
<1>1. PICK t : t = task[p]
  OBVIOUS
<1>2. t.step = "validating" /\ t.step \in ActionSteps
  BY <1>1 DEF Validate, At, ActionSteps
<1>3. /\ t \in Task /\ t.action \in Action /\ t.action \notin t.left \cup Workflows
      /\ t.left \cap t.done.artifacts = {} /\ t.action \in t.done.artifacts
      /\ NoAction \notin t.left \cup Workflows
      /\ Kept(CycleParts) => Backs(p, t.signals, t.done, {t.action})
  BY <1>1, <1>2, ActionFacts DEF Task
<1>4. Kept(CycleParts) => \E artifact \in store["artifacts"] : artifact.name = Name(p)
  BY <1>1, <1>3 DEF Backs, Produced, Stored, Name
<1>5. PICK u :
        /\ u = IF \E artifact \in store["artifacts"] : artifact.name = Name(p)
               THEN [t EXCEPT !.step = "proposing"] ELSE Onward(t)
        /\ Turns(p, u)
  BY <1>1 DEF Validate
<1>6. Grows(p, p) /\ task'[p] = u /\ store' = store
  BY <1>5, TurnsGrow DEF UnderWay
<1>7. /\ u \in Task
      /\ \/ u.step = "proposing" /\ u.action = t.action
         \/ /\ u.step \in {"recording", "working"} /\ u.action = NoAction
            /\ ~\E artifact \in store["artifacts"] : artifact.name = Name(p)
      /\ u.signals = t.signals /\ u.left = t.left /\ u.done = t.done
  <2>1. CASE \E artifact \in store["artifacts"] : artifact.name = Name(p)
    <3>1. u = [t EXCEPT !.step = "proposing"]
      BY <2>1, <1>5
    <3> QED
      BY <3>1, <1>3 DEF Task, Steps, CycleSteps, ActionSteps
  <2>2. CASE ~\E artifact \in store["artifacts"] : artifact.name = Name(p)
    <3>1. u = Onward(t)
      BY <2>2, <1>5
    <3> QED
      BY <2>2, <3>1, <1>3, OnwardFields
  <2> QED
    BY <2>1, <2>2
<1>8. Kept(CycleParts)' => u.action = t.action /\ Backs(p, t.signals, t.done, {t.action})'
  <2>1. Kept(CycleParts)' => Kept(CycleParts)
    BY <1>6, KeptBefore DEF Grows
  <2>2. Kept(CycleParts)' => Backs(p, t.signals, t.done, {t.action})'
    BY <2>1, <1>1, <1>2, <1>3, <1>6, BacksStay
  <2> QED
    BY <2>1, <2>2, <1>4, <1>7
<1>9. Kept(CycleParts)' => Backs(p, u.signals, u.done, {u.action})'
  BY <1>7, <1>8
<1>10. /\ u.left \cap u.done.artifacts = {} /\ u.action \notin u.left \cup Workflows
       /\ u.step \in {"proposing", "working", "recording"}
       /\ u.step = "proposing" <=> u.action # NoAction
  BY <1>3, <1>7
<1> QED
  BY <1>1, <1>2, <1>6, <1>7, <1>9, <1>10, ActionAdvances DEF ActionSteps

LEMMA ProposeAdvances ==
  ASSUME NEW p \in Runner, UnderWay(p), Propose(p)
  PROVE  Advances(p) /\ Around("cycles")' \subseteq Around("cycles")
<1>1. PICK t : t = task[p]
  OBVIOUS
<1> DEFINE a == t.action
           done == [t.done EXCEPT !.proposals = @ \cup {a}]
           u == [t EXCEPT !.step = "screening", !.done = done]
           record == [name |-> Name(p), screened |-> FALSE]
<1>2. t.step = "proposing" /\ t.step \in ActionSteps
  BY <1>1 DEF Propose, At, ActionSteps
<1>3. /\ t \in Task /\ a \in Action /\ a \notin t.left \cup Workflows
      /\ t.left \cap t.done.artifacts = {}
  BY <1>1, <1>2, ActionFacts
<1>4. Puts(p, record, u)
  <2>1. u = [t EXCEPT !.step = "screening", !.done.proposals = @ \cup {t.action}]
    BY <1>3 DEF Task
  <2> QED
    BY <1>1, <2>1 DEF Propose
<1>5. /\ Grows(p, a) /\ task'[p] = u
      /\ Stored("proposals", <<p, a>>)' /\ (Kept(CycleParts)' => Backs(p, t.signals, t.done, {a})')
  <2>1. Stores(p, t, record, u)
    BY <1>1, <1>2, <1>4 DEF Stores
  <2> HIDE DEF record, u
  <2>2. /\ t \in Task /\ t.action \in Action /\ t.action \notin t.left \cup Workflows
        /\ Grows(p, t.action) /\ task'[p] = u
        /\ Stored(RepositoryOf[t.step], <<p, t.action>>)'
        /\ Kept(CycleParts)' => Backs(p, t.signals, t.done, {t.action})'
    BY <2>1, StepFacts
  <2> QED
    BY <1>2, <2>2, Repositories
<1>6. /\ done.artifacts = t.done.artifacts /\ done.proposals = t.done.proposals \cup {a}
      /\ done.status = t.done.status /\ done.runs = t.done.runs
  BY <1>3 DEF Task
<1>7. /\ u \in Task /\ u.step = "screening" /\ u.action = a
      /\ u.signals = t.signals /\ u.left = t.left /\ u.done = done
  BY <1>3 DEF Task, Steps, CycleSteps, ActionSteps
<1> HIDE DEF u, done
<1>8. Kept(CycleParts)' => Backs(p, u.signals, u.done, {u.action})'
  BY <1>3, <1>5, <1>6, <1>7 DEF Backs
<1>9. u.left \cap u.done.artifacts = {} /\ u.action \notin u.left \cup Workflows /\ u.action # NoAction
  BY <1>3, <1>6, <1>7
<1> QED
  BY <1>1, <1>2, <1>5, <1>7, <1>8, <1>9, ActionAdvances DEF ActionSteps

LEMMA DecideAdvances ==
  ASSUME NEW p \in Runner, UnderWay(p), Decide(p)
  PROVE  Advances(p) /\ Around("cycles")' \subseteq Around("cycles")
<1>1. PICK t : t = task[p]
  OBVIOUS
<1> DEFINE u == [t EXCEPT !.step = "settling"]
           record == [name |-> Name(p)]
<1>2. t.step = "screening" /\ t.step \in ActionSteps /\ Puts(p, record, u)
  BY <1>1 DEF Decide, At, ActionSteps
<1>3. t.left \cap t.done.artifacts = {}
  BY <1>1, <1>2, ActionFacts
<1>4. /\ t \in Task /\ t.action \in Action /\ t.action \notin t.left \cup Workflows
      /\ Grows(p, t.action) /\ task'[p] = u
      /\ Kept(CycleParts)' => Backs(p, t.signals, t.done, {t.action})'
  <2>1. Stores(p, t, record, u)
    BY <1>1, <1>2 DEF Stores
  <2> HIDE DEF record, u
  <2>2. /\ t \in Task /\ t.action \in Action /\ t.action \notin t.left \cup Workflows
        /\ Grows(p, t.action) /\ task'[p] = u
        /\ Stored(RepositoryOf[t.step], <<p, t.action>>)'
        /\ Kept(CycleParts)' => Backs(p, t.signals, t.done, {t.action})'
    BY <2>1, StepFacts
  <2> QED
    BY <1>1, <1>2, <2>2, Repositories
<1>5. /\ u \in Task /\ u.step = "settling" /\ u.action = t.action
      /\ u.signals = t.signals /\ u.left = t.left /\ u.done = t.done
  BY <1>4 DEF Task, Steps, CycleSteps, ActionSteps
<1> HIDE DEF u
<1> QED
  BY <1>1, <1>2, <1>3, <1>4, <1>5, ActionAdvances DEF ActionSteps

LEMMA SettleAdvances ==
  ASSUME NEW p \in Runner, UnderWay(p), Settle(p)
  PROVE  Advances(p) /\ Around("cycles")' \subseteq Around("cycles")
<1>1. PICK t : t = task[p]
  OBVIOUS
<1> DEFINE a == t.action
           u == Onward(t)
           record == [name |-> Name(p), screened |-> TRUE]
<1>2. t.step = "settling" /\ t.step \in ActionSteps /\ Puts(p, record, u)
  BY <1>1 DEF Settle, At, ActionSteps
<1>3. t \in Task /\ t.left \cap t.done.artifacts = {} /\ NoAction \notin t.left \cup Workflows
  BY <1>1, <1>2, ActionFacts DEF Task
<1>4. /\ a \in Action /\ Grows(p, a) /\ task'[p] = u /\ record \in store'["proposals"]
      /\ Stored("proposals", <<p, a>>)' /\ (Kept(CycleParts)' => Backs(p, t.signals, t.done, {a})')
  <2>1. Stores(p, t, record, u)
    BY <1>1, <1>2 DEF Stores
  <2>2. RepositoryOf[t.step] = "proposals"
    BY <1>2, Repositories
  <2> HIDE DEF record, u
  <2>3. /\ a \in Action /\ Grows(p, a) /\ task'[p] = u /\ record \in store'[RepositoryOf[t.step]]
        /\ Stored(RepositoryOf[t.step], <<p, a>>)' /\ (Kept(CycleParts)' => Backs(p, t.signals, t.done, {a})')
    BY <1>1, <2>1, StepFacts
  <2> QED
    BY <2>2, <2>3
<1>5. /\ u \in Task /\ u.step \in {"recording", "working"} /\ u.action = NoAction
      /\ u.signals = t.signals /\ u.left = t.left /\ u.done = t.done
  BY <1>3, OnwardFields
<1>6. Screened(<<p, a>>)'
  <2>1. record.name = <<p, a>> /\ record.screened
    BY <1>1 DEF Name
  <2> QED
    BY <1>4, <2>1 DEF Screened
<1> HIDE DEF u, record
<1>7. Kept(CycleParts)' => Backs(p, u.signals, u.done, {u.action})'
  BY <1>4, <1>5, <1>6 DEF Backs
<1> QED
  BY <1>1, <1>2, <1>3, <1>4, <1>5, <1>7, ActionAdvances DEF ActionSteps

\* Whatever raises, the cycle knows that its execution had errors.
LEMMA FailureAdvances ==
  ASSUME NEW p \in Runner, UnderWay(p), StepFails(p)
  PROVE  Advances(p) /\ Around("cycles")' \subseteq Around("cycles") /\ store' = store
<1>1. PICK t : t = task[p]
  OBVIOUS
<1>2. t.step \in ActionSteps \cup {"working"}
  BY <1>1, UnderWayFacts DEF StepFails, At, CycleIsOrderly
<1>3. /\ t \in Task /\ t.left \cap t.done.artifacts = {}
      /\ Kept(CycleParts) => Backs(p, t.signals, t.done, {t.action})
  BY <1>1, <1>2, ActionFacts
<1>4. PICK next :
        /\ next \in {t} \cup {[t EXCEPT !.left = @ \ {a}] : a \in t.left}
        /\ Turns(p, Raised(next))
  BY <1>1 DEF StepFails
<1>5. /\ next \in Task /\ next.left \subseteq t.left
      /\ next.signals = t.signals /\ next.done = t.done
  BY <1>3, <1>4 DEF Task
<1> DEFINE failed == [next EXCEPT !.done.status = "completed_with_errors"]
           u == Onward(failed)
<1>6. /\ failed \in Task /\ failed.left = next.left /\ failed.signals = next.signals
      /\ failed.done.status = "completed_with_errors" /\ failed.done.runs = next.done.runs
      /\ failed.done.artifacts = next.done.artifacts /\ failed.done.proposals = next.done.proposals
  BY <1>5 DEF Task
<1>7. Grows(p, p) /\ task'[p] = u /\ store' = store
  BY <1>4, TurnsGrow DEF Raised, UnderWay
<1> HIDE DEF failed
<1>8. /\ u \in Task /\ u.step \in {"recording", "working"} /\ u.action = NoAction
      /\ u.signals = failed.signals /\ u.left = failed.left /\ u.done = failed.done
  BY <1>6, OnwardFields
<1> HIDE DEF u
<1>9. Kept(CycleParts)' => Backs(p, u.signals, u.done, {u.action})'
  <2>1. Kept(CycleParts)' => Kept(CycleParts)
    BY <1>7, KeptBefore DEF Grows
  <2>2. Kept(CycleParts)' => Backs(p, u.signals, u.done, {u.action})
    BY <2>1, <1>3, <1>5, <1>6, <1>8 DEF Backs
  <2> QED
    BY <1>7, <2>2 DEF Backs, Stored, Marked, Produced, Screened
<1>10. u.left \cap u.done.artifacts = {} /\ u.action \notin u.left \cup Workflows
  BY <1>3, <1>5, <1>6, <1>8 DEF Task
<1> QED
  BY <1>1, <1>2, <1>7, <1>8, <1>9, <1>10, ActionAdvances DEF ActionSteps

LEMMA CycleEnds ==
  ASSUME NEW p \in Runner, UnderWay(p), AddCycle(p)
  PROVE  /\ Advances(p)
         /\ \A c \in Around("cycles")' :
              \/ c \in Around("cycles")
              \/ c.name = p /\ (Kept(CycleParts)' => Backs(c.name, c.signals, c.execution, {})')
         /\ \E c \in store'["cycles"] : c.name = p /\ c.execution.status = task'[p].done.status
<1>1. PICK t : t = task[p]
  OBVIOUS
<1> DEFINE u == IF p \in Looping THEN [t EXCEPT !.step = "looping"] ELSE [t EXCEPT !.step = "finished"]
           record == [name |-> p, signals |-> t.signals, execution |-> t.done]
<1>2. t.step = "recording" /\ Puts(p, record, u)
  BY <1>1 DEF AddCycle, At, Finished
<1>3. /\ t \in Task /\ (Kept(CycleParts) => Backs(p, t.signals, t.done, {NoAction}))
      /\ ~Held("cycles", p)
      /\ t.left \cap t.done.artifacts = {} /\ t.action = NoAction /\ NoAction \notin t.left \cup Workflows
  BY <1>1, <1>2, ActionFacts DEF ActionSteps
<1>4. t.step \in Storing /\ record.name = p
  BY <1>2 DEF Storing
<1>5. Grows(p, p)
  <2> HIDE DEF u, record
  <2> QED
    BY <1>1, <1>2, <1>3, <1>4, PutsGrow DEF UnderWay
<1>6. /\ task'[p] = u /\ record \in store'["cycles"]
      /\ \A item \in Around("cycles")' : item \in Around("cycles") \/ item = record
  <2> HIDE DEF u, record
  <2> QED
    BY <1>1, <1>2, <1>4, PutsEffect, Repositories DEF UnderWay
<1>7. /\ u \in Task /\ u.action = NoAction
      /\ \/ p \in Looping /\ u.step = "looping"
         \/ u.step = "finished"
      /\ u.signals = t.signals /\ u.left = t.left /\ u.done = t.done
  BY <1>3 DEF Task, Steps, CycleSteps, ActionSteps
<1> HIDE DEF u
<1>8. Kept(CycleParts)' => Backs(p, t.signals, t.done, {NoAction})'
  <2>1. Kept(CycleParts)' => Kept(CycleParts)
    BY <1>5, KeptBefore DEF Grows
  <2> QED
    BY <2>1, <1>1, <1>2, <1>3, <1>5, BacksStay
<1>9. t.done.artifacts \ {NoAction} = t.done.artifacts \ {}
  BY <1>3 DEF Task
<1>10. Kept(CycleParts)' => Backs(p, t.signals, t.done, {})'
  BY <1>8, <1>9 DEF Backs
<1>11. Stored("cycles", p)'
  BY <1>4, <1>6 DEF Stored
<1>12. TaskIsSound(p)'
  <2>1. ScanIsFresh(p)' /\ ScanIsReported(p)'
    BY <1>6, <1>7, ScanOver
  <2>2. CycleIsOrderly(p)'
    BY <1>3, <1>6, <1>7 DEF CycleIsOrderly, CycleSteps, ActionSteps
  <2>3. Kept(CycleParts)' => CycleIsBacked(p)'
    BY <1>6, <1>7, <1>8 DEF CycleIsBacked
  <2> QED
    BY <1>11, <2>1, <2>2, <2>3 DEF TaskIsSound
<1>13. SnapshotsAreSound'
  BY <1>1, <1>2, <1>5, ReportsStay DEF UnderWay
<1>14. /\ record.name = p /\ record.signals = t.signals /\ record.execution = t.done
  OBVIOUS
<1> HIDE DEF record
<1>15. \A c \in Around("cycles")' :
         \/ c \in Around("cycles")
         \/ c.name = p /\ (Kept(CycleParts)' => Backs(c.name, c.signals, c.execution, {})')
  BY <1>6, <1>10, <1>14
<1> QED
  BY <1>3, <1>5, <1>6, <1>7, <1>12, <1>13, <1>14, <1>15 DEF Advances

LEMMA LoopEnds ==
  ASSUME NEW p \in Runner, UnderWay(p), AddLoop(p)
  PROVE  /\ Advances(p) /\ Around("cycles")' \subseteq Around("cycles")
         /\ p \in Looping /\ (Kept({"cycles"})' => Stored("cycles", p)')
<1>1. PICK t : t = task[p]
  OBVIOUS
<1> DEFINE u == [t EXCEPT !.step = "finished"]
<1>2. t.step = "looping" /\ Puts(p, [name |-> p], u)
  BY <1>1 DEF AddLoop, At, Finished
<1>3. /\ t \in Task /\ (Kept(CycleParts) => Backs(p, t.signals, t.done, {t.action}))
      /\ t.left \cap t.done.artifacts = {} /\ t.action = NoAction /\ NoAction \notin t.left \cup Workflows
      /\ p \in Looping /\ (Kept({"cycles"}) => Stored("cycles", p))
  BY <1>1, <1>2, UnderWayFacts DEF CycleIsOrderly, CycleIsBacked, CycleSteps, ActionSteps
<1>4. t.step \in Storing
  BY <1>2 DEF Storing
<1>5. Grows(p, p)
  <2> HIDE DEF u
  <2> QED
    BY <1>1, <1>2, <1>4, PutsGrow DEF UnderWay
<1>6. task'[p] = u
  BY <1>1, <1>2, <1>4, PutsEffect DEF UnderWay
<1>7. /\ u \in Task /\ u.action = NoAction /\ u.step = "finished"
      /\ u.signals = t.signals /\ u.left = t.left /\ u.done = t.done
  BY <1>3 DEF Task, Steps, CycleSteps, ActionSteps
<1> HIDE DEF u
<1>8. \A repositories : Kept(repositories)' => Kept(repositories)
  BY <1>5, KeptBefore DEF Grows
<1>9. Kept(CycleParts)' => Backs(p, t.signals, t.done, {t.action})'
  BY <1>1, <1>2, <1>3, <1>5, <1>8, BacksStay
<1>10. TaskIsSound(p)'
  <2>1. ScanIsFresh(p)' /\ ScanIsReported(p)'
    BY <1>6, <1>7, ScanOver
  <2>2. CycleIsOrderly(p)'
    BY <1>3, <1>6, <1>7 DEF CycleIsOrderly, CycleSteps, ActionSteps
  <2>3. Kept(CycleParts)' => CycleIsBacked(p)'
    BY <1>3, <1>6, <1>7, <1>9 DEF CycleIsBacked
  <2> QED
    BY <1>6, <1>7, <2>1, <2>2, <2>3 DEF TaskIsSound
<1>11. SnapshotsAreSound'
  BY <1>1, <1>2, <1>5, ReportsStay DEF UnderWay
<1>12. Around("cycles")' \subseteq Around("cycles")
  BY <1>1, <1>2, <1>5 DEF Grows
<1>13. Kept({"cycles"})' => Stored("cycles", p)'
  <2>1. Kept({"cycles"})' => (Stored("cycles", p) => Stored("cycles", p)')
    BY <1>5, Repositories DEF Grows, Kept
  <2> QED
    BY <2>1, <1>3, <1>8
<1> QED
  BY <1>1, <1>2, <1>3, <1>5, <1>6, <1>7, <1>10, <1>11, <1>12, <1>13 DEF Advances

-----------------------------------------------------------------------------
(* The invariant.                                                          *)

\* A step that leaves the repositories alone, and starts no upsert or reads
\* what the repository holds, brings nothing new around.
LEMMA LessAround ==
  ASSUME WorkTypeOK, NEW r \in Runner, store' = store,
         \/ List(r)
         \/ \E next : Turns(r, next)
         \/ UNCHANGED <<task, listed>>
  PROVE  \A repository : Around(repository)' \subseteq Around(repository)
<1> SUFFICES ASSUME NEW repository, NEW item \in Around(repository)'
             PROVE  item \in Around(repository)
  OBVIOUS
<1>1. item \in store[repository] \/ \E q \in Process : \E items \in listed'[q] :
        /\ task'[q].step \in DOMAIN RepositoryOf /\ RepositoryOf[task'[q].step] = repository
        /\ item \in items
  BY DEF Around
<1>2. CASE item \in store[repository]
  BY <1>2, AroundMember
<1>3. ASSUME NEW q \in Process, NEW items \in listed'[q],
             task'[q].step \in DOMAIN RepositoryOf, RepositoryOf[task'[q].step] = repository,
             item \in items
      PROVE  item \in Around(repository)
  <2>1. CASE List(r)
    <3>1. task' = task /\ (items \in listed[q] \/ items = store[RepositoryOf[task[q].step]])
      BY <1>3, <2>1 DEF List, WorkTypeOK
    <3> QED
      BY <1>3, <3>1, AroundMember
  <2>2. CASE \E next : Turns(r, next)
    <3>1. q # r /\ items \in listed[q] /\ task'[q] = task[q]
      BY <1>3, <2>2 DEF Turns, WorkTypeOK
    <3> QED
      BY <1>3, <3>1, AroundMember
  <2>3. CASE UNCHANGED <<task, listed>>
    BY <1>3, <2>3, AroundMember
  <2> QED
    BY <2>1, <2>2, <2>3
<1> QED
  BY <1>1, <1>2, <1>3

LEMMA SameSound ==
  ASSUME store' = store, overtaken' = overtaken,
         \A repository : Around(repository)' \subseteq Around(repository)
  PROVE  /\ SnapshotsAreSound => SnapshotsAreSound'
         /\ CyclesAreSound => CyclesAreSound'
         /\ NamesAreUnique => NamesAreUnique'
         /\ \A q : task'[q] = task[q] /\ TaskIsSound(q) => TaskIsSound(q)'
<1>1. /\ \A f, content : IsReported(f, content)' <=> IsReported(f, content)
      /\ \A repository, name : Stored(repository, name)' <=> Stored(repository, name)
      /\ \A name : Marked(name)' <=> Marked(name)
      /\ \A name : Produced(name)' <=> Produced(name)
      /\ \A name : Screened(name)' <=> Screened(name)
  BY DEF IsReported, Stored, Marked, Produced, Screened
<1>2. \A q, signals, done, unscreened :
        Backs(q, signals, done, unscreened) => Backs(q, signals, done, unscreened)'
  BY <1>1 DEF Backs
<1>3. \A repositories : Kept(repositories)' <=> Kept(repositories)
  BY DEF Kept
<1>4. \A repository, name : Held(repository, name)' => Held(repository, name)
  BY DEF Held
<1>5. SnapshotsAreSound => SnapshotsAreSound'
  BY <1>1, <1>3 DEF SnapshotsAreSound
<1>6. CyclesAreSound => CyclesAreSound'
  BY <1>2, <1>3 DEF CyclesAreSound
<1>7. NamesAreUnique => NamesAreUnique'
  BY DEF NamesAreUnique
<1>8. ASSUME NEW q, task'[q] = task[q], TaskIsSound(q)
      PROVE  TaskIsSound(q)'
  <2>1. ScanIsFresh(q)'
    BY <1>4, <1>8 DEF ScanIsFresh, TaskIsSound
  <2>2. CycleIsOrderly(q)'
    BY <1>4, <1>8 DEF CycleIsOrderly, TaskIsSound
  <2>3. Kept(ScanParts)' => ScanIsReported(q)'
    BY <1>1, <1>3, <1>8 DEF ScanIsReported, TaskIsSound
  <2>4. Kept(CycleParts)' => CycleIsBacked(q)'
    <3> SUFFICES ASSUME CycleIsBacked(q) PROVE CycleIsBacked(q)'
      BY <1>3, <1>8 DEF TaskIsSound
    <3> QED
      BY <1>1, <1>2, <1>8 DEF CycleIsBacked
  <2>5. Kept({"cycles"})' /\ task'[q].step = "looping" => Stored("cycles", q)'
    BY <1>1, <1>3, <1>8 DEF TaskIsSound
  <2> QED
    BY <2>1, <2>2, <2>3, <2>4, <2>5 DEF TaskIsSound
<1> QED
  BY <1>5, <1>6, <1>7, <1>8

\* Of each name there is still one.
LEMMA NamesStay ==
  ASSUME NamesAreUnique, NEW p \in Runner, NEW x, Grows(p, x)
  PROVE  /\ NamesAreUnique'
         /\ \A repository \in {"snapshots", "cycles"} :
              \A old \in Around(repository), record \in Around(repository)' :
                old.name = record.name => old = record
<1> SUFFICES ASSUME NEW repository \in {"snapshots", "cycles"}
             PROVE  /\ \A one, other \in Around(repository)' : one.name = other.name => one = other
                    /\ \A old \in Around(repository), record \in Around(repository)' :
                         old.name = record.name => old = record
  BY DEF NamesAreUnique
<1>1. PICK new : \A item \in Around(repository)' :
        item \in Around(repository) \/ (item = new /\ new.name = p /\ ~Held(repository, p))
  BY DEF Grows
<1>2. ~Held(repository, p) => \A item \in Around(repository) : item.name # p
  BY DEF Held
<1>3. \A one, other \in Around(repository) : one.name = other.name => one = other
  BY DEF NamesAreUnique
<1> QED
  BY <1>1, <1>2, <1>3

\* What one runner may do leaves the others sound.
LEMMA OthersKept ==
  ASSUME WorkTypeOK, RunnersAreSound, CyclesAreSound, NamesAreUnique,
         NEW p \in Runner, Advances(p), files' \in Files, edits' \in Nat, taken' \in Nat,
         \A c \in Around("cycles")' :
           \/ c \in Around("cycles")
           \/ c.name = p /\ (Kept(CycleParts)' => Backs(c.name, c.signals, c.execution, {})')
  PROVE  /\ WorkTypeOK' /\ CyclesAreSound' /\ NamesAreUnique'
         /\ overtaken \subseteq overtaken'
         /\ Kept({"cycles"})' => store["cycles"] \subseteq store'["cycles"]
         /\ \A q \in Runner \ {p} :
              /\ pc[q] \in {"ready", "working"} => TaskIsSound(q)'
              /\ Kept({"cycles"})' /\ pc[q] = "worked" =>
                   \E c \in store'["cycles"] :
                     c.name = q /\ (q \in Looping \/ c.execution.status = task'[q].done.status)
<1>1. PICK x : Grows(p, x)
  BY DEF Advances
<1>2. Held("cycles", p) => task[p].step = "looping"
  BY DEF Advances
<1>3. WorkTypeOK'
  <2>1. /\ task' = [task EXCEPT ![p] = task'[p]] /\ task'[p] \in Task /\ DOMAIN store' = DOMAIN Empty
        /\ DOMAIN listed' = Process /\ overtaken' \subseteq DOMAIN Empty
    BY <1>1 DEF Advances, Grows
  <2>2. task' \in [Process -> Task]
    BY <2>1 DEF WorkTypeOK
  <2> QED
    BY <2>1, <2>2 DEF WorkTypeOK
<1>4. \A c \in Around("cycles") :
        c.name \in Process /\ (Kept(CycleParts)' => Backs(c.name, c.signals, c.execution, {})')
  BY <1>1, <1>2, CyclesStayBacked
<1>5. CyclesAreSound'
  BY <1>4 DEF CyclesAreSound
<1>6. /\ overtaken \subseteq overtaken' /\ \A q \in Runner \ {p} : task'[q] = task[q]
      /\ Kept({"cycles"})' => store["cycles"] \subseteq store'["cycles"]
  BY <1>1 DEF Grows, Kept
<1>7. ASSUME NEW q \in Runner \ {p}, pc[q] \in {"ready", "working"}
      PROVE  TaskIsSound(q)'
  BY <1>1, <1>7, OthersSound DEF RunnersAreSound
<1>8. ASSUME NEW q \in Runner \ {p}, Kept({"cycles"})', pc[q] = "worked"
      PROVE  \E c \in store'["cycles"] :
               c.name = q /\ (q \in Looping \/ c.execution.status = task'[q].done.status)
  <2>1. Kept({"cycles"})
    BY <1>6, <1>8, KeptBefore
  <2> QED
    BY <1>6, <1>8, <2>1 DEF RunnersAreSound
<1>9. NamesAreUnique'
  BY <1>1, NamesStay
<1> QED
  BY <1>3, <1>5, <1>6, <1>7, <1>8, <1>9

\* A step of the work keeps the promises of its task; the last one leaves a
\* cycle.
LEMMA WorkAdvances ==
  ASSUME MonitoredInv, NEW r \in Runner, Proceeds(r) \/ Stumbles(r) \/ Concludes(r), ~List(r)
  PROVE  /\ Advances(r) /\ UnderWay(r)
         /\ \A c \in Around("cycles")' :
              \/ c \in Around("cycles")
              \/ c.name = r /\ (Kept(CycleParts)' => Backs(c.name, c.signals, c.execution, {})')
         /\ Concludes(r) /\ Kept({"cycles"})' =>
              \E c \in store'["cycles"] :
                c.name = r /\ (r \in Looping \/ c.execution.status = task'[r].done.status)
<1>1. pc[r] = "working"
  BY DEF Proceeds, Stumbles, Concludes, Work
<1>2. UnderWay(r)
  BY <1>1 DEF MonitoredInv, RunnersAreSound, UnderWay
<1>3. CASE Proceeds(r) \/ Stumbles(r)
  <2>1. CASE Collect(r) \/ Diff(r) \/ AddSignal(r) \/ AddEvent(r) \/ AddSnapshot(r, Scanned(task[r]))
    <3>1. Advances(r) /\ Around("cycles")' \subseteq Around("cycles")
      BY <1>2, <2>1, CollectAdvances, DiffAdvances, SignalAdvances, EventAdvances, SnapshotAdvances
    <3>2. ~Concludes(r)
      BY <2>1, Repositories DEF Concludes, Collect, Diff, AddSignal, AddEvent, AddSnapshot, AddCycle, AddLoop, At
    <3> QED
      BY <1>2, <3>1, <3>2
  <2>2. CASE Mark(r) \/ RunWorkflow(r) \/ FailAction(r) \/ CompleteAction(r) \/ AddArtifact(r)
    <3>1. Advances(r) /\ Around("cycles")' \subseteq Around("cycles")
      BY <1>2, <2>2, MarkAdvances, WorkflowAdvances, FailAdvances, CompleteAdvances, ArtifactAdvances
    <3>2. ~Concludes(r)
      BY <2>2 DEF Concludes, Mark, RunWorkflow, FailAction, CompleteAction, AddArtifact, AddCycle, AddLoop, At
    <3> QED
      BY <1>2, <3>1, <3>2
  <2>3. CASE CloseRun(r) \/ Validate(r) \/ Propose(r) \/ Decide(r) \/ Settle(r)
    <3>1. Advances(r) /\ Around("cycles")' \subseteq Around("cycles")
      BY <1>2, <2>3, CloseAdvances, ValidateAdvances, ProposeAdvances, DecideAdvances, SettleAdvances
    <3>2. ~Concludes(r)
      BY <2>3 DEF Concludes, CloseRun, Validate, Propose, Decide, Settle, AddCycle, AddLoop, At
    <3> QED
      BY <1>2, <3>1, <3>2
  <2>4. CASE StepFails(r)
    <3>1. Advances(r) /\ Around("cycles")' \subseteq Around("cycles")
      BY <1>2, <2>4, FailureAdvances
    <3>2. ~Concludes(r)
      <4>1. task[r].step \in ActionSteps \cup {"working"}
        BY <1>2, <2>4, UnderWayFacts DEF StepFails, At, CycleIsOrderly
      <4> QED
        BY <4>1 DEF Concludes, AddCycle, AddLoop, At, ActionSteps
    <3> QED
      BY <1>2, <3>1, <3>2
  <2>5. CASE r \in Looping /\ AddCycle(r)
    BY <1>2, <2>5, CycleEnds
  <2> QED
    BY <1>3, <2>1, <2>2, <2>3, <2>4, <2>5 DEF Proceeds, Stumbles
<1>4. CASE Concludes(r)
  <2>1. CASE r \in Looping
    <3>1. Advances(r) /\ Around("cycles")' \subseteq Around("cycles") /\ (Kept({"cycles"})' => Stored("cycles", r)')
      BY <1>2, <1>4, <2>1, LoopEnds DEF Concludes
    <3>2. Stored("cycles", r)' => \E c \in store'["cycles"] : c.name = r
      BY DEF Stored
    <3> QED
      BY <1>2, <2>1, <3>1, <3>2
  <2>2. CASE r \notin Looping
    <3>1. AddCycle(r)
      BY <1>4, <2>2 DEF Concludes
    <3> QED
      BY <1>2, <3>1, CycleEnds
  <2> QED
    BY <2>1, <2>2
<1> QED
  BY <1>3, <1>4

\* Each step of the work reads for an upsert, makes one, or stores nothing.
LEMMA WorkStores ==
  ASSUME NEW r, Proceeds(r) \/ Stumbles(r) \/ Concludes(r)
  PROVE  \/ List(r)
         \/ \E next : Turns(r, next)
         \/ task[r].step \in Storing /\ \E record, next : Puts(r, record, next)
<1> USE DEF At, Storing
<1>1. CASE Collect(r) \/ Diff(r) \/ Validate(r)
  BY <1>1 DEF Collect, Diff, Validate
<1>2. CASE StepFails(r)
  BY <1>2 DEF StepFails
<1>3. CASE AddSignal(r) \/ AddSnapshot(r, Scanned(task[r]))
  BY <1>3 DEF AddSignal, AddSnapshot
<1>4. CASE AddEvent(r)
  <2>1. task[r].step \in Storing
    BY <1>4 DEF AddEvent
  <2>2. \E record, next : Puts(r, record, next)
    BY <1>4 DEF AddEvent
  <2> QED
    BY <2>1, <2>2
<1>5. CASE Mark(r)
  <2>1. task[r].step \in Storing
    BY <1>5 DEF Mark
  <2>2. \E record, next : Puts(r, record, next)
    BY <1>5 DEF Mark
  <2> QED
    BY <2>1, <2>2
<1>6. CASE RunWorkflow(r)
  <2>1. task[r].step \in Storing
    BY <1>6 DEF RunWorkflow
  <2>2. \E record, next : Puts(r, record, next)
    BY <1>6 DEF RunWorkflow
  <2> QED
    BY <2>1, <2>2
<1>7. CASE FailAction(r) \/ CompleteAction(r) \/ AddArtifact(r) \/ CloseRun(r)
  BY <1>7 DEF FailAction, CompleteAction, AddArtifact, CloseRun
<1>8. CASE Propose(r) \/ Decide(r) \/ Settle(r)
  BY <1>8 DEF Propose, Decide, Settle
<1>9. CASE AddCycle(r) \/ AddLoop(r)
  <2>1. task[r].step \in Storing
    BY <1>9 DEF AddCycle, AddLoop
  <2>2. \E record, next : Puts(r, record, next)
    BY <1>9 DEF AddCycle, AddLoop
  <2> QED
    BY <2>1, <2>2
<1> QED
  BY <1>1, <1>2, <1>3, <1>4, <1>5, <1>6, <1>7, <1>8, <1>9 DEF Proceeds, Stumbles, Concludes

\* While the receipt says "running" only one runner is at work, and what it has
\* listed nobody else changes.
LEMMA KeepsAll ==
  ASSUME MonitoredInv, NEW r \in Runner, pc[r] = "working", receipt' = receipt,
         \A q \in Runner \ {r} : pc'[q] = pc[q],
         \/ \E next : Turns(r, next)
         \/ task[r].step \in Storing /\ \E record, next : Puts(r, record, next)
  PROVE  FirstAttemptKeepsAll' /\ ListsAreSound'
<1> USE DEF MonitoredInv
<1>1. /\ listed'[r] = {}
      /\ \A q \in Runner \ {r} : task'[q] = task[q] /\ listed'[q] = listed[q]
      /\ (\A items \in listed[r] : items = store[RepositoryOf[task[r].step]]) => overtaken' = overtaken
  <2>1. CASE \E next : Turns(r, next)
    BY <2>1 DEF Turns, WorkTypeOK
  <2>2. CASE task[r].step \in Storing /\ \E record, next : Puts(r, record, next)
    <3>1. PICK record, next : Puts(r, record, next)
      BY <2>2
    <3> QED
      BY <2>2, <3>1, PutsEffect
  <2> QED
    BY <2>1, <2>2
<1>2. ASSUME receipt.status \in {"none", "running"}
      PROVE  \A q \in Runner \ {r} : pc[q] # "working"
  BY <1>2 DEF ReceiptInv, AtWork, Executing
<1>3. ASSUME receipt.status \in {"none", "running"}
      PROVE  overtaken' = {}
  <2>1. overtaken = {} /\ \A items \in listed[r] : items = store[RepositoryOf[task[r].step]]
    BY <1>3 DEF FirstAttemptKeepsAll, ListsAreSound
  <2> QED
    BY <1>1, <2>1
<1>4. ASSUME NEW q \in Runner, NEW items \in listed'[q]
      PROVE  /\ pc'[q] = "working" /\ task'[q].step \in DOMAIN RepositoryOf
             /\ receipt'.status \notin {"none", "running"}
  <2>1. q # r /\ items \in listed[q]
    BY <1>1, <1>4
  <2>2. pc[q] = "working" /\ task[q].step \in DOMAIN RepositoryOf
    BY <2>1 DEF ListsAreSound
  <2> QED
    BY <1>1, <1>2, <2>1, <2>2
<1>5. FirstAttemptKeepsAll'
  BY <1>3 DEF FirstAttemptKeepsAll
<1>6. ListsAreSound'
  BY <1>4 DEF ListsAreSound
<1> QED
  BY <1>5, <1>6

LEMMA NewTasks == \A r \in Runner : NewTask(r) \in Task
<1>1. NoFiles \in Files /\ Nothing \in [status : {"completed", "completed_with_errors"},
          runs : SUBSET Action, artifacts : SUBSET Action, proposals : SUBSET Action]
  BY DEF NoFiles, Files, Nothing
<1> QED
  BY <1>1 DEF NewTask, Task, Steps

LEMMA MonitoredStart == MonitoredInit => MonitoredInv
<1> SUFFICES ASSUME MonitoredInit PROVE MonitoredInv
  OBVIOUS
<1>1. ReceiptInv /\ receipt.status = "none"
  BY ReceiptInit DEF MonitoredInit, Init
<1>2. \A r \in Runner : NewTask(r) \in Task
  BY NewTasks
<1>3. /\ store = Empty /\ \A r \in Runner : task[r] = NewTask(r) /\ listed[r] = {}
      /\ task \in [Process -> Task] /\ files \in Files /\ edits \in Nat /\ taken \in Nat
      /\ overtaken = {} /\ DOMAIN listed = Process
  BY <1>2 DEF MonitoredInit, ScanInit, Files
<1>4. \A repository \in DOMAIN Empty : Around(repository) = {}
  <2> SUFFICES ASSUME NEW repository \in DOMAIN Empty PROVE \A item : item \notin Around(repository)
    OBVIOUS
  <2>1. store[repository] = {}
    BY <1>3 DEF Empty
  <2> QED
    BY <1>3, <2>1, AroundMember
<1>5. \A repository \in DOMAIN Empty : \A name : ~Held(repository, name)
  BY <1>4 DEF Held
<1>6. SnapshotsAreSound /\ CyclesAreSound /\ NamesAreUnique
  BY <1>4, Repositories DEF SnapshotsAreSound, CyclesAreSound, NamesAreUnique
<1>7. ASSUME NEW r \in Runner
      PROVE  TaskIsSound(r) /\ pc[r] # "worked"
  <2>1. /\ task[r].step = "collecting" /\ task[r].signals = {} /\ task[r].left = {}
        /\ task[r].action = NoAction /\ task[r].done = Nothing
    BY <1>3 DEF NewTask
  <2>2. ScanIsFresh(r) /\ ScanIsReported(r)
    BY <2>1, <1>5, Repositories DEF ScanIsFresh, ScanIsReported
  <2>3. CycleIsOrderly(r) /\ CycleIsBacked(r)
    BY <2>1, <1>5, Repositories DEF CycleIsOrderly, CycleIsBacked, CycleSteps, ActionSteps
  <2>4. pc[r] # "worked"
    BY DEF MonitoredInit, Init
  <2> QED
    BY <2>1, <2>2, <2>3, <2>4 DEF TaskIsSound
<1>8. WorkTypeOK
  <2>1. {} \subseteq DOMAIN Empty
    OBVIOUS
  <2> QED
    BY <1>3, <2>1 DEF WorkTypeOK
<1>9. FirstAttemptKeepsAll /\ ListsAreSound /\ ReceiptsAreBacked
  BY <1>1, <1>3 DEF FirstAttemptKeepsAll, ListsAreSound, ReceiptsAreBacked, Done
<1> QED
  BY <1>1, <1>6, <1>7, <1>8, <1>9 DEF MonitoredInv, RunnersAreSound

\* Under the receipt the work is one of the steps of OperationReceipts.
LEMMA MonitoredRefines == [MonitoredNext]_<<receiptVars, workVars>> => [Next]_vars
<1> SUFFICES ASSUME [MonitoredNext]_<<receiptVars, workVars>> PROVE [Next]_vars
  OBVIOUS
<1>1. CASE UNCHANGED receiptVars
  BY <1>1 DEF receiptVars, vars
<1>2. ASSUME NEW r \in Runner, Concludes(r) \/ Completes(r) \/ Abandons(r) \/ Handles(r)
      PROVE  Next
  BY <1>2 DEF Concludes, Completes, Abandons, Handles, Next
<1>3. ASSUME NEW r \in Runner, Proceeds(r) \/ Stumbles(r)
      PROVE  UNCHANGED receiptVars
  BY <1>3 DEF Proceeds, Stumbles
<1> QED
  BY <1>1, <1>2, <1>3 DEF MonitoredNext

\* What the moves of the receipt mean for the runners and for the results.
LEMMA ReceiptMoves ==
  ASSUME ReceiptInv, NEW r \in Runner, Handles(r) \/ Abandons(r)
  PROVE  /\ \A s \in Runner \ {r} : pc'[s] = pc[s]
         /\ pc'[r] \in {"ready", "working"} => pc[r] \in {"ready", "working"} /\ Handles(r)
         /\ pc'[r] # "worked"
         /\ Handles(r) => pc[r] # "working"
         /\ receipt'.status \in Done => receipt' = receipt
         /\ receipt'.status \in {"none", "running"} => receipt.status \in {"none", "running"}
<1>1. TypeOK
  BY DEF ReceiptInv
<1>2. Handles(r) => pc[r] # "working"
  BY DEF Handles, Known, Refused, BeginFresh, Conflict, Resume, Replay, Retry, Report, ReportFails,
     RecordFailure
<1> USE DEF Done, Broken, Known
<1>3. CASE Refused(r) \/ Conflict(r) \/ Replay(r) \/ Report(r) \/ ReportFails(r)
  BY <1>1, <1>3, OthersStay DEF Refused, Conflict, Replay, Report, ReportFails
<1>4. CASE Handles(r) /\ (Resume(r) \/ Retry(r))
  BY <1>1, <1>4, OthersStay DEF Resume, Retry
<1>5. CASE Handles(r) /\ BeginFresh(r)
  <2>1. receipt'.status = "running"
    BY <1>5 DEF BeginFresh, Writes
  <2> QED
    BY <1>1, <1>5, <2>1, OthersStay DEF BeginFresh
<1>6. CASE RecordFailure(r)
  <2>1. PICK status \in Broken : receipt' = [status |-> status, input |-> InputOf[r]]
    BY <1>6 DEF RecordFailure, Writes
  <2>2. receipt'.status \notin Done \cup {"none", "running"}
    BY <2>1
  <2> QED
    BY <1>1, <1>6, <2>2, OthersStay DEF RecordFailure
<1>7. CASE WorkFails(r) \/ CompleteFails(r) \/ Stops(r)
  BY <1>1, <1>2, <1>7, OthersStay DEF WorkFails, CompleteFails, Stops
<1> QED
  BY <1>2, <1>3, <1>4, <1>5, <1>6, <1>7 DEF Handles, Abandons

\* The store keeps what the receipts stand for.
LEMMA ReceiptsStayBacked ==
  ASSUME ReceiptsAreBacked, overtaken \subseteq overtaken',
         Kept({"cycles"})' => store["cycles"] \subseteq store'["cycles"],
         receipt'.status \in Done => receipt' = receipt
  PROVE  ReceiptsAreBacked'
<1>1. Kept({"cycles"})' => Kept({"cycles"})
  BY KeptBefore
<1> QED
  BY <1>1 DEF ReceiptsAreBacked

LEMMA MonitoredStep ==
  MonitoredInv /\ [MonitoredNext]_<<receiptVars, workVars>> => MonitoredInv'
<1> SUFFICES ASSUME MonitoredInv, [MonitoredNext]_<<receiptVars, workVars>> PROVE MonitoredInv'
  OBVIOUS
<1>1. ReceiptInv'
  BY MonitoredRefines, ReceiptStep DEF MonitoredInv
<1>2. /\ TypeOK /\ ReceiptInv /\ WorkTypeOK /\ FirstAttemptKeepsAll /\ ListsAreSound
      /\ RunnersAreSound /\ SnapshotsAreSound /\ CyclesAreSound /\ NamesAreUnique
      /\ ReceiptsAreBacked
  BY DEF MonitoredInv, ReceiptInv
<1>3. CASE UNCHANGED <<receiptVars, workVars>> \/ (Edit /\ UNCHANGED <<receiptVars, faults>>)
  <2>1. /\ UNCHANGED <<store, task, listed, overtaken, taken>> /\ files' \in Files /\ edits' \in Nat
        /\ pc' = pc /\ receipt' = receipt
    <3>1. CASE UNCHANGED <<receiptVars, workVars>>
      BY <1>2, <3>1 DEF workVars, workspaceVars, receiptVars, WorkTypeOK
    <3>2. CASE Edit /\ UNCHANGED <<receiptVars, faults>>
      BY <1>2, <3>2 DEF Edit, WorkTypeOK, Files, workspaceVars, receiptVars
    <3> QED
      BY <1>3, <3>1, <3>2
  <2>2. WorkTypeOK'
    BY <1>2, <2>1 DEF WorkTypeOK
  <2>3. \A repository : Around(repository)' \subseteq Around(repository)
    <3>1. CASE Runner = {}
      <4>1. \A repository : Around(repository)' = store[repository]
        BY <2>1, <3>1 DEF Around
      <4> QED
        BY <4>1 DEF Around
    <3>2. ASSUME NEW r \in Runner
          PROVE  \A repository : Around(repository)' \subseteq Around(repository)
      BY <1>2, <2>1, <3>2, LessAround
    <3> QED
      BY <3>1, <3>2
  <2>4. /\ SnapshotsAreSound' /\ CyclesAreSound' /\ NamesAreUnique'
        /\ \A q : TaskIsSound(q) => TaskIsSound(q)'
    BY <1>2, <2>1, <2>3, SameSound
  <2>5. RunnersAreSound'
    BY <1>2, <2>1, <2>4 DEF RunnersAreSound, Kept
  <2>6. ReceiptsAreBacked'
    BY <1>2, <2>1, ReceiptsStayBacked
  <2>7. FirstAttemptKeepsAll' /\ ListsAreSound'
    BY <1>2, <2>1 DEF FirstAttemptKeepsAll, ListsAreSound
  <2> QED
    BY <1>1, <2>2, <2>4, <2>5, <2>6, <2>7 DEF MonitoredInv
<1>4. ASSUME NEW r \in Runner, Proceeds(r) \/ Stumbles(r) \/ Concludes(r)
      PROVE  MonitoredInv'
  <2>1. /\ pc[r] = "working" /\ receipt' = receipt /\ \A q \in Runner \ {r} : pc'[q] = pc[q]
        /\ Concludes(r) => pc'[r] = "worked"
        /\ ~Concludes(r) => pc' = pc
    BY <1>2, <1>4, OthersStay DEF Proceeds, Stumbles, Concludes, Work, receiptVars
  <2>2. files' = files /\ edits' = edits /\ taken' \in Nat
    <3>1. taken \in Nat
      BY <1>2 DEF WorkTypeOK
    <3>2. Collect(r) => UNCHANGED scanVars
      BY DEF Collect
    <3>3. Diff(r) => files' = files /\ edits' = edits /\ taken' \in {taken, taken + 1}
      BY DEF Diff
    <3>4. AddEvent(r) => files' = files /\ edits' = edits /\ taken' \in {taken, taken + 1}
      BY DEF AddEvent
    <3>5. AddSignal(r) \/ AddSnapshot(r, Scanned(task[r])) => UNCHANGED scanVars
      BY DEF AddSignal, AddSnapshot
    <3> QED
      BY <1>4, <3>1, <3>2, <3>3, <3>4, <3>5 DEF Proceeds, Stumbles, Concludes, scanVars
  <2>3. CASE List(r)
    <3>1. /\ store' = store /\ task' = task /\ overtaken' = overtaken
          /\ DOMAIN listed' = Process /\ listed'[r] = {store[RepositoryOf[task[r].step]]}
          /\ \A q \in Runner \ {r} : listed'[q] = listed[q]
          /\ task[r].step \in DOMAIN RepositoryOf
      BY <1>2, <2>3 DEF List, WorkTypeOK
    <3>2. WorkTypeOK'
      BY <1>2, <2>2, <3>1 DEF WorkTypeOK
    <3>3. /\ SnapshotsAreSound' /\ CyclesAreSound' /\ NamesAreUnique'
          /\ \A q : TaskIsSound(q) => TaskIsSound(q)'
      BY <1>2, <2>3, <3>1, LessAround, SameSound
    <3>4. pc' = pc
      <4>1. ~Concludes(r)
        BY <2>3, <3>1 DEF Concludes, AddCycle, AddLoop, Puts, List
      <4> QED
        BY <2>1, <4>1
    <3>5. RunnersAreSound'
      BY <1>2, <3>1, <3>3, <3>4 DEF RunnersAreSound, Kept
    <3>6. ReceiptsAreBacked'
      BY <1>2, <2>1, <3>1, ReceiptsStayBacked
    <3>7. FirstAttemptKeepsAll'
      BY <1>2, <2>1, <3>1 DEF FirstAttemptKeepsAll
    <3>8. ListsAreSound'
      BY <1>2, <2>1, <3>1, <3>4 DEF ListsAreSound
    <3> QED
      BY <1>1, <3>2, <3>3, <3>5, <3>6, <3>7, <3>8 DEF MonitoredInv
  <2>4. CASE ~List(r)
    <3>1. /\ Advances(r) /\ UnderWay(r)
          /\ \A c \in Around("cycles")' :
               \/ c \in Around("cycles")
               \/ c.name = r /\ (Kept(CycleParts)' => Backs(c.name, c.signals, c.execution, {})')
          /\ Concludes(r) /\ Kept({"cycles"})' =>
               \E c \in store'["cycles"] :
                 c.name = r /\ (r \in Looping \/ c.execution.status = task'[r].done.status)
      BY <1>4, <2>4, WorkAdvances
    <3>2. /\ WorkTypeOK' /\ CyclesAreSound' /\ NamesAreUnique'
          /\ overtaken \subseteq overtaken'
          /\ Kept({"cycles"})' => store["cycles"] \subseteq store'["cycles"]
          /\ \A q \in Runner \ {r} :
               /\ pc[q] \in {"ready", "working"} => TaskIsSound(q)'
               /\ Kept({"cycles"})' /\ pc[q] = "worked" =>
                    \E c \in store'["cycles"] :
                      c.name = q /\ (q \in Looping \/ c.execution.status = task'[q].done.status)
      <4>1. files' \in Files /\ edits' \in Nat /\ taken' \in Nat
        BY <1>2, <2>2 DEF WorkTypeOK
      <4> QED
        BY <1>2, <3>1, <4>1, OthersKept
    <3>3. TaskIsSound(r)' /\ SnapshotsAreSound'
      BY <3>1 DEF Advances
    <3>4. RunnersAreSound'
      BY <2>1, <3>1, <3>2, <3>3 DEF RunnersAreSound
    <3>5. ReceiptsAreBacked'
      BY <1>2, <2>1, <3>2, ReceiptsStayBacked
    <3>6. FirstAttemptKeepsAll' /\ ListsAreSound'
      BY <1>4, <2>1, <2>4, WorkStores, KeepsAll
    <3> QED
      BY <1>1, <3>2, <3>3, <3>4, <3>5, <3>6 DEF MonitoredInv
  <2> QED
    BY <2>3, <2>4
<1>5. ASSUME NEW r \in Runner, Completes(r) \/ Abandons(r) \/ Handles(r)
      PROVE  MonitoredInv'
  <2>1. /\ store' = store /\ overtaken' = overtaken
        /\ files' = files /\ edits' = edits /\ taken' = taken
        /\ \/ Handles(r) /\ UNCHANGED <<task, listed>>
           \/ (Completes(r) \/ Abandons(r)) /\ Turns(r, NewTask(r))
    BY <1>5 DEF Completes, Abandons, Handles, Leaves, Turns, scanVars, workVars, workspaceVars
  <2>2. /\ task' = task \/ task' = [task EXCEPT ![r] = NewTask(r)]
        /\ DOMAIN listed' = Process
        /\ \A q \in Runner \ {r} : task'[q] = task[q] /\ listed'[q] = listed[q]
        /\ Handles(r) \/ listed'[r] = {}
    BY <1>2, <2>1 DEF Turns, WorkTypeOK
  <2>3. WorkTypeOK'
    BY <1>2, <2>1, <2>2, NewTasks DEF WorkTypeOK
  <2>4. /\ SnapshotsAreSound' /\ CyclesAreSound' /\ NamesAreUnique'
        /\ \A q : task'[q] = task[q] /\ TaskIsSound(q) => TaskIsSound(q)'
    BY <1>2, <2>1, LessAround, SameSound
  <2>5. Kept({"cycles"})' <=> Kept({"cycles"})
    BY <2>1 DEF Kept
  <2>6. CASE Completes(r)
    <3>1. /\ pc[r] = "worked" /\ pc'[r] = "reporting" /\ \A q \in Runner \ {r} : pc'[q] = pc[q]
          /\ receipt'.input = InputOf[r] /\ receipt'.status = CommandStatus(r)
          /\ receipt'.status \in Done
      BY <1>2, <2>6, OthersStay DEF Completes, Complete, Writes
    <3>2. RunnersAreSound'
      BY <1>2, <2>1, <2>2, <2>4, <2>5, <3>1 DEF RunnersAreSound
    <3>3. ReceiptsAreBacked'
      <4> SUFFICES ASSUME Kept({"cycles"}) PROVE ReceiptsAreBacked'
        BY <2>5 DEF ReceiptsAreBacked
      <4>1. PICK c \in store["cycles"] :
              c.name = r /\ (r \in Looping \/ c.execution.status = task[r].done.status)
        BY <1>2, <3>1 DEF RunnersAreSound
      <4>2. task[r].done.status \in {"completed", "completed_with_errors"}
        BY <1>2 DEF WorkTypeOK, Task
      <4> QED
        BY <2>1, <3>1, <4>1, <4>2 DEF ReceiptsAreBacked, CommandStatus
    <3>4. ListsAreSound' /\ FirstAttemptKeepsAll'
      <4>1. receipt'.status \notin {"none", "running"}
        BY <3>1 DEF Done
      <4>2. ASSUME NEW q \in Runner, NEW items \in listed'[q]
            PROVE  pc'[q] = "working" /\ task'[q].step \in DOMAIN RepositoryOf
        <5>1. q # r
          BY <2>1, <4>2, <1>2, <2>6 DEF Turns, WorkTypeOK, Completes, Leaves
        <5> QED
          BY <1>2, <2>2, <3>1, <4>2, <5>1 DEF ListsAreSound
      <4> QED
        BY <4>1, <4>2 DEF ListsAreSound, FirstAttemptKeepsAll
    <3> QED
      BY <1>1, <2>3, <2>4, <3>2, <3>3, <3>4 DEF MonitoredInv
  <2>7. CASE Abandons(r) \/ Handles(r)
    <3>1. /\ \A s \in Runner \ {r} : pc'[s] = pc[s]
          /\ pc'[r] \in {"ready", "working"} => pc[r] \in {"ready", "working"} /\ Handles(r)
          /\ pc'[r] # "worked"
          /\ Handles(r) => pc[r] # "working"
          /\ receipt'.status \in Done => receipt' = receipt
          /\ receipt'.status \in {"none", "running"} => receipt.status \in {"none", "running"}
      BY <1>2, <2>7, ReceiptMoves
    <3>2. Handles(r) => task' = task /\ listed' = listed
      BY DEF Handles, workVars, workspaceVars
    <3>3. RunnersAreSound'
      BY <1>2, <2>1, <2>2, <2>4, <2>5, <3>1, <3>2 DEF RunnersAreSound
    <3>4. ReceiptsAreBacked'
      BY <1>2, <2>1, <3>1, ReceiptsStayBacked
    <3>5. FirstAttemptKeepsAll'
      BY <1>2, <2>1, <3>1 DEF FirstAttemptKeepsAll
    <3>6. ListsAreSound'
      <4>1. ASSUME NEW q \in Runner, NEW items \in listed'[q]
            PROVE  q # r /\ items \in listed[q] /\ pc[q] = "working"
        <5>1. q # r
          BY <1>2, <2>2, <3>1, <3>2, <4>1 DEF ListsAreSound
        <5> QED
          BY <1>2, <2>2, <4>1, <5>1 DEF ListsAreSound
      <4> QED
        BY <1>2, <2>1, <2>2, <3>1, <4>1 DEF ListsAreSound
    <3> QED
      BY <1>1, <2>3, <2>4, <3>3, <3>4, <3>5, <3>6 DEF MonitoredInv
  <2> QED
    BY <1>5, <2>6, <2>7
<1> QED
  BY <1>3, <1>4, <1>5 DEF MonitoredNext

\* The scans, the cycles, the receipt, the repositories and the lists that
\* upserts hold agree, for any directory, plan and number of invocations.
THEOREM MonitoredKept == MonitoredSpec => []MonitoredInv
BY MonitoredStart, MonitoredStep, PTL DEF MonitoredSpec

\* The streamed command, work and all, is an operation with a receipt.
THEOREM CommandKeepsReceipts == MonitoredSpec => Spec
<1>1. MonitoredInit => Init
  BY DEF MonitoredInit
<1> QED
  BY <1>1, MonitoredRefines, PTL DEF MonitoredSpec, Spec

\* Until a failure or a result is on record no upsert undoes another one,
\* wherever runners stop and others take over.
THEOREM FirstAttemptKeeps == MonitoredSpec => []FirstAttemptKeepsAll
<1>1. MonitoredInv => FirstAttemptKeepsAll
  BY DEF MonitoredInv
<1> QED
  BY <1>1, MonitoredKept, PTL

\* Unless upserts of signals or events undo one another, no edit, stopped scan
\* or overlapping scan hides a change from the scans to come, lost snapshots or
\* not.
THEOREM ChangesAreReported == MonitoredSpec => []NoChangeIsHidden
<1>1. MonitoredInv => NoChangeIsHidden
  <2>1. \A s \in store["snapshots"] : s \in Around("snapshots")
    BY AroundMember
  <2> QED
    BY <2>1 DEF MonitoredInv, SnapshotsAreSound, NoChangeIsHidden
<1> QED
  BY <1>1, MonitoredKept, PTL

\* Unless upserts of what it reports undo one another, a cycle on record
\* reports what is in the workspace, wherever actions fail and processes stop.
THEOREM CyclesBacked == MonitoredSpec => []CyclesAreBacked
<1>1. MonitoredInv => CyclesAreBacked
  <2>1. \A c \in store["cycles"] : c \in Around("cycles")
    BY AroundMember
  <2> QED
    BY <2>1 DEF MonitoredInv, CyclesAreSound, CyclesAreBacked
<1> QED
  BY <1>1, MonitoredKept, PTL

\* Unless upserts of cycles undo one another, a receipt with a result has a
\* cycle behind it, of the same input and outcome.
THEOREM ReceiptsBacked == MonitoredSpec => []ReceiptsAreBacked
<1>1. MonitoredInv => ReceiptsAreBacked
  BY DEF MonitoredInv
<1> QED
  BY <1>1, MonitoredKept, PTL

-----------------------------------------------------------------------------
(* What the command implements                                             *)

\* The changes that are reported.
Changes == {change \in Path \X Content : IsReported(change[1], change[2])}

LEMMA LostParts ==
  /\ Lost \subseteq {"reports", "snapshots", "cycles"}
  /\ "reports" \in Lost <=> ~Kept(ScanParts)
  /\ "snapshots" \in Lost <=> "snapshots" \in overtaken
  /\ "cycles" \in Lost <=> "cycles" \in overtaken
  /\ overtaken' = overtaken => Lost' = Lost
BY DEF Lost, Kept

\* A step that stores neither a snapshot nor a cycle.
LEMMA ReportsGrow ==
  ASSUME MonitoredInv, FirstAttemptKeepsAll', NEW p \in Runner, NEW x, Grows(p, x),
         receipt' = receipt, task[p].step \notin {"snapshotting", "recording"}
  PROVE  Trail!Next
<1>1. /\ store'["snapshots"] = store["snapshots"] /\ store'["cycles"] = store["cycles"]
      /\ "snapshots" \in overtaken' => "snapshots" \in overtaken
      /\ "cycles" \in overtaken' => "cycles" \in overtaken
      /\ overtaken \subseteq overtaken'
  BY DEF Grows
<1>2. Kept(ScanParts)' => Kept(ScanParts)
  BY <1>1, KeptBefore
<1>3. /\ Lost' \subseteq {"reports", "snapshots", "cycles"}
      /\ "reports" \in Lost' <=> ~Kept(ScanParts)'
      /\ "snapshots" \in Lost' <=> "snapshots" \in overtaken'
      /\ "cycles" \in Lost' <=> "cycles" \in overtaken'
  BY DEF Lost, Kept
<1>4. CASE Kept(ScanParts)'
  <2>1. \A f, content : IsReported(f, content) => IsReported(f, content)'
    BY <1>4 DEF Grows
  <2>2. Lost' = Lost
    <3>1. /\ "reports" \in Lost' <=> "reports" \in Lost
          /\ "snapshots" \in Lost' <=> "snapshots" \in Lost
          /\ "cycles" \in Lost' <=> "cycles" \in Lost
      BY <1>1, <1>2, <1>3, <1>4, LostParts
    <3> QED
      BY <3>1, <1>3, LostParts
  <2>3. Trail!Report
    BY <1>1, <2>1, <2>2 DEF Trail!Report
  <2> QED
    BY <2>3 DEF Trail!Next
<1>5. CASE ~Kept(ScanParts)'
  <2>1. Lost' = Lost \cup {"reports"}
    <3>1. /\ "reports" \in Lost'
          /\ "snapshots" \in Lost' <=> "snapshots" \in Lost
          /\ "cycles" \in Lost' <=> "cycles" \in Lost
      BY <1>1, <1>3, <1>5, LostParts
    <3> QED
      BY <3>1, <1>3, LostParts
  <2>2. receipt.status \notin {"none", "running"}
    BY <1>5 DEF FirstAttemptKeepsAll, Kept
  <2>3. Trail!Overlap("reports")
    BY <1>1, <2>1, <2>2 DEF Trail!Overlap
  <2> QED
    BY <2>3 DEF Trail!Next
<1> QED
  BY <1>4, <1>5

LEMMA SnapshotPublishes ==
  ASSUME MonitoredInv, FirstAttemptKeepsAll', NEW p \in Runner, UnderWay(p), Advances(p),
         AddSnapshot(p, Scanned(task[p])), receipt' = receipt
  PROVE  Trail!Next
<1> DEFINE s == MadeSnapshot(p)
<1>1. Puts(p, s, Scanned(task[p])) /\ task[p].step = "snapshotting" /\ task[p].step \in Storing
  BY DEF AddSnapshot, At, Storing
<1>2. /\ Kept(ScanParts) =>
           \A f \in Path : task[p].seen[f] # Gone => IsReported(f, task[p].seen[f])
      /\ ~Held("snapshots", p) /\ task[p] \in Task /\ WorkTypeOK /\ task[p].seen \in Files
  BY <1>1, UnderWayFacts DEF UnderWay, ScanIsFresh, ScanIsReported, Task
<1>3. s.name = p /\ s.files = task[p].seen
  BY DEF MadeSnapshot
<1> HIDE DEF s
<1>4. /\ "snapshots" \notin overtaken' => store'["snapshots"] = Upserted(store["snapshots"], s)
      /\ store'["events"] = store["events"] /\ store'["signals"] = store["signals"]
      /\ store'["cycles"] = store["cycles"]
      /\ overtaken \subseteq overtaken' /\ overtaken' \subseteq overtaken \cup {"snapshots"}
  BY <1>1, <1>2, PutsEffect, Repositories
<1>5. Changes' = Changes
  BY <1>4 DEF Changes, IsReported
<1>6. \A f \in Path, c \in Content : IsReported(f, c) => <<f, c>> \in Changes
  BY DEF Changes
<1>7. Kept(ScanParts)' <=> Kept(ScanParts)
  BY <1>4 DEF Kept, ScanParts
<1>8. CASE "snapshots" \notin overtaken'
  <2>1. \A other \in store["snapshots"] : other.name # s.name
    <3>1. \A other \in store["snapshots"] : other \in Around("snapshots")
      BY AroundMember
    <3> QED
      BY <1>2, <1>3, <3>1 DEF Held
  <2>2. store'["snapshots"] = store["snapshots"] \cup {s}
    BY <1>4, <1>8, <2>1 DEF Upserted
  <2>3. Lost' = Lost
    <3>1. overtaken' = overtaken
      BY <1>4, <1>8
    <3> QED
      BY <3>1, LostParts
  <2>4. Trail!IsShown(s)
    <3>1. \A f \in Path : task[p].seen[f] \in Content
      BY <1>2 DEF Files
    <3> QED
      BY <1>2, <1>3, <1>6, <3>1, LostParts DEF Trail!IsShown, Changes
  <2>5. Trail!Publish(s)
    BY <1>4, <1>5, <2>1, <2>2, <2>3, <2>4 DEF Trail!Publish, Changes
  <2> QED
    BY <2>2, <2>5 DEF Trail!Next
<1>9. CASE "snapshots" \in overtaken'
  <2>1. receipt.status \notin {"none", "running"}
    BY <1>9 DEF FirstAttemptKeepsAll
  <2>2. Lost' = Lost \cup {"snapshots"}
    <3>1. /\ Lost' \subseteq {"reports", "snapshots", "cycles"}
          /\ "reports" \in Lost' <=> ~Kept(ScanParts)'
          /\ "snapshots" \in Lost' <=> "snapshots" \in overtaken'
          /\ "cycles" \in Lost' <=> "cycles" \in overtaken'
      BY DEF Lost, Kept
    <3> QED
      BY <1>4, <1>7, <1>9, <3>1, LostParts
  <2>3. Trail!Scrambles(store["snapshots"], store'["snapshots"])
    <3>1. PICK x : Grows(p, x)
      BY DEF Advances
    <3>2. \A old \in Around("snapshots"), record \in Around("snapshots")' :
            old.name = record.name => old = record
      BY <3>1, NamesStay DEF MonitoredInv
    <3>3. \A old \in store["snapshots"] : old \in Around("snapshots")
      BY AroundMember
    <3>4. \A record \in store'["snapshots"] : record \in Around("snapshots")'
      BY DEF Around
    <3> QED
      BY <3>2, <3>3, <3>4 DEF Trail!Scrambles
  <2>4. \A record \in store'["snapshots"] : Trail!IsShown(record)
    <3> SUFFICES ASSUME NEW record \in store'["snapshots"], Kept(ScanParts), NEW f \in Path,
                        record.files[f] # Gone
                 PROVE  <<f, record.files[f]>> \in Changes
      BY LostParts DEF Trail!IsShown, Changes
    <3>1. record \in Around("snapshots")'
      BY DEF Around
    <3>2. record.files \in Files /\ IsReported(f, record.files[f])'
      BY <1>7, <3>1 DEF Advances, SnapshotsAreSound
    <3>3. record.files[f] \in Content
      BY <3>2 DEF Files
    <3>4. <<f, record.files[f]>> \in Changes'
      BY <3>2, <3>3 DEF Changes
    <3> QED
      BY <1>5, <3>4
  <2>5. Trail!Overlap("snapshots")
    BY <1>4, <1>5, <2>1, <2>2, <2>3, <2>4 DEF Trail!Overlap, Changes
  <2> QED
    BY <2>5 DEF Trail!Next
<1> QED
  BY <1>8, <1>9

LEMMA CycleConcludes ==
  ASSUME MonitoredInv, FirstAttemptKeepsAll', NEW p \in Runner, UnderWay(p), Advances(p),
         AddCycle(p), receipt' = receipt
  PROVE  Trail!Next
<1> DEFINE c == [name |-> p, signals |-> task[p].signals, execution |-> task[p].done]
           next == IF p \in Looping THEN [task[p] EXCEPT !.step = "looping"] ELSE Finished(task[p])
<1>1. Puts(p, c, next) /\ task[p].step = "recording" /\ task[p].step \in Storing /\ WorkTypeOK
  BY DEF AddCycle, At, Storing, UnderWay
<1>2. ~Held("cycles", p)
  BY <1>1, UnderWayFacts DEF CycleIsOrderly
<1>3. c.name = p
  OBVIOUS
<1> HIDE DEF c, next
<1>4. /\ "cycles" \notin overtaken' => store'["cycles"] = Upserted(store["cycles"], c)
      /\ store'["events"] = store["events"] /\ store'["signals"] = store["signals"]
      /\ store'["snapshots"] = store["snapshots"]
      /\ overtaken \subseteq overtaken' /\ overtaken' \subseteq overtaken \cup {"cycles"}
  BY <1>1, PutsEffect, Repositories
<1>5. Changes' = Changes
  BY <1>4 DEF Changes, IsReported
<1>6. CASE "cycles" \notin overtaken'
  <2>1. \A other \in store["cycles"] : other.name # c.name
    <3>1. \A other \in store["cycles"] : other \in Around("cycles")
      BY AroundMember
    <3> QED
      BY <1>2, <1>3, <3>1 DEF Held
  <2>2. store'["cycles"] = store["cycles"] \cup {c}
    BY <1>4, <1>6, <2>1 DEF Upserted
  <2>3. Lost' = Lost
    <3>1. overtaken' = overtaken
      BY <1>4, <1>6
    <3> QED
      BY <3>1, LostParts
  <2>4. Trail!Conclude(c)
    BY <1>4, <1>5, <2>1, <2>2, <2>3 DEF Trail!Conclude, Changes
  <2> QED
    BY <2>2, <2>4 DEF Trail!Next
<1>7. CASE "cycles" \in overtaken'
  <2>1. receipt.status \notin {"none", "running"}
    BY <1>7 DEF FirstAttemptKeepsAll
  <2>2. Lost' = Lost \cup {"cycles"}
    <3>1. Kept(ScanParts)' <=> Kept(ScanParts)
      BY <1>4 DEF Kept, ScanParts
    <3>2. /\ Lost' \subseteq {"reports", "snapshots", "cycles"}
          /\ "reports" \in Lost' <=> ~Kept(ScanParts)'
          /\ "snapshots" \in Lost' <=> "snapshots" \in overtaken'
          /\ "cycles" \in Lost' <=> "cycles" \in overtaken'
      BY DEF Lost, Kept
    <3> QED
      BY <1>4, <1>7, <3>1, <3>2, LostParts
  <2>3. Trail!Scrambles(store["cycles"], store'["cycles"])
    <3>1. PICK x : Grows(p, x)
      BY DEF Advances
    <3>2. \A old \in Around("cycles"), record \in Around("cycles")' :
            old.name = record.name => old = record
      BY <3>1, NamesStay DEF MonitoredInv
    <3>3. \A old \in store["cycles"] : old \in Around("cycles")
      BY AroundMember
    <3>4. \A record \in store'["cycles"] : record \in Around("cycles")'
      BY DEF Around
    <3> QED
      BY <3>2, <3>3, <3>4 DEF Trail!Scrambles
  <2>4. Trail!Overlap("cycles")
    BY <1>4, <1>5, <2>1, <2>2, <2>3 DEF Trail!Overlap, Changes
  <2> QED
    BY <2>4 DEF Trail!Next
<1> QED
  BY <1>6, <1>7

LEMMA TrailStep ==
  MonitoredInv /\ MonitoredInv' /\ [MonitoredNext]_<<receiptVars, workVars>>
    => [Trail!Next]_(Trail!trailVars)
<1> SUFFICES ASSUME MonitoredInv, MonitoredInv', [MonitoredNext]_<<receiptVars, workVars>>
             PROVE  [Trail!Next]_(Trail!trailVars)
  OBVIOUS
<1>1. ASSUME store' = store, receipt' = receipt, overtaken' = overtaken
      PROVE  UNCHANGED Trail!trailVars
  <2>1. Changes' = Changes
    BY <1>1 DEF Changes, IsReported
  <2>2. Lost' = Lost
    BY <1>1, LostParts
  <2> QED
    BY <1>1, <2>1, <2>2 DEF Trail!trailVars, Changes
<1>2. CASE UNCHANGED <<receiptVars, workVars>> \/ (Edit /\ UNCHANGED <<receiptVars, faults>>)
  BY <1>1, <1>2 DEF receiptVars, workVars, workspaceVars, Edit
<1>3. ASSUME NEW r \in Runner, Proceeds(r) \/ Stumbles(r) \/ Concludes(r)
      PROVE  [Trail!Next]_(Trail!trailVars)
  <2>1. receipt' = receipt
    BY <1>3 DEF Proceeds, Stumbles, Concludes, Work, receiptVars
  <2>2. CASE List(r)
    BY <1>1, <2>1, <2>2 DEF List
  <2>3. CASE ~List(r)
    <3>1. Advances(r) /\ UnderWay(r)
      BY <1>3, <2>3, WorkAdvances
    <3>2. FirstAttemptKeepsAll'
      BY DEF MonitoredInv
    <3>3. CASE AddSnapshot(r, Scanned(task[r]))
      BY <2>1, <3>1, <3>2, <3>3, SnapshotPublishes
    <3>4. CASE AddCycle(r)
      BY <2>1, <3>1, <3>2, <3>4, CycleConcludes
    <3>5. CASE task[r].step \notin {"snapshotting", "recording"}
      <4>1. PICK x : Grows(r, x)
        BY <3>1 DEF Advances
      <4> QED
        BY <2>1, <3>2, <3>5, <4>1, ReportsGrow
    <3>6. CASE StepFails(r)
      BY <1>1, <2>1, <3>6 DEF StepFails, Turns
    <3>7. AddSnapshot(r, Scanned(task[r])) \/ AddCycle(r) \/ StepFails(r)
            \/ task[r].step \notin {"snapshotting", "recording"}
      BY <1>3, <2>3 DEF Proceeds, Stumbles, Concludes, At, Collect, Diff, AddSignal, AddEvent, Mark,
         RunWorkflow, FailAction, CompleteAction, AddArtifact, CloseRun, Validate, Propose, Decide,
         Settle, AddLoop
    <3> QED
      BY <3>3, <3>4, <3>5, <3>6, <3>7
  <2> QED
    BY <2>2, <2>3
<1>4. ASSUME NEW r \in Runner, Completes(r) \/ Abandons(r) \/ Handles(r)
      PROVE  [Trail!Next]_(Trail!trailVars)
  <2>1. store' = store /\ overtaken' = overtaken
    BY <1>4 DEF Completes, Abandons, Handles, Leaves, Turns, workVars, workspaceVars
  <2>2. Changes' = Changes /\ Lost' = Lost
    BY <2>1, LostParts DEF Changes, IsReported
  <2>3. CASE receipt'.status \notin Done
    <3>1. Trail!Answer
      BY <2>1, <2>2, <2>3 DEF Trail!Answer, Done, Changes
    <3> QED
      BY <3>1 DEF Trail!Next
  <2>4. CASE Completes(r)
    <3>1. /\ pc[r] = "worked" /\ receipt'.input = InputOf[r] /\ receipt'.status = CommandStatus(r)
      BY <2>4 DEF Completes, Complete, Writes
    <3>2. \/ "cycles" \in Lost
          \/ \E c \in store["cycles"] :
               /\ InputOf[c.name] = receipt'.input
               /\ receipt'.status = IF c.name \in Looping THEN "succeeded" ELSE Trail!Outcome(c)
      <4>1. CASE Kept({"cycles"})
        <5>1. PICK c \in store["cycles"] :
                c.name = r /\ (r \in Looping \/ c.execution.status = task[r].done.status)
          BY <3>1, <4>1 DEF MonitoredInv, RunnersAreSound
        <5>2. receipt'.status = IF c.name \in Looping THEN "succeeded" ELSE Trail!Outcome(c)
          BY <3>1, <5>1 DEF CommandStatus, Trail!Outcome
        <5> QED
          BY <3>1, <5>1, <5>2
      <4>2. CASE ~Kept({"cycles"})
        BY <4>2, LostParts DEF Kept
      <4> QED
        BY <4>1, <4>2
    <3>3. Trail!Answer
      BY <2>1, <2>2, <3>2 DEF Trail!Answer, Changes
    <3> QED
      BY <3>3 DEF Trail!Next
  <2>5. CASE (Abandons(r) \/ Handles(r)) /\ receipt'.status \in Done
    <3>1. receipt' = receipt
      BY <2>5, ReceiptMoves DEF MonitoredInv
    <3> QED
      BY <1>1, <2>1, <3>1
  <2> QED
    BY <1>4, <2>3, <2>4, <2>5
<1> QED
  BY <1>2, <1>3, <1>4 DEF MonitoredNext

\* The streamed command, with its retries, stops, edits and overlapping scans,
\* implements an audit trail that is only ever appended to, but for what
\* upserts take from one another once a failure or a result is on record: each
\* from its own part, no record ever in two forms.
\* (scan:16-32, run_mape_cycle:17-82, _execute_runtime_command:405-423, upsert:29-40.)
THEOREM CommandLeavesTrail == MonitoredSpec => ImplementsAuditTrail
<1>1. ASSUME MonitoredInit PROVE Trail!Init
  <2>1. store["snapshots"] = {} /\ store["cycles"] = {} /\ store["events"] = {}
    BY <1>1, Repositories DEF MonitoredInit, Empty
  <2>2. {change \in Path \X Content : IsReported(change[1], change[2])} = {}
    BY <2>1 DEF IsReported
  <2>3. receipt \in [status : {"none"}, input : Input]
    BY <1>1 DEF MonitoredInit, Init
  <2>4. Lost = {}
    BY <1>1 DEF MonitoredInit, Lost, Kept
  <2> QED
    BY <2>1, <2>2, <2>3, <2>4 DEF Trail!Init
<1> QED
  BY <1>1, TrailStep, MonitoredKept, PTL DEF MonitoredSpec, ImplementsAuditTrail, Trail!Spec
=============================================================================
