------------------------------- MODULE Workspace -------------------------------
(***************************************************************************)
(* The repositories of a workspace (storage/json_store.py, JsonRepository) *)
(* and the processes that use them.  A record has the name it was stored   *)
(* under; new records have new names.                                      *)
(*                                                                         *)
(* What a process does is its task: a step, and whatever the modules that  *)
(* extend this one keep in it.                                             *)
(*                                                                         *)
(* An upsert reads all the records of its repository and later replaces    *)
(* them all, without a lock.                                               *)
(***************************************************************************)
EXTENDS Naturals, FiniteSets

CONSTANT Process

VARIABLES
  store,       \* the repositories
  task,        \* what each process is doing
  listed,      \* the records that the upsert of each process has read: none or one set of them
  overtaken    \* history: the repositories replaced although they had changed since they were read

workspaceVars == <<store, task, listed, overtaken>>

\* The repository of each upsert, by the step that makes it.
RepositoryOf ==
  [signalling |-> "signals", noting |-> "events", snapshotting |-> "snapshots",
   marking |-> "signals", working |-> "workflows", acting |-> "runs",
   producing |-> "artifacts", closing |-> "runs", proposing |-> "proposals",
   screening |-> "decisions", settling |-> "proposals", recording |-> "cycles",
   looping |-> "loops"]

Empty == [repository \in {RepositoryOf[step] : step \in DOMAIN RepositoryOf} |-> {}]

At(p, step) == task[p].step = step

\* A record replaces the one of the same name.
Upserted(items, record) == {item \in items : item.name # record.name} \cup {record}

\* JsonRepository.upsert: the records are read,
List(p) ==
  /\ task[p].step \in DOMAIN RepositoryOf
  /\ listed[p] = {}
  /\ listed' = [listed EXCEPT ![p] = {store[RepositoryOf[task[p].step]]}]
  /\ UNCHANGED <<store, task, overtaken>>

\* and replaced with the record among them; the process goes on as told.
Puts(p, record, next) ==
  LET repository == RepositoryOf[task[p].step]
  IN  \E items \in listed[p] :
        /\ store' = [store EXCEPT ![repository] = Upserted(items, record)]
        /\ overtaken' = IF items = store[repository] THEN overtaken ELSE overtaken \cup {repository}
        /\ listed' = [listed EXCEPT ![p] = {}]
        /\ task' = [task EXCEPT ![p] = next]

\* The process goes on without storing anything.
Turns(p, next) ==
  /\ task' = [task EXCEPT ![p] = next]
  /\ listed' = [listed EXCEPT ![p] = {}]
  /\ UNCHANGED <<store, overtaken>>

\* No upsert of these repositories undid another one.
Kept(repositories) == repositories \cap overtaken = {}

\* The records that are in a repository, or in the list of an upsert to it.
Around(repository) ==
  store[repository] \cup
  UNION UNION {listed[p] : p \in {q \in Process : /\ task[q].step \in DOMAIN RepositoryOf
                                               /\ RepositoryOf[task[q].step] = repository}}

Stored(repository, name) == \E record \in store[repository] : record.name = name

Held(repository, name) == \E record \in Around(repository) : record.name = name
=============================================================================
