------------------------------- MODULE MapeCycle -------------------------------
(***************************************************************************)
(* A MAPE cycle over the signals of a scan (mape/service.py, analyzer.py,  *)
(* planner.py, executor.py) and the actions it runs (actions/runner.py,    *)
(* workflows/planner.py): each action runs a workflow and leaves an        *)
(* artifact, which is proposed and screened.  loops/knowledge_evolution.py *)
(* wraps a cycle in one more record.                                       *)
(*                                                                         *)
(* Records that nothing reads or names are left out (skill plans, workflow *)
(* definitions, validations, evaluations and their aggregate), so are the  *)
(* observation, analysis, plan and execution of a cycle, whose content it  *)
(* holds itself.  A record is named by its process and action.             *)
(***************************************************************************)
EXTENDS MonitorScans

CONSTANTS
  Action,      \* the types of actions
  ActionOf,    \* the action recommended for a signal about each file
  Workflows,   \* the ones that only run a workflow ("ontology_engineering")
  Looping,     \* the processes that run a knowledge evolution loop
  NoAction

ASSUME CycleAssumption ==
  /\ ActionOf \in [Path -> Action]
  /\ Workflows \subseteq Action
  /\ Looping \subseteq Process
  /\ NoAction \notin Action

\* What a cycle reports: the actions that left each kind of record.
Nothing == [status |-> "completed", runs |-> {}, artifacts |-> {}, proposals |-> {}]

\* A new task. For the cycle it keeps how often its signals are still to be
\* stored, the actions of the plan that are left, the one it is at, and what it
\* has done.
NewTask(p) ==
  [step |-> "collecting", collected |-> {}, seen |-> NoFiles, todo |-> {}, signals |-> {}, at |-> 0,
   rounds |-> IF p \in Looping THEN 2 ELSE 1, left |-> {}, action |-> NoAction, done |-> Nothing]

\* On to the next action of the plan.
Onward(t) == [t EXCEPT !.action = NoAction, !.step = IF t.left = {} THEN "recording" ELSE "working"]

\* MAPEAnalyzer.analyze
RecommendedActions(t) == {ActionOf[f] : f \in t.signals}

\* MAPEPlanner.plan: one step for each recommended action.
Planned(t) == Onward([t EXCEPT !.left = RecommendedActions(t)])

\* What comes after a scan.
Scanned(t) ==
  IF t.signals = {} THEN Planned(t) ELSE [t EXCEPT !.step = "marking", !.todo = t.signals]

-----------------------------------------------------------------------------

\* run_mape_cycle, and run_knowledge_evolution before it: the signals are stored
\* with the references of the command.
Mark(p) ==
  /\ At(p, "marking")
  /\ \E f \in task[p].todo :
       LET next == [task[p] EXCEPT !.todo = @ \ {f}]
       IN  Puts(p, [name |-> <<p, f>>, marked |-> TRUE],
                CASE next.todo # {}                  -> next
                  [] next.todo = {} /\ next.rounds > 1 -> Scanned([next EXCEPT !.rounds = @ - 1])
                  [] OTHER                           -> Planned(next))

\* WorkflowExecutor.run, of a workflow of the plan or of an action.
RunWorkflow(p) ==
  /\ At(p, "working")
  /\ \E a \in task[p].left :
       LET next == [task[p] EXCEPT !.left = @ \ {a}]
       IN  Puts(p, [name |-> <<p, a>>],
                IF a \in Workflows THEN Onward([next EXCEPT !.done.runs = @ \cup {a}])
                ELSE [next EXCEPT !.action = a, !.step = "acting"])

Name(p) == <<p, task[p].action>>

\* Nothing is generated, or the action is not enabled: a failed run, of which
\* the execution takes no notice.
FailAction(p) ==
  /\ At(p, "acting")
  /\ Puts(p, [name |-> Name(p), status |-> "failed", artifact |-> FALSE],
          Onward([task[p] EXCEPT !.done.runs = @ \cup {task[p].action}]))

CompleteAction(p) ==
  /\ At(p, "acting")
  /\ Puts(p, [name |-> Name(p), status |-> "completed", artifact |-> FALSE],
          [task[p] EXCEPT !.step = "producing"])

AddArtifact(p) ==
  /\ At(p, "producing")
  /\ Puts(p, [name |-> Name(p)], [task[p] EXCEPT !.step = "closing"])

\* The run is stored once more, now that its artifact is.
CloseRun(p) ==
  /\ At(p, "closing")
  /\ Puts(p, [name |-> Name(p), status |-> "completed", artifact |-> TRUE],
          [task[p] EXCEPT !.step = "validating", !.done.runs = @ \cup {task[p].action},
                          !.done.artifacts = @ \cup {task[p].action}])

\* The executor reads the artifact back.
Validate(p) ==
  /\ At(p, "validating")
  /\ Turns(p, IF \E artifact \in store["artifacts"] : artifact.name = Name(p)
              THEN [task[p] EXCEPT !.step = "proposing"] ELSE Onward(task[p]))

Propose(p) ==
  /\ At(p, "proposing")
  /\ Puts(p, [name |-> Name(p), screened |-> FALSE],
          [task[p] EXCEPT !.step = "screening", !.done.proposals = @ \cup {task[p].action}])

\* run_evaluations: the decision, then the status of the proposal.
Decide(p) ==
  /\ At(p, "screening")
  /\ Puts(p, [name |-> Name(p)], [task[p] EXCEPT !.step = "settling"])

Settle(p) ==
  /\ At(p, "settling")
  /\ Puts(p, [name |-> Name(p), screened |-> TRUE], Onward(task[p]))

\* Fault: the execution is completed whatever is raised.
RaisedQuietly(t) == Onward(t)

Raised(t) == Onward([t EXCEPT !.done.status = "completed_with_errors"])

\* An action raises: the next one of the plan is tried.
StepFails(p) ==
  \/ /\ At(p, "working")
     /\ \E a \in task[p].left \ Workflows : Turns(p, Raised([task[p] EXCEPT !.left = @ \ {a}]))
  \/ /\ task[p].action # NoAction
     /\ Turns(p, Raised(task[p]))

Finished(t) == [t EXCEPT !.step = "finished"]

\* The cycle is "completed", whatever its execution is.
AddCycle(p) ==
  /\ At(p, "recording")
  /\ Puts(p, [name |-> p, signals |-> task[p].signals, execution |-> task[p].done],
          IF p \in Looping THEN [task[p] EXCEPT !.step = "looping"] ELSE Finished(task[p]))

AddLoop(p) ==
  /\ At(p, "looping")
  /\ Puts(p, [name |-> p], Finished(task[p]))

-----------------------------------------------------------------------------

Marked(name) == \E signal \in store["signals"] : signal.name = name /\ signal.marked

Produced(name) ==
  /\ Stored("artifacts", name)
  /\ \E run \in store["runs"] : run.name = name /\ run.status = "completed" /\ run.artifact

Screened(name) == \E proposal \in store["proposals"] : proposal.name = name /\ proposal.screened

\* The workspace holds what p did for its signals; the proposals of some
\* actions may not be screened yet.
Backs(p, signals, done, unscreened) ==
  /\ \A f \in signals : Marked(<<p, f>>)
  /\ \A a \in done.runs : Stored(IF a \in Workflows THEN "workflows" ELSE "runs", <<p, a>>)
  /\ \A a \in done.artifacts : Produced(<<p, a>>)
  /\ \A a \in done.proposals : Stored("proposals", <<p, a>>)
  /\ done.status = "completed" => \A a \in done.artifacts \ unscreened : Screened(<<p, a>>)

CycleParts == {"signals", "workflows", "runs", "artifacts", "proposals"}

\* What a cycle reports is in the workspace: its signals with the references of
\* the command, its runs, the artifacts and the completed runs that made them,
\* its proposals; and unless its execution had errors, each of its artifacts
\* was proposed and screened.  It holds wherever an action fails or a process
\* stops, unless an upsert of one of these undid another one.
\* (MAPEExecutor.execute:27-66, ActionRunner.run:30-93, run_evaluations:373-385,
\* JsonRepository.upsert:29-40.)
CyclesAreBacked ==
  Kept(CycleParts) =>
    \A c \in store["cycles"] : Backs(c.name, c.signals, c.execution, {})

-----------------------------------------------------------------------------
(* What a task that is under way promises.                                 *)

ActionSteps == {"acting", "producing", "closing", "validating", "proposing", "screening", "settling"}
CycleSteps  == ActionSteps \cup {"working", "recording", "looping", "finished"}
ScanSteps   == {"collecting", "signalling", "noting", "snapshotting"}
Steps       == ScanSteps \cup {"marking"} \cup CycleSteps

Task == [step : Steps, collected : SUBSET Path, seen : Files, todo : SUBSET Path,
         signals : SUBSET Path, at : Nat, rounds : Nat,
         left : SUBSET Action, action : Action \cup {NoAction},
         done : [status : {"completed", "completed_with_errors"}, runs : SUBSET Action,
                 artifacts : SUBSET Action, proposals : SUBSET Action]]

WorkTypeOK ==
  /\ DOMAIN store = DOMAIN Empty
  /\ task \in [Process -> Task]
  /\ DOMAIN listed = Process /\ overtaken \subseteq DOMAIN Empty
  /\ files \in Files /\ edits \in Nat /\ taken \in Nat

\* What a scan has still to store is nowhere yet.
ScanIsFresh(p) ==
  LET t == task[p]
  IN  /\ t.step = "collecting" => t.signals = {} /\ \A f \in Path : ~Held("events", <<p, f>>)
      /\ t.step \in {"signalling", "noting"} => \A f \in t.todo : ~Held("events", <<p, f>>)
      /\ t.step \in ScanSteps => ~Held("snapshots", p)

\* What is not to be reported any more has been.
ScanIsReported(p) ==
  LET t == task[p]
  IN  /\ t.step \in {"signalling", "noting"} =>
           /\ \A f \in t.signals : Stored("signals", <<p, f>>)
           /\ \A f \in Path \ t.todo : t.seen[f] # Gone => IsReported(f, t.seen[f])
      /\ t.step = "snapshotting" => \A f \in Path : t.seen[f] # Gone => IsReported(f, t.seen[f])

\* The actions left have no artifact yet, and the one at hand only once its run
\* is closed; there is no cycle before all is done.
CycleIsOrderly(p) ==
  LET t == task[p]
  IN  /\ t.step \notin CycleSteps => t.done = Nothing
      /\ t.left \cap t.done.artifacts = {} /\ t.action \notin t.left \cup Workflows
      /\ (t.step \in ActionSteps <=> t.action # NoAction)
      /\ t.step \in {"acting", "producing", "closing"} => t.action \notin t.done.artifacts
      /\ t.step = "validating" => t.action \in t.done.artifacts
      /\ t.step \notin {"looping", "finished"} => ~Held("cycles", p)
      /\ t.step = "looping" => p \in Looping

\* What was done is backed.
CycleIsBacked(p) ==
  LET t == task[p]
  IN  /\ t.step = "marking" => \A f \in t.signals \ t.todo : Marked(<<p, f>>)
      /\ t.step \in CycleSteps => Backs(p, t.signals, t.done, {t.action})
      /\ t.step = "closing" => Stored("artifacts", <<p, t.action>>)

TaskIsSound(p) ==
  /\ ScanIsFresh(p) /\ CycleIsOrderly(p)
  /\ Kept(ScanParts) => ScanIsReported(p)
  /\ Kept(CycleParts) => CycleIsBacked(p)
  /\ Kept({"cycles"}) /\ task[p].step = "looping" => Stored("cycles", p)

\* What is on record, or in a list and may come back, is reported and backed,
\* and of each name there is one.
SnapshotsAreSound ==
  \A s \in Around("snapshots") :
    /\ s.files \in Files
    /\ Kept(ScanParts) => \A f \in Path : s.files[f] # Gone => IsReported(f, s.files[f])

CyclesAreSound ==
  \A c \in Around("cycles") :
    c.name \in Process /\ (Kept(CycleParts) => Backs(c.name, c.signals, c.execution, {}))

NamesAreUnique ==
  \A repository \in {"snapshots", "cycles"} : \A one, other \in Around(repository) :
    one.name = other.name => one = other
=============================================================================
