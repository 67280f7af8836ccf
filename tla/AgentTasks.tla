----------------------------- MODULE AgentTasks -----------------------------
(***************************************************************************)
(* The life of AI agent tasks: src/server/services/agent-tasks.ts, with    *)
(* deleteProject of projects.ts and the start-up sequence of index.ts.     *)
(*                                                                         *)
(* Three kinds of actors change the rows of agent_tasks and agent_runs and *)
(* the git worktree of a task:                                             *)
(*   - requests (Op): every one but stop and create runs under the lock of *)
(*     its project.  withAgentLifecycleLock is used by what it promises    *)
(*     (LifecycleLock proves it): at most one holder per project, served   *)
(*     in order.  Task keys are always taken after the project's key, so   *)
(*     they are never contended;                                           *)
(*   - runs (Run): executeAgentRun goes on after the request that admitted *)
(*     it has released the lock.  activeRuns is its only handle in memory; *)
(*   - the process: a crash loses activeRuns and every continuation, and   *)
(*     the next start recovers the rows before it listens.                 *)
(*                                                                         *)
(* One step is what happens between two awaits that others can observe: a  *)
(* database statement or transaction, a git command, or a synchronous      *)
(* stretch of the event loop.  Any database or git step may fail.          *)
(***************************************************************************)
EXTENDS Naturals, FiniteSets, TaskWorktree

CONSTANTS Task, Project, ProjectOf,
          Mode,         \* what each task asked of its branch
          Leftovers,    \* worktrees and branches a new task may find
          ByHand,       \* tasks in whose checkout a person works too
          Renames,      \* projects that are given another folder
          Run,          \* run ids; a bound on the number of starts
          Op,           \* requests in progress at the same time
          Kinds,        \* the requests that occur
          AutoLevels,   \* 0 nothing, 1 autoCommit, 2 +autoPush, 3 +autoCleanup
          MaxActive,    \* config.agentMaxConcurrentRuns
          NoRun, NoTarget

TaskKinds == {"start", "update", "archive", "unarchive", "delete", "commit", "push", "cleanup"}

ASSUME TaskAssumption == IsFiniteSet(Task) /\ NoTarget \notin Task /\ NoTarget \notin Project
ASSUME ProjectAssumption == ProjectOf \in [Task -> Project]
ASSUME ModeAssumption == Mode \in [Task -> Modes]
ASSUME LeftoversAssumption == Leftovers \subseteq {w \in Worktree : w.tree = "none"}
ASSUME RenamesAssumption == Renames \subseteq Project
ASSUME RunAssumption == NoRun \notin Run /\ Run \cap Op = {}
ASSUME KindsAssumption == Kinds \subseteq TaskKinds \cup {"deleteProject"}
ASSUME AutoAssumption == AutoLevels \subseteq 0..3
ASSUME MaxActiveAssumption == MaxActive \in Nat \ {0}

VARIABLES
  projects,                             \* rows of projects
  status, archived, path, sha, auto,    \* columns of agent_tasks
  git,                                  \* worktree and branch of each task
  run, taskOf,                          \* columns of agent_runs
  active,                               \* activeRuns
  stage, abort, snap, outcome,          \* executeAgentRun: its locals
  at, kind, target, force, left,        \* requests: their locals
  stale,                                \* runs and requests with a project row from before its renaming
  up                                    \* the process serves requests

taskVars == <<projects, status, archived, path, sha, auto>>
runVars == <<run, taskOf, active, stage, abort, snap, outcome>>
opVars == <<at, kind, target, force, left, stale>>
vars == <<taskVars, git, runVars, opVars, up>>

(* Stages of executeAgentRun: those in which it uses the worktree, those   *)
(* in which it owns the task, and those in which its handle is registered. *)
Touching == {"preparing", "prepared", "working", "commit", "push", "check", "clean"}
Owning == {"starting", "ending"} \cup Touching
Registered == {"reserved", "posting"} \cup Owning

Outcomes == {"review", "done", "cleaned", "failed", "canceled"}

Exists(t) == status[t] \notin {"none", "deleted"}
TasksOf(j) == {t \in Task : ProjectOf[t] = j}

ProjectKey(o) == IF kind[o] = "deleteProject" THEN target[o] ELSE ProjectOf[target[o]]
TasksOfOp(o) == IF kind[o] = "deleteProject" THEN TasksOf(target[o]) ELSE {target[o]}
Holds(o) == at[o] \notin {"idle", "waiting", "sweeping"}

(* Run or request x looks for the checkout of t in the folder it is in. *)
Sees(x, t) == git[t].away => x \in stale

Init ==
  /\ projects = Project
  /\ status = [t \in Task |-> "none"]
  /\ archived = [t \in Task |-> FALSE]
  /\ path = [t \in Task |-> FALSE]
  /\ sha = [t \in Task |-> FALSE]
  /\ auto = [t \in Task |-> 0]
  /\ git \in [Task -> Leftovers]
  /\ run = [r \in Run |-> "none"]
  /\ taskOf = [r \in Run |-> NoTarget]
  /\ active = [t \in Task |-> NoRun]
  /\ stage = [r \in Run |-> "new"]
  /\ abort = [r \in Run |-> FALSE]
  /\ snap = [r \in Run |-> 0]
  /\ outcome = [r \in Run |-> "review"]
  /\ at = [o \in Op |-> "idle"]
  /\ kind = [o \in Op |-> "start"]
  /\ target = [o \in Op |-> NoTarget]
  /\ force = [o \in Op |-> FALSE]
  /\ left = [o \in Op |-> {}]
  /\ stale = {}
  /\ up = TRUE
-----------------------------------------------------------------------------
(* Requests.  A request of a task first reads it without the lock. *)

Create(t) ==
  /\ up
  /\ status[t] = "none"
  /\ ProjectOf[t] \in projects
  /\ status' = [status EXCEPT ![t] = "backlog"]
  /\ \E a \in AutoLevels : auto' = [auto EXCEPT ![t] = a]
  /\ UNCHANGED <<projects, archived, path, sha, git, runVars, opVars, up>>

Arrive(o, k, x, f) ==
  /\ at' = [at EXCEPT ![o] = "waiting"]
  /\ kind' = [kind EXCEPT ![o] = k]
  /\ target' = [target EXCEPT ![o] = x]
  /\ force' = [force EXCEPT ![o] = f]
  /\ UNCHANGED <<taskVars, git, runVars, left, stale, up>>

RequestTask(o) ==
  /\ up
  /\ at[o] = "idle"
  /\ \E k \in Kinds \cap TaskKinds, t \in Task, f \in BOOLEAN :
       /\ Exists(t)
       /\ k \in {"start", "update"} => status[t] # "running"
       /\ f => k \in {"delete", "cleanup"}
       /\ Arrive(o, k, t, f)

RequestDeleteProject(o) ==
  /\ up
  /\ at[o] = "idle"
  /\ "deleteProject" \in Kinds
  /\ \E j \in Project : Arrive(o, "deleteProject", j, FALSE)

LockFree_Unlocked(o) == TRUE
LockFree_CountsWaiters(o) == \A p \in Op \ {o} : at[p] # "idle" => ProjectKey(p) # ProjectKey(o)

LockFree(o) == \A p \in Op : Holds(p) => ProjectKey(p) # ProjectKey(o)

(* The second read, under the lock. *)
MayProceed(o) ==
  IF kind[o] = "deleteProject"
  THEN target[o] \in projects /\ \A t \in TasksOf(target[o]) : status[t] # "running"
  ELSE /\ Exists(target[o])
       /\ status[target[o]] # "running"
       /\ kind[o] = "archive" => status[target[o]] = "done"

FirstStep(k) ==
  CASE k = "start" -> "admitting"
    [] k \in {"update", "archive", "unarchive"} -> "saving"
    [] k = "commit" -> "committing"
    [] k = "push" -> "pushing"
    [] OTHER -> "removing"

Goto(o, place) == at' = [at EXCEPT ![o] = place]
Step(o, place) == Goto(o, place) /\ UNCHANGED <<kind, target, force, left, stale>>

(* The request is answered; its locals are gone. *)
Done(o) ==
  /\ Goto(o, "idle")
  /\ kind' = [kind EXCEPT ![o] = "start"]
  /\ target' = [target EXCEPT ![o] = NoTarget]
  /\ force' = [force EXCEPT ![o] = FALSE]
  /\ left' = [left EXCEPT ![o] = {}]
  /\ stale' = stale \ {o}

Enter(o) ==
  /\ up
  /\ at[o] = "waiting"
  /\ LockFree(o)
  /\ IF MayProceed(o)
     THEN /\ Goto(o, FirstStep(kind[o]))
          /\ left' = [left EXCEPT ![o] = {t \in TasksOfOp(o) : Exists(t)}]
          /\ UNCHANGED <<kind, target, force, stale>>
     ELSE Done(o)
  /\ UNCHANGED <<taskVars, git, runVars, up>>

(* A git command or a database statement throws: the lock is released and  *)
(* what was done so far stays.  The claim and the automatic cleanup after  *)
(* a push have handlers of their own.                                      *)
Fail(o) ==
  /\ at[o] \in {"saving", "saveDone", "saveReview", "committing", "pushing", "previewing", "removing", "sweeping"}
  /\ Done(o)
  /\ UNCHANGED <<taskVars, git, runVars, up>>

(* updateAgentTask: any combination the dependency rule allows. *)
SaveUpdate(o) ==
  /\ at[o] = "saving" /\ kind[o] = "update"
  /\ \E a \in AutoLevels : auto' = [auto EXCEPT ![target[o]] = a]
  /\ Done(o)
  /\ UNCHANGED <<projects, status, archived, path, sha, git, runVars, up>>

SaveArchived(o) ==
  /\ at[o] = "saving" /\ kind[o] \in {"archive", "unarchive"}
  /\ archived' = [archived EXCEPT ![target[o]] = (kind[o] = "archive")]
  /\ Done(o)
  /\ UNCHANGED <<projects, status, path, sha, auto, git, runVars, up>>

Commit(o) ==
  /\ at[o] = "committing"
  /\ LET t == target[o]
     IN  /\ path[t]
         /\ git[t].tree = "dirty"
         /\ \E w \in {Committed(git[t]), CommittedInPart(git[t])} : git' = [git EXCEPT ![t] = w]
  /\ Done(o)
  /\ UNCHANGED <<taskVars, runVars, up>>

Push(o) ==
  /\ at[o] = "pushing"
  /\ LET t == target[o]
     IN  /\ path[t]
         /\ git[t].tree # "none"
         /\ git' = [git EXCEPT ![t] = Pushed(@)]
  /\ Step(o, "previewing")
  /\ UNCHANGED <<taskVars, runVars, up>>

(* taskGitPreview after the push, and what follows from isClean. *)
Preview(o) ==
  /\ at[o] = "previewing"
  /\ git[target[o]].tree # "none"
  /\ Step(o, IF git[target[o]].tree = "dirty" THEN "saveReview"
             ELSE IF auto[target[o]] = 3 THEN "cleaning" ELSE "saveDone")
  /\ UNCHANGED <<taskVars, git, runVars, up>>

(* cleanupTaskWorktree looks for the recorded path, else for the one that  *)
(* the folder gives; git removes it only from the repository it belongs to.*)
Finds_Recorded(x, t) == path[t]
Finds(x, t) == path[t] \/ Sees(x, t)
MayRemove(x, t, f) == git[t].tree # "none" => Sees(x, t) /\ Removable(git[t], f)

CleanPushed(o) ==
  /\ at[o] = "cleaning"
  /\ MayRemove(o, target[o], FALSE)
  /\ git' = [git EXCEPT ![target[o]] = Removed(@)]
  /\ Step(o, "saveDone")
  /\ UNCHANGED <<taskVars, runVars, up>>

(* git worktree remove fails, or the prune after it. *)
HalfCleaned(x, t) ==
  \/ UNCHANGED git
  \/ MayRemove(x, t, FALSE) /\ git' = [git EXCEPT ![t] = Removed(@)]

CleanPushedFails(o) ==
  /\ at[o] = "cleaning"
  /\ HalfCleaned(o, target[o])
  /\ Step(o, "saveReview")
  /\ UNCHANGED <<taskVars, runVars, up>>

SavePushed(o) ==
  /\ at[o] \in {"saveDone", "saveReview"}
  /\ LET t == target[o]
     IN  /\ status' = [status EXCEPT ![t] = IF at[o] = "saveDone" THEN "done" ELSE "review"]
         /\ path' = [path EXCEPT ![t] = @ /\ ~(at[o] = "saveDone" /\ auto[t] = 3)]
  /\ Done(o)
  /\ UNCHANGED <<projects, archived, sha, auto, git, runVars, up>>

(* cleanupTaskWorktree, for one task or for each task of a project; where  *)
(* the path is absent there is nothing to remove.                          *)
Remove(o) ==
  /\ at[o] = "removing"
  /\ \E t \in left[o] :
       /\ left' = [left EXCEPT ![o] = @ \ {t}]
       /\ \/ Finds(o, t) /\ MayRemove(o, t, force[o]) /\ git' = [git EXCEPT ![t] = Removed(@)]
          \/ ~Finds(o, t) /\ UNCHANGED git
  /\ UNCHANGED <<taskVars, runVars, at, kind, target, force, stale, up>>

(* pruneTaskWorktrees *)
Prune(o) ==
  /\ at[o] = "removing"
  /\ left[o] = {}
  /\ Step(o, "saving")
  /\ UNCHANGED <<taskVars, git, runVars, up>>

SaveCleaned(o) ==
  /\ at[o] = "saving" /\ kind[o] = "cleanup"
  /\ path' = [path EXCEPT ![target[o]] = FALSE]
  /\ Done(o)
  /\ UNCHANGED <<projects, status, archived, sha, auto, git, runVars, up>>

(* DELETE FROM agent_tasks; ON DELETE CASCADE takes the runs along. *)
DeleteRows(S) ==
  /\ status' = [t \in Task |-> IF t \in S /\ Exists(t) THEN "deleted" ELSE status[t]]
  /\ run' = [r \in Run |-> IF taskOf[r] \in S /\ run[r] # "none" THEN "gone" ELSE run[r]]

SaveDeleted(o) ==
  /\ at[o] = "saving" /\ kind[o] = "delete"
  /\ DeleteRows({target[o]})
  /\ Done(o)
  /\ UNCHANGED <<projects, archived, path, sha, auto, git, taskOf, active, stage, abort, snap, outcome, up>>

SaveProjectDeleted(o) ==
  /\ at[o] = "saving" /\ kind[o] = "deleteProject"
  /\ DeleteRows(TasksOf(target[o]))
  /\ projects' = projects \ {target[o]}
  /\ Goto(o, "sweeping")
  /\ left' = [left EXCEPT ![o] = {}]
  /\ UNCHANGED <<kind, target, force, stale>>
  /\ UNCHANGED <<archived, path, sha, auto, git, taskOf, active, stage, abort, snap, outcome, up>>

(* removeProjectDirectory and removeProjectWorktreeDirectory, after the    *)
(* lock was released, of the folder that was read under it.                *)
Sweep(o) ==
  /\ at[o] = "sweeping"
  /\ git' = [t \in Task |-> IF ProjectOf[t] = target[o] /\ Sees(o, t) THEN Swept(git[t]) ELSE git[t]]
  /\ Done(o)
  /\ UNCHANGED <<taskVars, runVars, up>>
-----------------------------------------------------------------------------
(* startAgentTask: admission is synchronous, the claim one transaction. *)

Admitted == {t \in Task : active[t] # NoRun}

Admissible_OneTooMany(t) == active[t] = NoRun /\ Cardinality(Admitted) <= MaxActive
Admissible(t) == active[t] = NoRun /\ Cardinality(Admitted) < MaxActive

Admit(o) ==
  /\ at[o] = "admitting"
  /\ Admissible(target[o])
  /\ \E r \in Run :
       /\ stage[r] = "new"
       /\ active' = [active EXCEPT ![target[o]] = r]
       /\ taskOf' = [taskOf EXCEPT ![r] = target[o]]
       /\ stage' = [stage EXCEPT ![r] = "reserved"]
  /\ Step(o, "claiming")
  /\ UNCHANGED <<taskVars, git, run, abort, snap, outcome, up>>

(* 409 and 429; also how the model stops when Run is used up. *)
Refuse(o) ==
  /\ at[o] = "admitting"
  /\ Admissible(target[o]) => \A r \in Run : stage[r] # "new"
  /\ Done(o)
  /\ UNCHANGED <<taskVars, git, runVars, up>>

RunningRows(t) == {r \in Run : run[r] = "running" /\ taskOf[r] = t}

ReleaseHandle(t) == [active EXCEPT ![t] = NoRun]

(* The conditional update and the unique index on running rows hold. *)
Claim(o) ==
  /\ at[o] = "claiming"
  /\ LET t == target[o]
         r == active[t]
     IN  /\ status[t] # "running"
         /\ RunningRows(t) = {}
         /\ status' = [status EXCEPT ![t] = "running"]
         /\ archived' = [archived EXCEPT ![t] = FALSE]
         /\ run' = [run EXCEPT ![r] = "running"]
         /\ stage' = [stage EXCEPT ![r] = "starting"]
  /\ Done(o)
  /\ UNCHANGED <<projects, path, sha, auto, git, taskOf, active, abort, snap, outcome, up>>

(* The transaction throws, for these reasons or any other. *)
ClaimFails(o) ==
  /\ at[o] = "claiming"
  /\ stage' = [stage EXCEPT ![active[target[o]]] = "over"]
  /\ abort' = [abort EXCEPT ![active[target[o]]] = FALSE]
  /\ active' = ReleaseHandle(target[o])
  /\ Done(o)
  /\ UNCHANGED <<taskVars, git, run, taskOf, snap, outcome, up>>
-----------------------------------------------------------------------------
(* executeAgentRun *)

Turn(r, s) == stage' = [stage EXCEPT ![r] = s]
Go(r, s) == Turn(r, s) /\ UNCHANGED <<run, taskOf, active, abort, snap, outcome>>
Failure(r) == IF abort[r] THEN "canceled" ELSE "failed"
End(r, oc) ==
  /\ Turn(r, "ending")
  /\ outcome' = [outcome EXCEPT ![r] = oc]
  /\ UNCHANGED <<run, taskOf, active, abort, snap>>
SetTree(r, w) == git' = [git EXCEPT ![taskOf[r]] = w]
Tree(r) == git[taskOf[r]]

(* What the run finds: where the folder is another one and no checkout is  *)
(* recorded, a new clone; what lies in the former folder is forgotten.     *)
View(r) ==
  IF Sees(r, taskOf[r]) \/ (path[taskOf[r]] /\ Tree(r).tree # "none") THEN Tree(r) ELSE Cloned(Tree(r))

(* stopAgentTask, the run's timeout and the shutdown's drain all abort the *)
(* controller; nothing happens until the run looks at it.                  *)
Abort(r) ==
  /\ stage[r] \in Registered
  /\ ~abort[r]
  /\ abort' = [abort EXCEPT ![r] = TRUE]
  /\ UNCHANGED <<taskVars, git, run, taskOf, active, stage, snap, outcome, opVars, up>>

(* The detail read here is what the run acts on to its end. *)
ReadTask(r) ==
  /\ stage[r] = "starting" /\ ~abort[r]
  /\ Turn(r, "preparing")
  /\ snap' = [snap EXCEPT ![r] = auto[taskOf[r]]]
  /\ UNCHANGED <<taskVars, git, run, taskOf, active, abort, outcome, opVars, up>>

Prepare(r) ==
  /\ stage[r] = "preparing" /\ ~abort[r]
  /\ CanPrepare(View(r), sha[taskOf[r]], Mode[taskOf[r]])
  /\ SetTree(r, Prepared(View(r)))
  /\ Go(r, "prepared")
  /\ UNCHANGED <<taskVars, opVars, up>>

PrepareFailsHalfway(r) ==
  /\ stage[r] = "preparing"
  /\ CanPrepare(View(r), sha[taskOf[r]], Mode[taskOf[r]])
  /\ MergesAfterAdd(View(r))
  /\ SetTree(r, Prepared(View(r)))
  /\ End(r, Failure(r))
  /\ UNCHANGED <<taskVars, opVars, up>>

SaveWorktree(r) ==
  /\ stage[r] = "prepared" /\ ~abort[r]
  /\ path' = [path EXCEPT ![taskOf[r]] = TRUE]
  /\ sha' = [sha EXCEPT ![taskOf[r]] = TRUE]
  /\ Go(r, "working")
  /\ UNCHANGED <<projects, status, archived, auto, git, opVars, up>>

(* The model's tools edit files or run git commit, also after an abort     *)
(* that has not reached them yet.                                          *)
Work(r) ==
  /\ stage[r] = "working"
  /\ Tree(r).tree # "none"
  /\ \E w \in {Edited(Tree(r)), Committed(Tree(r))} : SetTree(r, w)
  /\ UNCHANGED <<taskVars, runVars, opVars, up>>

ProviderReturns(r) ==
  /\ stage[r] = "working" /\ ~abort[r]
  /\ IF snap[r] = 0 THEN End(r, "review") ELSE Go(r, "commit")
  /\ UNCHANGED <<taskVars, git, opVars, up>>

(* throwIfAborted, or any step up to the provider's return throws. *)
SetupFails(r) ==
  /\ stage[r] \in {"starting", "preparing", "prepared", "working"}
  /\ End(r, Failure(r))
  /\ UNCHANGED <<taskVars, git, opVars, up>>

(* Git automation: an abort no longer counts.  A commit may be made and    *)
(* the command after it fail.                                              *)
AutoCommit(r) ==
  /\ stage[r] = "commit"
  /\ Tree(r).tree # "none"
  /\ IF Tree(r).tree = "dirty" THEN SetTree(r, Committed(Tree(r))) ELSE UNCHANGED git
  /\ IF snap[r] = 1 THEN \E oc \in {"review", "failed"} : End(r, oc) ELSE Go(r, "push")
  /\ UNCHANGED <<taskVars, opVars, up>>

AutoPush(r) ==
  /\ stage[r] = "push"
  /\ Tree(r).tree # "none"
  /\ SetTree(r, Pushed(Tree(r)))
  /\ Go(r, "check")
  /\ UNCHANGED <<taskVars, opVars, up>>

AutoCheck(r) ==
  /\ stage[r] = "check"
  /\ Tree(r).tree = "clean"
  /\ IF snap[r] = 2 THEN End(r, "done") ELSE Go(r, "clean")
  /\ UNCHANGED <<taskVars, git, opVars, up>>

AutoClean(r) ==
  /\ stage[r] = "clean"
  /\ MayRemove(r, taskOf[r], FALSE)
  /\ SetTree(r, Removed(Tree(r)))
  /\ End(r, "cleaned")
  /\ UNCHANGED <<taskVars, opVars, up>>

AutoFails(r) ==
  /\ stage[r] \in {"commit", "push", "check", "clean"}
  /\ IF stage[r] = "clean" THEN HalfCleaned(r, taskOf[r]) ELSE UNCHANGED git
  /\ End(r, "failed")
  /\ UNCHANGED <<taskVars, opVars, up>>

RunStatusOf(oc) == IF oc \in {"failed", "canceled"} THEN oc ELSE "succeeded"
TaskStatusOf(oc) == IF oc = "review" THEN "review" ELSE "done"

WriteTerminalRunState_RunOnly(r) ==
  /\ run' = [run EXCEPT ![r] = RunStatusOf(outcome[r])]
  /\ UNCHANGED <<status, path>>

(* One transaction writes the run and its task. *)
WriteTerminalRunState(r) ==
  /\ run' = [run EXCEPT ![r] = RunStatusOf(outcome[r])]
  /\ status' = [status EXCEPT ![taskOf[r]] = TaskStatusOf(outcome[r])]
  /\ path' = [path EXCEPT ![taskOf[r]] = @ /\ outcome[r] # "cleaned"]

(* reconcileTerminalRun: a failed transaction is tried again. *)
ReconcileTerminalRun(r) ==
  /\ stage[r] = "ending"
  /\ WriteTerminalRunState(r)
  /\ Turn(r, "posting")
  /\ UNCHANGED <<projects, archived, sha, auto, git, taskOf, active, abort, snap, outcome, opVars, up>>

(* The last events are out; the finally block drops the handle. *)
Complete(r) ==
  /\ stage[r] = "posting"
  /\ Turn(r, "over")
  /\ active' = IF active[taskOf[r]] = r THEN ReleaseHandle(taskOf[r]) ELSE active
  /\ abort' = [abort EXCEPT ![r] = FALSE]
  /\ snap' = [snap EXCEPT ![r] = 0]
  /\ outcome' = [outcome EXCEPT ![r] = "review"]
  /\ stale' = stale \ {r}
  /\ UNCHANGED <<taskVars, git, run, taskOf, at, kind, target, force, left, up>>
-----------------------------------------------------------------------------
(* The process and its surroundings *)

(* archiveCompletedAgentTasks: any of the done tasks may be old enough. *)
ArchiveCompleted ==
  /\ up
  /\ \E S \in (SUBSET {t \in Task : status[t] = "done" /\ ~archived[t]}) \ {{}} :
       archived' = [t \in Task |-> archived[t] \/ t \in S]
  /\ UNCHANGED <<projects, status, path, sha, auto, git, runVars, opVars, up>>

(* updateProject gives the project another folder, whatever its tasks do   *)
(* (bound: once, for the projects of Renames).                             *)
RenameFolder(j) ==
  /\ up
  /\ j \in Renames \cap projects
  /\ \A t \in TasksOf(j) : ~git[t].away
  /\ git' = [t \in Task |-> [git[t] EXCEPT !.away = @ \/ (t \in TasksOf(j) /\ Exists(t))]]
  /\ stale' = stale \cup {r \in Run : stage[r] \in Touching /\ taskOf[r] \in TasksOf(j)}
                    \cup {o \in Op : Holds(o) /\ ProjectKey(o) = j}
  /\ UNCHANGED <<taskVars, runVars, at, kind, target, force, left, up>>

(* A person works in a checkout: worktrees are shown with their host path. *)
EditByHand(t) ==
  /\ t \in ByHand
  /\ git[t].tree # "none"
  /\ \E w \in {Edited(git[t]), Committed(git[t])} : git' = [git EXCEPT ![t] = w]
  /\ UNCHANGED <<taskVars, runVars, opVars, up>>

(* The process dies, also when a shutdown's drain has timed out. *)
Crash ==
  /\ up
  /\ up' = FALSE
  /\ active' = [t \in Task |-> NoRun]
  /\ stage' = [r \in Run |-> IF stage[r] = "new" THEN "new" ELSE "over"]
  /\ abort' = [r \in Run |-> FALSE]
  /\ snap' = [r \in Run |-> 0]
  /\ outcome' = [r \in Run |-> "review"]
  /\ at' = [o \in Op |-> "idle"]
  /\ kind' = [o \in Op |-> "start"]
  /\ target' = [o \in Op |-> NoTarget]
  /\ force' = [o \in Op |-> FALSE]
  /\ left' = [o \in Op |-> {}]
  /\ stale' = {}
  /\ UNCHANGED <<taskVars, git, run, taskOf>>

Interrupted_EveryRun(r) == run[r] \notin {"none", "gone"}
Recovered_RunOnly(r) == status
RecoveryIsOver_Assumed == TRUE

Interrupted(r) == run[r] = "running"
Recovered(r) == [status EXCEPT ![taskOf[r]] = "done"]
RecoveryIsOver == \A r \in Run : ~Interrupted(r)

(* recoverInterruptedAgentRuns: one transaction per interrupted run. *)
Recover(r) ==
  /\ ~up
  /\ Interrupted(r)
  /\ run' = [run EXCEPT ![r] = "failed"]
  /\ status' = Recovered(r)
  /\ UNCHANGED <<projects, archived, path, sha, auto, git, taskOf, active, stage, abort, snap, outcome, opVars, up>>

(* main() listens only after the recovery. *)
Listen ==
  /\ ~up
  /\ RecoveryIsOver
  /\ up' = TRUE
  /\ UNCHANGED <<taskVars, git, runVars, opVars>>
-----------------------------------------------------------------------------
RequestStep(o) ==
  \/ Enter(o) \/ Fail(o)
  \/ SaveUpdate(o) \/ SaveArchived(o) \/ Commit(o)
  \/ Push(o) \/ Preview(o) \/ CleanPushed(o) \/ CleanPushedFails(o) \/ SavePushed(o)
  \/ Remove(o) \/ Prune(o) \/ SaveCleaned(o) \/ SaveDeleted(o) \/ SaveProjectDeleted(o) \/ Sweep(o)
  \/ Admit(o) \/ Refuse(o) \/ Claim(o) \/ ClaimFails(o)

RunStep(r) ==
  \/ ReadTask(r) \/ Prepare(r) \/ PrepareFailsHalfway(r) \/ SaveWorktree(r)
  \/ ProviderReturns(r) \/ SetupFails(r)
  \/ AutoCommit(r) \/ AutoPush(r) \/ AutoCheck(r) \/ AutoClean(r) \/ AutoFails(r)
  \/ ReconcileTerminalRun(r) \/ Complete(r)

Next ==
  \/ \E t \in Task : Create(t) \/ EditByHand(t)
  \/ \E o \in Op : RequestTask(o) \/ RequestDeleteProject(o) \/ RequestStep(o)
  \/ \E r \in Run : RunStep(r) \/ Abort(r) \/ Work(r) \/ Recover(r)
  \/ \E j \in Project : RenameFolder(j)
  \/ ArchiveCompleted \/ Crash \/ Listen

Spec == Init /\ [][Next]_vars

(* Every await ends: git and database calls are bounded, a provider is cut *)
(* off by the run's timeout, the terminal transaction is retried until it  *)
(* succeeds, and a dead process is started again by its supervisor.  The   *)
(* lock is first come first served, hence strong fairness of Enter.        *)
Fairness ==
  /\ \A o \in Op : SF_vars(Enter(o)) /\ WF_vars(RequestStep(o) /\ at[o] # "waiting")
  /\ \A r \in Run : WF_vars(RunStep(r)) /\ WF_vars(Recover(r))
  /\ WF_vars(Listen)

FairSpec == Spec /\ Fairness
-----------------------------------------------------------------------------
(* Types; and what the columns' CHECK constraints allow. *)
TypeOK ==
  /\ projects \subseteq Project
  /\ status \in [Task -> {"none", "backlog", "running", "review", "done", "deleted"}]
  /\ archived \in [Task -> BOOLEAN]
  /\ path \in [Task -> BOOLEAN]
  /\ sha \in [Task -> BOOLEAN]
  /\ auto \in [Task -> 0..3]
  /\ git \in [Task -> Worktree]
  /\ run \in [Run -> {"none", "running", "succeeded", "failed", "canceled", "gone"}]
  /\ taskOf \in [Run -> Task \cup {NoTarget}]
  /\ active \in [Task -> Run \cup {NoRun}]
  /\ stage \in [Run -> {"new", "over"} \cup Registered]
  /\ abort \in [Run -> BOOLEAN]
  /\ snap \in [Run -> 0..3]
  /\ outcome \in [Run -> Outcomes]
  /\ at \in [Op -> {"idle", "waiting", "admitting", "claiming", "saving", "saveDone", "saveReview",
                     "committing", "pushing", "previewing", "cleaning", "removing", "sweeping"}]
  /\ kind \in [Op -> TaskKinds \cup {"deleteProject"}]
  /\ target \in [Op -> Task \cup Project \cup {NoTarget}]
  /\ force \in [Op -> BOOLEAN]
  /\ left \in [Op -> SUBSET Task]
  /\ stale \subseteq Run \cup Op
  /\ up \in BOOLEAN

(* While requests are served, a run row says running exactly when          *)
(* executeAgentRun still owns the task and its handle is registered, so a  *)
(* stop reaches it and a start is refused (the comment in                  *)
(* reconcileTerminalRun: "must not admit another owner for this task").    *)
RunHasOwner ==
  up => \A r \in Run : run[r] = "running" <=> stage[r] \in Owning /\ active[taskOf[r]] = r

(* A task is running exactly when one of its runs is: the two tables never *)
(* disagree, also between a crash and the end of the recovery.             *)
TaskRunAgree ==
  \A t \in Task : IF status[t] = "running" THEN \E r \in Run : RunningRows(t) = {r}
                                           ELSE RunningRows(t) = {}

(* Who may be touching the worktree of t: runs, and holders of the lock in *)
(* a git step.  There is never more than one; once a task is in review no  *)
(* previous run can change its worktree.                                   *)
RunsIn(t) == {r \in Run : stage[r] \in Touching /\ taskOf[r] = t}
OpsIn(t) == {o \in Op : /\ at[o] \in {"committing", "pushing", "previewing", "cleaning", "removing"}
                        /\ t \in TasksOfOp(o)}
WorktreeExclusive ==
  \A t \in Task :
    /\ \A r \in RunsIn(t) : status[t] = "running" /\ OpsIn(t) = {} /\ RunsIn(t) = {r}
    /\ \A o, p \in OpsIn(t) : o = p

(* "Settings cannot change while a task is running, so the accepted        *)
(* snapshot remains authoritative" (executeAgentRun).                      *)
SnapshotCurrent ==
  \A r \in Run : stage[r] \in Touching => snap[r] = auto[taskOf[r]]

(* Deleting a task or its project leaves no checkout behind, whatever was  *)
(* requested, admitted or running in the meantime, recorded or not - but   *)
(* for one that its row did not record when its project's folder was       *)
(* renamed: the path that is computed then is another one.                 *)
Lost(t) == git[t].away /\ ~path[t]
NoOrphanWorktree == \A t \in Task : status[t] = "deleted" => git[t].tree = "none" \/ Lost(t)

(* Uncommitted changes disappear only when somebody forces the removal of  *)
(* this task's worktree.                                                   *)
NeverDiscardUncommitted ==
  [][\A t \in Task : git[t].tree = "dirty" /\ git'[t].tree = "none"
                       => \E o \in OpsIn(t) : at[o] = "removing" /\ force[o]]_vars

(* A finished run stays as it finished: neither a late abort, nor a crash, *)
(* nor the recovery rewrites it (only the deletion of its task removes it).*)
TerminalIsFinal ==
  [][\A r \in Run : run[r] \in {"succeeded", "failed", "canceled"} => run'[r] \in {run[r], "gone"}]_vars

(* Runs are leases of tasks: exclusive, capped, issued once. *)
Owner == [t \in Task |-> IF RunningRows(t) = {} THEN NoRun ELSE CHOOSE r \in RunningRows(t) : TRUE]
Lease == INSTANCE RunLease WITH owner <- Owner, spent <- {r \in Run : run[r] # "none"}
ImplementsRunLease == Lease!Spec

(* An accepted run ends: stopped, timed out, failed or crashed, its row    *)
(* and its task leave the running state.                                   *)
RunEnds == \A t \in Task : status[t] = "running" ~> status[t] # "running"

(* Every request is answered: nobody waits for the lock for ever. *)
Answered == \A o \in Op : at[o] = "waiting" ~> at[o] = "idle"
-----------------------------------------------------------------------------
(* The inductive invariant.  Requests: each place belongs to its kinds of  *)
(* request, holders of one project's lock are the same, and what they work *)
(* on is not running.                                                      *)
RequestAt(o) ==
  /\ at[o] # "idle" => IF kind[o] = "deleteProject" THEN target[o] \in Project ELSE target[o] \in Task
  /\ at[o] \in {"admitting", "claiming"} => kind[o] = "start"
  /\ at[o] = "committing" => kind[o] = "commit"
  /\ at[o] \in {"pushing", "previewing", "cleaning", "saveDone", "saveReview"} => kind[o] = "push"
  /\ at[o] = "removing" => kind[o] \in {"delete", "cleanup", "deleteProject"}
  /\ at[o] = "sweeping" => kind[o] = "deleteProject"
  /\ left[o] \subseteq TasksOfOp(o)
  /\ ~Holds(o) => left[o] = {}
  /\ ~up => at[o] = "idle"

ClaimHasHandle ==
  \A o \in Op : at[o] = "claiming" => active[target[o]] # NoRun /\ stage[active[target[o]]] = "reserved"

OneHolder == \A o, p \in Op : Holds(o) /\ Holds(p) /\ ProjectKey(o) = ProjectKey(p) => o = p

SweptIsGone ==
  \A o \in Op : at[o] = "sweeping" => /\ target[o] \notin projects
                                       /\ \A t \in TasksOf(target[o]) : ~Exists(t)

StaleHolds == \A o \in Op : o \in stale => at[o] \notin {"idle", "waiting"}

HeldExists == \A o \in Op : Holds(o) /\ kind[o] # "deleteProject" => Exists(target[o])

HeldIsQuiet == \A o \in Op : Holds(o) => \A t \in TasksOfOp(o) : status[t] # "running"

(* Handles: activeRuns and the registered runs are inverse to each other. *)
HandlesMatch ==
  /\ \A t \in Task : active[t] # NoRun => /\ taskOf[active[t]] = t
                                          /\ stage[active[t]] \in Registered
  /\ \A r \in Run : stage[r] \in Registered => taskOf[r] \in Task /\ active[taskOf[r]] = r
  /\ ~up => \A t \in Task : active[t] = NoRun

(* The cap: activeRuns.size never exceeds config.agentMaxConcurrentRuns.   *)
CapKept == Cardinality(Admitted) <= MaxActive

(* Rows: what the stage of a run says of its row, and its row of the task. *)
RowsMatch ==
  /\ \A r \in Run :
       /\ stage[r] \in {"new", "reserved"} => run[r] = "none"
       /\ stage[r] \in Owning => run[r] = "running"
       /\ run[r] = "running" => /\ taskOf[r] \in Task
                                /\ status[taskOf[r]] = "running"
                                /\ up => stage[r] \in Owning
  /\ \A r, s \in Run : run[r] = "running" /\ run[s] = "running" /\ taskOf[r] = taskOf[s] => r = s
  /\ \A t \in Task : status[t] = "running" => \E r \in Run : run[r] = "running" /\ taskOf[r] = t

(* Worktrees: a task that never ran has none, nor has one whose removal is *)
(* behind the request that deletes it, unless that did not find it.        *)
Emptied(o, t) == \/ at[o] = "removing" /\ t \notin left[o]
                 \/ at[o] = "saving" /\ kind[o] \in {"delete", "deleteProject"}
                 \/ at[o] = "sweeping"
TreesMatch ==
  /\ \A t \in Task : status[t] \in {"none", "backlog"} => git[t].tree = "none"
  /\ \A t \in Task : status[t] = "deleted" => git[t].tree = "none" \/ Lost(t)
  /\ \A o \in Op : \A t \in TasksOfOp(o) : Emptied(o, t) => git[t].tree = "none" \/ ~Finds(o, t)

IInv ==
  /\ TypeOK
  /\ \A o \in Op : RequestAt(o)
  /\ ClaimHasHandle
  /\ OneHolder
  /\ SweptIsGone
  /\ StaleHolds
  /\ HeldExists
  /\ HeldIsQuiet
  /\ HandlesMatch
  /\ CapKept
  /\ RowsMatch
  /\ TreesMatch
  /\ SnapshotCurrent
-----------------------------------------------------------------------------
(* What the repository says and the code does not do. *)

(* "Only done tasks can be archived." (agent-tasks.ts:247) *)
ArchivedIsDone == \A t \in Task : Exists(t) /\ archived[t] => status[t] = "done"

(* "A failed start must leave the task in its previous usable state."      *)
(* (improvement.md:21): a task that could be prepared still can.           *)
StaysStartable ==
  [][\A t \in Task : Exists(t) /\ CanPrepare(git[t], sha[t], Mode[t])
                       => CanPrepare(git'[t], sha'[t], Mode[t])]_vars
=============================================================================
