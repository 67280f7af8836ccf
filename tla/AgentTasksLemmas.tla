-------------------------- MODULE AgentTasksLemmas --------------------------
(***************************************************************************)
(* Lemmas about AgentTasks: what its steps do to types and to requests.    *)
(***************************************************************************)
EXTENDS AgentTasks, TLAPS

(* The locals of requests, without what a renaming makes stale. *)
Locals == <<at, kind, target, force, left>>

(* The git operators of TaskWorktree give worktrees.                       *)
LEMMA WorktreeType ==
  ASSUME NEW w \in Worktree
  PROVE  /\ Prepared(w) \in Worktree /\ Edited(w) \in Worktree
         /\ Committed(w) \in Worktree /\ CommittedInPart(w) \in Worktree
         /\ Pushed(w) \in Worktree /\ Removed(w) \in Worktree
         /\ Cloned(w) \in Worktree /\ Swept(w) \in Worktree
BY DEF Worktree, Prepared, Edited, Committed, CommittedInPart, Pushed, Removed, Cloned, Swept

(* What a run finds is a worktree. *)
LEMMA ViewType ==
  ASSUME git \in [Task -> Worktree], NEW r \in Run, taskOf[r] \in Task
  PROVE  View(r) \in Worktree /\ Prepared(View(r)) \in Worktree
<1>1. View(r) \in Worktree
  BY WorktreeType DEF View, Tree
<1>. QED  BY <1>1, WorktreeType

(* The same of a removal that fails halfway. *)
LEMMA HalfCleanedType ==
  ASSUME git \in [Task -> Worktree], NEW x, NEW t \in Task, HalfCleaned(x, t)
  PROVE  git' \in [Task -> Worktree]
<1>1. CASE UNCHANGED git
  BY <1>1
<1>2. CASE git' = [git EXCEPT ![t] = Removed(@)]
  BY <1>2, WorktreeType
<1>. QED  BY <1>1, <1>2 DEF HalfCleaned

(* Only Removed takes a checkout away. *)
LEMMA TreesStay ==
  ASSUME NEW w \in Worktree, w.tree # "none"
  PROVE  /\ Prepared(w).tree # "none" /\ Edited(w).tree # "none" /\ Committed(w).tree # "none"
         /\ CommittedInPart(w).tree # "none" /\ Pushed(w).tree # "none"
BY DEF Worktree, Prepared, Edited, Committed, CommittedInPart, Pushed

(* The tasks a request works on belong to the project whose lock it takes. *)
LEMMA TasksOfRequest ==
  ASSUME NEW o \in Op, RequestAt(o), at[o] # "idle"
  PROVE  TasksOfOp(o) \subseteq Task /\ \A t \in TasksOfOp(o) : ProjectOf[t] = ProjectKey(o)
BY DEF RequestAt, TasksOfOp, TasksOf, ProjectKey

(* The types that a renaming of a project's folder disturbs. *)
LEMMA RenameType ==
  ASSUME TypeOK, NEW j \in Project, RenameFolder(j)
  PROVE  TypeOK'
<1> USE DEF TypeOK, taskVars, runVars
<1>1. git' \in [Task -> Worktree]
  <2>1. ASSUME NEW w \in Worktree, NEW b \in BOOLEAN PROVE [w EXCEPT !.away = @ \/ b] \in Worktree
    BY DEF Worktree
  <2>2. \A t \in Task : (t \in TasksOf(j) /\ Exists(t)) \in BOOLEAN
    BY DEF Exists
  <2>. QED  BY <2>1, <2>2 DEF RenameFolder
<1>2. stale' \subseteq Run \cup Op
  BY DEF RenameFolder
<1>. QED  BY <1>1, <1>2 DEF RenameFolder

(* Every action keeps the types, given what requests and runs refer to.    *)
LEMMA TypeStep == TypeOK /\ (\A o \in Op : RequestAt(o)) /\ HandlesMatch /\ Next => TypeOK'
<1> SUFFICES ASSUME TypeOK, \A o \in Op : RequestAt(o), HandlesMatch, Next PROVE TypeOK'  OBVIOUS
<1> USE TaskAssumption, ProjectAssumption, AutoAssumption, KindsAssumption, RunAssumption
<1> USE DEF TypeOK, taskVars, runVars, opVars, Registered, Owning, Touching, Outcomes, TaskKinds

<1>1. ASSUME NEW t \in Task, Create(t) PROVE TypeOK'
  BY <1>1 DEF Create
<1>2. ASSUME NEW t \in Task, EditByHand(t) PROVE TypeOK'
  <2>1. git' \in [Task -> Worktree]
    BY <1>2, WorktreeType DEF EditByHand
  <2>. QED  BY <1>2, <2>1 DEF EditByHand
<1>3. ASSUME NEW o \in Op, RequestTask(o) PROVE TypeOK'
  BY <1>3 DEF RequestTask, Arrive
<1>4. ASSUME NEW o \in Op, RequestDeleteProject(o) PROVE TypeOK'
  BY <1>4 DEF RequestDeleteProject, Arrive
<1>5. ASSUME NEW o \in Op, Enter(o) PROVE TypeOK'
  <2>1. UNCHANGED <<taskVars, git, runVars, up>>  BY <1>5 DEF Enter
  <2>2. CASE Done(o)
    BY <2>1, <2>2 DEF Done, Goto
  <2>3. CASE /\ Goto(o, FirstStep(kind[o]))
             /\ left' = [left EXCEPT ![o] = {t \in TasksOfOp(o) : Exists(t)}]
             /\ UNCHANGED <<kind, target, force, stale>>
    <3>1. TasksOfOp(o) \subseteq Task
      BY <1>5, TasksOfRequest DEF Enter
    <3>. QED  BY <2>1, <2>3, <3>1 DEF Goto, FirstStep
  <2>. QED  BY <1>5, <2>2, <2>3 DEF Enter
<1>6. ASSUME NEW o \in Op, Fail(o) PROVE TypeOK'
  BY <1>6 DEF Fail, Done, Goto
<1>7. ASSUME NEW o \in Op, SaveUpdate(o) PROVE TypeOK'
  <2>1. PICK a \in AutoLevels : auto' = [auto EXCEPT ![target[o]] = a]
    BY <1>7 DEF SaveUpdate
  <2>2. auto' \in [Task -> 0..3]
    BY <2>1
  <2>. QED  BY <1>7, <2>2 DEF SaveUpdate, Done, Goto
<1>8. ASSUME NEW o \in Op, SaveArchived(o) PROVE TypeOK'
  BY <1>8 DEF SaveArchived, Done, Goto
<1>9. ASSUME NEW o \in Op, Commit(o) PROVE TypeOK'
  <2>1. PICK w \in {Committed(git[target[o]]), CommittedInPart(git[target[o]])} :
              git' = [git EXCEPT ![target[o]] = w]
    BY <1>9 DEF Commit
  <2>2. git' \in [Task -> Worktree]
    <3>1. target[o] \in Task  BY <1>9 DEF Commit, RequestAt
    <3>. QED  BY <3>1, <2>1, WorktreeType
  <2>. QED  BY <1>9, <2>2 DEF Commit, Done, Goto
<1>10. ASSUME NEW o \in Op, Push(o) PROVE TypeOK'
  BY <1>10, WorktreeType DEF Push, Step, Goto
<1>11. ASSUME NEW o \in Op, Preview(o) PROVE TypeOK'
  BY <1>11 DEF Preview, Step, Goto
<1>12. ASSUME NEW o \in Op, CleanPushed(o) PROVE TypeOK'
  BY <1>12, WorktreeType DEF CleanPushed, Step, Goto
<1>13. ASSUME NEW o \in Op, CleanPushedFails(o) PROVE TypeOK'
  <2>1. target[o] \in Task  BY <1>13 DEF CleanPushedFails, RequestAt
  <2>2. git' \in [Task -> Worktree]
    BY <1>13, <2>1, HalfCleanedType DEF CleanPushedFails
  <2>. QED  BY <1>13, <2>2 DEF CleanPushedFails, Step, Goto
<1>14. ASSUME NEW o \in Op, SavePushed(o) PROVE TypeOK'
  BY <1>14 DEF SavePushed, Done, Goto
<1>15. ASSUME NEW o \in Op, Remove(o) PROVE TypeOK'
  <2>1. PICK t \in left[o] : /\ left' = [left EXCEPT ![o] = @ \ {t}]
                             /\ UNCHANGED git \/ git' = [git EXCEPT ![t] = Removed(@)]
    BY <1>15 DEF Remove
  <2>2. git' \in [Task -> Worktree]
    BY <2>1, WorktreeType
  <2>. QED  BY <1>15, <2>1, <2>2 DEF Remove
<1>16. ASSUME NEW o \in Op, Prune(o) PROVE TypeOK'
  BY <1>16 DEF Prune, Step, Goto
<1>17. ASSUME NEW o \in Op, SaveCleaned(o) PROVE TypeOK'
  BY <1>17 DEF SaveCleaned, Done, Goto
<1>18. ASSUME NEW o \in Op, SaveDeleted(o) PROVE TypeOK'
  BY <1>18 DEF SaveDeleted, Done, Goto, DeleteRows
<1>19. ASSUME NEW o \in Op, SaveProjectDeleted(o) PROVE TypeOK'
  BY <1>19 DEF SaveProjectDeleted, Goto, DeleteRows
<1>20. ASSUME NEW o \in Op, Admit(o) PROVE TypeOK'
  BY <1>20 DEF Admit, Step, Goto, RequestAt
<1>21. ASSUME NEW o \in Op, Refuse(o) PROVE TypeOK'
  BY <1>21 DEF Refuse, Done, Goto
<1>22. ASSUME NEW o \in Op, Claim(o) PROVE TypeOK'
  BY <1>22 DEF Claim, Done, Goto
<1>23. ASSUME NEW o \in Op, ClaimFails(o) PROVE TypeOK'
  BY <1>23 DEF ClaimFails, Done, Goto, ReleaseHandle
<1>24. ASSUME NEW r \in Run, ReadTask(r) PROVE TypeOK'
  <2>1. stage' \in [Run -> {"new", "over"} \cup Registered]
    BY <1>24 DEF ReadTask, Turn
  <2>2. snap' \in [Run -> 0..3]
    BY <1>24 DEF ReadTask, HandlesMatch
  <2>. QED  BY <1>24, <2>1, <2>2 DEF ReadTask
<1>25. ASSUME NEW r \in Run, Prepare(r) PROVE TypeOK'
  <2>1. git' \in [Task -> Worktree]
    BY <1>25, ViewType DEF Prepare, SetTree, HandlesMatch
  <2>. QED  BY <1>25, <2>1 DEF Prepare, Go, Turn
<1>26. ASSUME NEW r \in Run, PrepareFailsHalfway(r) PROVE TypeOK'
  <2>1. git' \in [Task -> Worktree]
    BY <1>26, ViewType DEF PrepareFailsHalfway, SetTree, HandlesMatch
  <2>. QED  BY <1>26, <2>1 DEF PrepareFailsHalfway, End, Turn, Failure
<1>27. ASSUME NEW r \in Run, SaveWorktree(r) PROVE TypeOK'
  BY <1>27 DEF SaveWorktree, Go, Turn
<1>28. ASSUME NEW r \in Run, ProviderReturns(r) PROVE TypeOK'
  BY <1>28 DEF ProviderReturns, End, Go, Turn
<1>29. ASSUME NEW r \in Run, SetupFails(r) PROVE TypeOK'
  BY <1>29 DEF SetupFails, End, Turn, Failure
<1>30. ASSUME NEW r \in Run, AutoCommit(r) PROVE TypeOK'
  <2>1. git' \in [Task -> Worktree]
    BY <1>30, WorktreeType DEF AutoCommit, SetTree, Tree, HandlesMatch
  <2>2. stage' \in [Run -> {"new", "over"} \cup Registered]
    BY <1>30 DEF AutoCommit, End, Go, Turn
  <2>3. outcome' \in [Run -> Outcomes]
    BY <1>30 DEF AutoCommit, End, Go
  <2>4. UNCHANGED <<taskVars, run, taskOf, active, abort, snap, opVars, up>>
    BY <1>30 DEF AutoCommit, End, Go
  <2>. QED  BY <2>1, <2>2, <2>3, <2>4
<1>31. ASSUME NEW r \in Run, AutoPush(r) PROVE TypeOK'
  BY <1>31, WorktreeType DEF AutoPush, Go, Turn, SetTree, Tree
<1>32. ASSUME NEW r \in Run, AutoCheck(r) PROVE TypeOK'
  BY <1>32 DEF AutoCheck, End, Go, Turn
<1>33. ASSUME NEW r \in Run, AutoClean(r) PROVE TypeOK'
  BY <1>33, WorktreeType DEF AutoClean, End, Turn, SetTree, Tree
<1>34. ASSUME NEW r \in Run, AutoFails(r) PROVE TypeOK'
  <2>1. taskOf[r] \in Task  BY <1>34 DEF AutoFails, HandlesMatch
  <2>2. git' \in [Task -> Worktree]
    BY <1>34, <2>1, HalfCleanedType DEF AutoFails
  <2>. QED  BY <1>34, <2>2 DEF AutoFails, End, Turn
<1>35. ASSUME NEW r \in Run, ReconcileTerminalRun(r) PROVE TypeOK'
  BY <1>35 DEF ReconcileTerminalRun, Turn, WriteTerminalRunState, RunStatusOf, TaskStatusOf
<1>36. ASSUME NEW r \in Run, Complete(r) PROVE TypeOK'
  <2>1. stage' \in [Run -> {"new", "over"} \cup Registered]
    BY <1>36 DEF Complete, Turn
  <2>2. active' \in [Task -> Run \cup {NoRun}]
    BY <1>36 DEF Complete, ReleaseHandle
  <2>3. snap' \in [Run -> 0..3] /\ outcome' \in [Run -> Outcomes] /\ abort' \in [Run -> BOOLEAN]
    BY <1>36 DEF Complete
  <2>4. stale' \subseteq Run \cup Op
    BY <1>36 DEF Complete
  <2>. QED  BY <1>36, <2>1, <2>2, <2>3, <2>4 DEF Complete
<1>37. ASSUME NEW r \in Run, Abort(r) PROVE TypeOK'
  BY <1>37 DEF Abort
<1>38. ASSUME NEW r \in Run, Work(r) PROVE TypeOK'
  <2>1. PICK w \in {Edited(git[taskOf[r]]), Committed(git[taskOf[r]])} :
              git' = [git EXCEPT ![taskOf[r]] = w]
    BY <1>38 DEF Work, SetTree, Tree
  <2>2. git' \in [Task -> Worktree]
    <3>1. taskOf[r] \in Task  BY <1>38 DEF Work, HandlesMatch
    <3>. QED  BY <3>1, <2>1, WorktreeType
  <2>. QED  BY <1>38, <2>2 DEF Work
<1>39. ASSUME NEW r \in Run, Recover(r) PROVE TypeOK'
  BY <1>39 DEF Recover, Recovered, Interrupted
<1>40. CASE ArchiveCompleted
  BY <1>40 DEF ArchiveCompleted
<1>41. CASE Crash
  <2>1. stage' \in [Run -> {"new", "over"} \cup Registered] /\ active' \in [Task -> Run \cup {NoRun}]
    BY <1>41 DEF Crash
  <2>2. abort' \in [Run -> BOOLEAN] /\ snap' \in [Run -> 0..3] /\ outcome' \in [Run -> Outcomes]
    BY <1>41 DEF Crash
  <2>3. at' \in [Op -> {"idle"}] /\ kind' \in [Op -> TaskKinds] /\ target' \in [Op -> {NoTarget}]
       /\ force' \in [Op -> BOOLEAN] /\ left' \in [Op -> SUBSET Task]
    BY <1>41 DEF Crash
  <2>4. up' \in BOOLEAN /\ stale' = {} /\ UNCHANGED <<taskVars, git, run, taskOf>>
    BY <1>41 DEF Crash
  <2>. QED  BY <1>41, <2>1, <2>2, <2>3, <2>4 DEF TypeOK
<1>42. CASE Listen
  BY <1>42 DEF Listen
<1>43. ASSUME NEW j \in Project, RenameFolder(j) PROVE TypeOK'
  BY <1>43, RenameType
<1>44. ASSUME NEW o \in Op, Sweep(o) PROVE TypeOK'
  <2>1. git' \in [Task -> Worktree]
    BY <1>44, WorktreeType DEF Sweep
  <2>. QED  BY <1>44, <2>1 DEF Sweep, Done, Goto
<1>. QED  BY <1>1, <1>2, <1>3, <1>4, <1>5, <1>6, <1>7, <1>8, <1>9, <1>10, <1>11, <1>12, <1>13, <1>14,
          <1>15, <1>16, <1>17, <1>18, <1>19, <1>20, <1>21, <1>22, <1>23, <1>24, <1>25, <1>26, <1>27,
          <1>28, <1>29, <1>30, <1>31, <1>32, <1>33, <1>34, <1>35, <1>36, <1>37, <1>38, <1>39, <1>40,
          <1>41, <1>42, <1>43, <1>44 DEF Next, RequestStep, RunStep

(* A request that holds the lock after a step held it before, or has just  *)
(* entered; its kind and target are what they were.                        *)
LEMMA HolderStep ==
  ASSUME TypeOK, Next, NEW x \in Op, Holds(x)'
  PROVE  /\ kind'[x] = kind[x] /\ target'[x] = target[x]
         /\ Holds(x) \/ (Enter(x) /\ MayProceed(x))
<1> USE DEF TypeOK, Holds, taskVars, runVars, opVars, Goto, Step, Done, Locals
<1> DEFINE G == /\ kind'[x] = kind[x] /\ target'[x] = target[x]
                /\ Holds(x) \/ (Enter(x) /\ MayProceed(x))
<1>1. ASSUME NEW t \in Task, Create(t) \/ EditByHand(t) PROVE G
  BY <1>1 DEF Create, EditByHand
<1>2. ASSUME NEW r \in Run, RunStep(r) \/ Abort(r) \/ Work(r) \/ Recover(r) PROVE UNCHANGED Locals
  BY <1>2 DEF RunStep, ReadTask, Prepare, PrepareFailsHalfway, SaveWorktree, ProviderReturns, SetupFails,
       AutoCommit, AutoPush, AutoCheck, AutoClean, AutoFails, ReconcileTerminalRun, Complete, Abort, Work, Recover
<1>3. ASSUME NEW o \in Op, RequestTask(o) \/ RequestDeleteProject(o) PROVE G
  BY <1>3 DEF RequestTask, RequestDeleteProject, Arrive
<1>4. ASSUME NEW o \in Op, Enter(o) PROVE G
  BY <1>4 DEF Enter
<1>5. ASSUME NEW o \in Op, \/ Fail(o) \/ SaveUpdate(o) \/ SaveArchived(o) \/ Commit(o) \/ SavePushed(o)
                            \/ SaveCleaned(o) \/ SaveDeleted(o) \/ Sweep(o)
                            \/ Refuse(o) \/ Claim(o) \/ ClaimFails(o)
      PROVE  G
  <2>1. Done(o)
    BY <1>5 DEF Fail, SaveUpdate, SaveArchived, Commit, SavePushed, SaveCleaned, SaveDeleted,
         Sweep, Refuse, Claim, ClaimFails
  <2>. QED  BY <2>1
<1>6. ASSUME NEW o \in Op, \/ Push(o) \/ Preview(o) \/ CleanPushed(o) \/ CleanPushedFails(o)
                            \/ Remove(o) \/ Prune(o) \/ SaveProjectDeleted(o) \/ Admit(o)
      PROVE  G
  BY <1>6 DEF Push, Preview, CleanPushed, CleanPushedFails, Remove, Prune, SaveProjectDeleted, Admit
<1>7. CASE ArchiveCompleted \/ Crash \/ Listen \/ \E j \in Project : RenameFolder(j)
  BY <1>7 DEF ArchiveCompleted, Crash, Listen, RenameFolder
<1>. QED  BY <1>1, <1>2, <1>3, <1>4, <1>5, <1>6, <1>7 DEF Next, RequestStep

(* The folders that are removed are those of the project just deleted.     *)
LEMMA SweeperStep ==
  ASSUME TypeOK, Next, NEW x \in Op, at'[x] = "sweeping"
  PROVE  /\ kind'[x] = kind[x] /\ target'[x] = target[x]
         /\ at[x] = "sweeping" \/ SaveProjectDeleted(x)
<1> USE DEF TypeOK, taskVars, runVars, opVars, Goto, Step, Done, Locals
<1> DEFINE G == /\ kind'[x] = kind[x] /\ target'[x] = target[x]
                /\ at[x] = "sweeping" \/ SaveProjectDeleted(x)
<1>1. ASSUME NEW t \in Task, Create(t) \/ EditByHand(t) PROVE G
  BY <1>1 DEF Create, EditByHand
<1>2. ASSUME NEW r \in Run, RunStep(r) \/ Abort(r) \/ Work(r) \/ Recover(r) PROVE UNCHANGED Locals
  BY <1>2 DEF RunStep, ReadTask, Prepare, PrepareFailsHalfway, SaveWorktree, ProviderReturns, SetupFails,
       AutoCommit, AutoPush, AutoCheck, AutoClean, AutoFails, ReconcileTerminalRun, Complete, Abort, Work, Recover
<1>3. ASSUME NEW o \in Op, RequestTask(o) \/ RequestDeleteProject(o) PROVE G
  BY <1>3 DEF RequestTask, RequestDeleteProject, Arrive
<1>4. ASSUME NEW o \in Op, Enter(o) PROVE G
  BY <1>4 DEF Enter, FirstStep
<1>5. ASSUME NEW o \in Op, \/ Fail(o) \/ SaveUpdate(o) \/ SaveArchived(o) \/ Commit(o) \/ SavePushed(o)
                            \/ SaveCleaned(o) \/ SaveDeleted(o) \/ Sweep(o)
                            \/ Refuse(o) \/ Claim(o) \/ ClaimFails(o)
      PROVE  G
  <2>1. Done(o)
    BY <1>5 DEF Fail, SaveUpdate, SaveArchived, Commit, SavePushed, SaveCleaned, SaveDeleted,
         Sweep, Refuse, Claim, ClaimFails
  <2>. QED  BY <2>1
<1>6. ASSUME NEW o \in Op, \/ Push(o) \/ Preview(o) \/ CleanPushed(o) \/ CleanPushedFails(o)
                            \/ Remove(o) \/ Prune(o) \/ Admit(o)
      PROVE  G
  <2>1. UNCHANGED <<kind, target>> /\ \A y \in Op \ {o} : at'[y] = at[y]
    BY <1>6 DEF Push, Preview, CleanPushed, CleanPushedFails, Remove, Prune, Admit
  <2>2. at'[o] # "sweeping"
    BY <1>6 DEF Push, Preview, CleanPushed, CleanPushedFails, Remove, Prune, Admit
  <2>. QED  BY <2>1, <2>2
<1>7. CASE ArchiveCompleted \/ Crash \/ Listen \/ \E j \in Project : RenameFolder(j)
  BY <1>7 DEF ArchiveCompleted, Crash, Listen, RenameFolder
<1>8. ASSUME NEW o \in Op, SaveProjectDeleted(o) PROVE G
  BY <1>8 DEF SaveProjectDeleted
<1>. QED  BY <1>1, <1>2, <1>3, <1>4, <1>5, <1>6, <1>7, <1>8 DEF Next, RequestStep

(* Only a claim makes a task running. *)
LEMMA ClaimStep ==
  ASSUME TypeOK, Next, NEW t \in Task, status'[t] = "running", status[t] # "running"
  PROVE  \E o \in Op : Claim(o) /\ target[o] = t
<1> USE DEF TypeOK, taskVars
<1> DEFINE G == \E o \in Op : Claim(o) /\ target[o] = t
<1>1. ASSUME NEW u \in Task, Create(u) \/ EditByHand(u) PROVE FALSE
  BY <1>1 DEF Create, EditByHand
<1>2. ASSUME NEW r \in Run, RunStep(r) \/ Abort(r) \/ Work(r) \/ Recover(r) PROVE FALSE
  <2>1. \/ UNCHANGED status
        \/ \E s \in {"review", "done"} : status' = [status EXCEPT ![taskOf[r]] = s]
    BY <1>2 DEF RunStep, ReadTask, Prepare, PrepareFailsHalfway, SaveWorktree, ProviderReturns, SetupFails,
         AutoCommit, AutoPush, AutoCheck, AutoClean, AutoFails, ReconcileTerminalRun, Complete, Abort, Work,
         Recover, Recovered, WriteTerminalRunState, TaskStatusOf
  <2>. QED  BY <2>1
<1>3. ASSUME NEW o \in Op, RequestTask(o) \/ RequestDeleteProject(o) PROVE FALSE
  BY <1>3 DEF RequestTask, RequestDeleteProject, Arrive
<1>4. ASSUME NEW o \in Op, \/ Enter(o) \/ Fail(o) \/ SaveUpdate(o) \/ SaveArchived(o) \/ Commit(o) \/ Push(o)
                            \/ Preview(o) \/ CleanPushed(o) \/ CleanPushedFails(o) \/ Remove(o) \/ Prune(o)
                            \/ SaveCleaned(o) \/ Sweep(o) \/ Admit(o) \/ Refuse(o) \/ ClaimFails(o)
      PROVE  FALSE
  BY <1>4 DEF Enter, Fail, SaveUpdate, SaveArchived, Commit, Push, Preview, CleanPushed, CleanPushedFails,
       Remove, Prune, SaveCleaned, Sweep, Admit, Refuse, ClaimFails
<1>5. ASSUME NEW o \in Op, SavePushed(o) \/ SaveDeleted(o) \/ SaveProjectDeleted(o) PROVE FALSE
  BY <1>5 DEF SavePushed, SaveDeleted, SaveProjectDeleted, DeleteRows
<1>6. ASSUME NEW o \in Op, Claim(o) PROVE G
  BY <1>6 DEF Claim
<1>7. CASE ArchiveCompleted \/ Crash \/ Listen \/ \E j \in Project : RenameFolder(j)
  BY <1>7 DEF ArchiveCompleted, Crash, Listen, RenameFolder
<1>. QED  BY <1>1, <1>2, <1>3, <1>4, <1>5, <1>6, <1>7 DEF Next, RequestStep

(* A request enters only when nobody holds its project: still one holder.  *)
LEMMA OneHolderStep ==
  ASSUME TypeOK, \A o \in Op : RequestAt(o), OneHolder, Next
  PROVE  OneHolder'
<1> SUFFICES ASSUME NEW o \in Op, NEW p \in Op, Holds(o)', Holds(p)', (ProjectKey(o) = ProjectKey(p))', o # p
             PROVE  FALSE
  BY DEF OneHolder
<1>1. ProjectKey(o)' = ProjectKey(o) /\ ProjectKey(p)' = ProjectKey(p)
  BY HolderStep DEF ProjectKey
<1>2. ASSUME NEW x \in Op, NEW y \in Op, Enter(x), x # y, Holds(y)', ProjectKey(x) = ProjectKey(y) PROVE FALSE
  <2>1. at'[y] = at[y]
    BY <1>2 DEF Enter, Goto, Done, TypeOK
  <2>. QED  BY <1>2, <2>1 DEF Holds, Enter, LockFree
<1>3. Holds(o) /\ Holds(p)
  BY HolderStep, <1>1, <1>2
<1>. QED  BY <1>1, <1>3 DEF OneHolder

(* A task becomes running only by the claim of the holder of its project.  *)
LEMMA HeldIsQuietStep ==
  ASSUME TypeOK, \A o \in Op : RequestAt(o), OneHolder, HeldIsQuiet, Next
  PROVE  HeldIsQuiet'
<1> SUFFICES ASSUME NEW o \in Op, Holds(o)', NEW t \in TasksOfOp(o)', status'[t] = "running"
             PROVE  FALSE
  BY DEF HeldIsQuiet
<1>1. TasksOfOp(o)' = TasksOfOp(o)
  BY HolderStep DEF TasksOfOp, TasksOf
<1>2. at[o] # "idle" /\ t \in Task /\ ProjectOf[t] = ProjectKey(o)
  <2>1. at[o] # "idle"  BY HolderStep DEF Holds, Enter
  <2>. QED  BY <1>1, <2>1, TasksOfRequest
<1>3. status[t] # "running"
  <2>1. CASE Holds(o)
    BY <1>1, <2>1 DEF HeldIsQuiet
  <2>2. CASE MayProceed(o)
    BY <1>1, <2>2 DEF MayProceed, TasksOfOp
  <2>. QED  BY <2>1, <2>2, HolderStep
<1>4. PICK p \in Op : Claim(p) /\ target[p] = t
  BY <1>2, <1>3, ClaimStep
<1>5. kind[p] = "start" /\ Holds(p)
  BY <1>4 DEF Claim, RequestAt, Holds
<1>6. ~ Enter(o)
  BY <1>4 DEF Claim, Enter, Done, Goto, TypeOK
<1>7. Holds(o)
  BY <1>6, HolderStep
<1>8. o = p
  BY <1>2, <1>4, <1>5, <1>7 DEF OneHolder, ProjectKey
<1>. QED  BY <1>4, <1>8 DEF Claim, Done, Goto, Holds, TypeOK

(* Steps that are not a request's leave the requests alone. *)
LEMMA OtherStep ==
  ASSUME Next, ~ UNCHANGED Locals
  PROVE  Crash \/ \E o \in Op : RequestTask(o) \/ RequestDeleteProject(o) \/ RequestStep(o)
<1> USE DEF Locals, opVars
<1>1. ASSUME NEW t \in Task, Create(t) \/ EditByHand(t) PROVE FALSE
  BY <1>1 DEF Create, EditByHand
<1>2. ASSUME NEW r \in Run, RunStep(r) \/ Abort(r) \/ Work(r) \/ Recover(r) PROVE FALSE
  BY <1>2 DEF RunStep, ReadTask, Prepare, PrepareFailsHalfway, SaveWorktree, ProviderReturns, SetupFails,
       AutoCommit, AutoPush, AutoCheck, AutoClean, AutoFails, ReconcileTerminalRun, Complete, Abort, Work, Recover
<1>3. CASE ArchiveCompleted \/ Listen \/ \E j \in Project : RenameFolder(j)
  BY <1>3 DEF ArchiveCompleted, Listen, RenameFolder
<1>. QED  BY <1>1, <1>2, <1>3 DEF Next

(* The process dies and listens again by these two actions only.           *)
LEMMA UpStep == Next => Crash \/ Listen \/ UNCHANGED up
BY DEF Next, Create, EditByHand, RequestTask, RequestDeleteProject, Arrive, RequestStep, Enter, Fail, SaveUpdate,
   SaveArchived, Commit, Push, Preview, CleanPushed, CleanPushedFails, SavePushed, Remove, Prune, SaveCleaned,
   SaveDeleted, SaveProjectDeleted, Sweep, RenameFolder, Admit, Refuse, Claim, ClaimFails, RunStep, ReadTask, Prepare,
   PrepareFailsHalfway, SaveWorktree, ProviderReturns, SetupFails, AutoCommit, AutoPush, AutoCheck, AutoClean,
   AutoFails, ReconcileTerminalRun, Complete, Abort, Work, Recover, ArchiveCompleted

(* A request moves on before it answers: where to, and what it changes.   *)
Places == {"previewing", "cleaning", "saveDone", "saveReview", "claiming", "removing", "saving", "sweeping"}
MovesOn(o, place, S) ==
  /\ at' = [at EXCEPT ![o] = place] /\ left' = [left EXCEPT ![o] = S]
  /\ UNCHANGED <<kind, target, up>>
  /\ \/ kind[o] = "push" /\ place \in {"previewing", "cleaning", "saveDone", "saveReview"}
     \/ kind[o] = "start" /\ place = "claiming"
     \/ kind[o] \in {"delete", "cleanup", "deleteProject"} /\ place \in {"removing", "saving"}
     \/ kind[o] = "deleteProject" /\ place = "sweeping" /\ S = {}

(* A request that moves on keeps its kind and target, and removes only what is left. *)
LEMMA Advances ==
  ASSUME TypeOK, \A o \in Op : RequestAt(o), NEW o \in Op,
         \/ Push(o) \/ Preview(o) \/ CleanPushed(o) \/ CleanPushedFails(o) \/ Remove(o) \/ Prune(o)
         \/ SaveProjectDeleted(o) \/ Admit(o)
  PROVE  \E place \in Places, S \in SUBSET left[o] : MovesOn(o, place, S)
<1> USE DEF TypeOK, RequestAt, Step, Goto
<1>0. left = [left EXCEPT ![o] = left[o]] /\ at = [at EXCEPT ![o] = at[o]]
  OBVIOUS
<1>1. CASE Push(o)
  <2>1. MovesOn(o, "previewing", left[o])  BY <1>0, <1>1 DEF MovesOn, Push
  <2>. QED  BY <2>1 DEF Places
<1>2. CASE Preview(o)
  <2>1. \E place \in {"saveReview", "cleaning", "saveDone"} : MovesOn(o, place, left[o])
    BY <1>0, <1>2 DEF MovesOn, Preview
  <2>. QED  BY <2>1 DEF Places
<1>3. CASE CleanPushed(o)
  <2>1. MovesOn(o, "saveDone", left[o])  BY <1>0, <1>3 DEF MovesOn, CleanPushed
  <2>. QED  BY <2>1 DEF Places
<1>4. CASE CleanPushedFails(o)
  <2>1. MovesOn(o, "saveReview", left[o])  BY <1>0, <1>4 DEF MovesOn, CleanPushedFails
  <2>. QED  BY <2>1 DEF Places
<1>5. CASE Remove(o)
  <2>1. PICK t \in left[o] : left' = [left EXCEPT ![o] = @ \ {t}]
    BY <1>5 DEF Remove
  <2>2. MovesOn(o, "removing", left[o] \ {t})  BY <1>0, <1>5, <2>1 DEF MovesOn, Remove
  <2>. QED  BY <2>2 DEF Places
<1>6. CASE Prune(o)
  <2>1. MovesOn(o, "saving", left[o])  BY <1>0, <1>6 DEF MovesOn, Prune
  <2>. QED  BY <2>1 DEF Places
<1>7. CASE Admit(o)
  <2>1. MovesOn(o, "claiming", left[o])  BY <1>0, <1>7 DEF MovesOn, Admit
  <2>. QED  BY <2>1 DEF Places
<1>8. CASE SaveProjectDeleted(o)
  <2>1. MovesOn(o, "sweeping", {})  BY <1>8 DEF MovesOn, SaveProjectDeleted
  <2>. QED  BY <2>1 DEF Places
<1>. QED  BY <1>1, <1>2, <1>3, <1>4, <1>5, <1>6, <1>7, <1>8

(* Each place stays one of its kinds of request.                           *)
LEMMA RequestAtStep ==
  ASSUME TypeOK, \A o \in Op : RequestAt(o), Next, NEW x \in Op
  PROVE  RequestAt(x)'
<1> USE DEF TypeOK, RequestAt, taskVars, runVars, opVars, Locals, TasksOfOp, TasksOf, Holds, Goto, Step, Done
<1>1. CASE UNCHANGED Locals /\ ~ Crash
  <2>1. up => up'
    BY <1>1, UpStep DEF Listen
  <2>. QED  BY <1>1, <2>1
<1>2. CASE Crash
  BY <1>2 DEF Crash
<1>3. ASSUME NEW o \in Op, RequestTask(o) \/ RequestDeleteProject(o) PROVE RequestAt(x)'
  <2>1. PICK k \in TaskKinds \cup {"deleteProject"}, y \in Task \cup Project, f \in BOOLEAN :
              Arrive(o, k, y, f) /\ (IF k = "deleteProject" THEN y \in Project ELSE y \in Task)
    <3>1. CASE RequestTask(o)
      <4>1. PICK k \in Kinds \cap TaskKinds, t \in Task, f \in BOOLEAN : Arrive(o, k, t, f)
        BY <3>1 DEF RequestTask
      <4>2. k # "deleteProject"  BY DEF TaskKinds
      <4>. QED  BY <4>1, <4>2
    <3>2. CASE RequestDeleteProject(o)
      <4>1. PICK j \in Project : Arrive(o, "deleteProject", j, FALSE)
        BY <3>2 DEF RequestDeleteProject
      <4>. QED  BY <4>1
    <3>. QED  BY <1>3, <3>1, <3>2
  <2>2. at[o] = "idle" /\ up /\ left[o] = {}
    BY <1>3 DEF RequestTask, RequestDeleteProject
  <2>3. CASE x = o
    BY <2>1, <2>2, <2>3 DEF Arrive
  <2>4. CASE x # o
    BY <2>1, <2>4 DEF Arrive
  <2>. QED  BY <2>3, <2>4
<1>4. ASSUME NEW o \in Op, Enter(o) PROVE RequestAt(x)'
  <2>1. UNCHANGED up  BY <1>4 DEF Enter
  <2>2. CASE Done(o)
    BY <2>1, <2>2
  <2>3. CASE /\ Goto(o, FirstStep(kind[o]))
             /\ left' = [left EXCEPT ![o] = {t \in TasksOfOp(o) : Exists(t)}]
             /\ UNCHANGED <<kind, target, force, stale>>
    <3>1. at'[o] = FirstStep(kind[o])  BY <2>3
    <3>2. \/ kind[o] = "start" /\ at'[o] = "admitting"
          \/ kind[o] = "commit" /\ at'[o] = "committing"
          \/ kind[o] = "push" /\ at'[o] = "pushing"
          \/ at'[o] = "saving"
          \/ kind[o] \in {"delete", "cleanup", "deleteProject"} /\ at'[o] = "removing"
      BY <3>1 DEF FirstStep, TaskKinds
    <3>3. CASE x = o
      BY <1>4, <2>1, <2>3, <3>2, <3>3 DEF Enter
    <3>4. CASE x # o
      BY <2>1, <2>3, <3>4
    <3>. QED  BY <3>3, <3>4
  <2>. QED  BY <1>4, <2>2, <2>3 DEF Enter
<1>5. ASSUME NEW o \in Op, \/ Fail(o) \/ SaveUpdate(o) \/ SaveArchived(o) \/ Commit(o) \/ SavePushed(o)
                            \/ SaveCleaned(o) \/ SaveDeleted(o) \/ Sweep(o)
                            \/ Refuse(o) \/ Claim(o) \/ ClaimFails(o)
      PROVE  RequestAt(x)'
  <2>1. Done(o) /\ UNCHANGED up
    BY <1>5 DEF Fail, SaveUpdate, SaveArchived, Commit, SavePushed, SaveCleaned, SaveDeleted,
         Sweep, Refuse, Claim, ClaimFails
  <2>. QED  BY <2>1
<1>6. ASSUME NEW o \in Op, \/ Push(o) \/ Preview(o) \/ CleanPushed(o) \/ CleanPushedFails(o)
                            \/ Remove(o) \/ Prune(o) \/ SaveProjectDeleted(o) \/ Admit(o)
      PROVE  RequestAt(x)'
  <2>1. PICK place \in Places, S \in SUBSET left[o] : MovesOn(o, place, S)
    BY <1>6, Advances
  <2>2. at[o] \notin {"idle", "waiting"}
    BY <1>6 DEF Push, Preview, CleanPushed, CleanPushedFails, Remove, Prune, SaveProjectDeleted, Admit
  <2>3. CASE x # o
    BY <2>1, <2>3 DEF MovesOn
  <2>4. CASE x = o
    <3>1. at'[o] = place /\ left'[o] = S  BY <2>1 DEF MovesOn
    <3>2. up' = up /\ kind'[o] = kind[o] /\ target'[o] = target[o]  BY <2>1 DEF MovesOn
    <3>. QED  BY <2>1, <2>2, <2>4, <3>1, <3>2 DEF MovesOn
  <2>. QED  BY <2>3, <2>4
<1> HIDE DEF TypeOK, RequestAt, taskVars, runVars, opVars, Locals, TasksOfOp, TasksOf, Holds, Goto, Step, Done
<1>. QED  BY <1>1, <1>2, <1>3, <1>4, <1>5, <1>6, OtherStep DEF RequestStep

(* How a request comes to a place in the lock: it was there, it has just   *)
(* entered, or it has moved on.                                            *)
LEMMA PlaceStep ==
  ASSUME TypeOK, Next, NEW x \in Op, at'[x] \notin {"idle", "waiting"}
  PROVE  \/ at'[x] = at[x] /\ left'[x] = left[x]
         \/ /\ Enter(x) /\ MayProceed(x)
            /\ at'[x] = FirstStep(kind[x])
            /\ left'[x] = {t \in TasksOfOp(x) : Exists(t)}
         \/ Push(x) \/ Preview(x) \/ CleanPushed(x) \/ CleanPushedFails(x) \/ Remove(x) \/ Prune(x)
         \/ SaveProjectDeleted(x) \/ Admit(x)
<1> USE DEF TypeOK, opVars, Locals
<1> DEFINE Same == at'[x] = at[x] /\ left'[x] = left[x]
<1>1. CASE UNCHANGED Locals
  BY <1>1
<1>2. CASE Crash
  BY <1>2 DEF Crash
<1>3. ASSUME NEW o \in Op, RequestTask(o) \/ RequestDeleteProject(o) PROVE Same
  BY <1>3 DEF RequestTask, RequestDeleteProject, Arrive
<1>4. ASSUME NEW o \in Op, Enter(o), o # x PROVE Same
  BY <1>4 DEF Enter, Goto, Done
<1>5. ASSUME Enter(x)
      PROVE  MayProceed(x) /\ at'[x] = FirstStep(kind[x]) /\ left'[x] = {t \in TasksOfOp(x) : Exists(t)}
  BY <1>5 DEF Enter, Goto, Done
<1>6. ASSUME NEW o \in Op, \/ Fail(o) \/ SaveUpdate(o) \/ SaveArchived(o) \/ Commit(o) \/ SavePushed(o)
                            \/ SaveCleaned(o) \/ SaveDeleted(o) \/ Sweep(o)
                            \/ Refuse(o) \/ Claim(o) \/ ClaimFails(o)
      PROVE  Same
  <2>1. Done(o)
    BY <1>6 DEF Fail, SaveUpdate, SaveArchived, Commit, SavePushed, SaveCleaned, SaveDeleted,
         Sweep, Refuse, Claim, ClaimFails
  <2>. QED  BY <2>1 DEF Done, Goto
<1>7. ASSUME NEW o \in Op, o # x, \/ Push(o) \/ Preview(o) \/ CleanPushed(o) \/ CleanPushedFails(o)
                            \/ Remove(o) \/ Prune(o) \/ SaveProjectDeleted(o) \/ Admit(o)
      PROVE  Same
  BY <1>7 DEF Push, Preview, CleanPushed, CleanPushedFails, Remove, Prune, SaveProjectDeleted, Admit, Step, Goto
<1> HIDE DEF TypeOK, opVars, Locals
<1>. QED  BY <1>1, <1>2, <1>3, <1>4, <1>5, <1>6, <1>7, OtherStep DEF RequestStep

(* No step brings a project back. *)
LEMMA ProjectsShrink == Next => projects' \subseteq projects
BY DEF Next, Create, EditByHand, RequestTask, RequestDeleteProject, Arrive, RequestStep, Enter, Fail, SaveUpdate,
   SaveArchived, Commit, Push, Preview, CleanPushed, CleanPushedFails, SavePushed, Remove, Prune, SaveCleaned,
   SaveDeleted, SaveProjectDeleted, Sweep, RenameFolder, Admit, Refuse, Claim, ClaimFails, RunStep, ReadTask, Prepare,
   PrepareFailsHalfway, SaveWorktree, ProviderReturns, SetupFails, AutoCommit, AutoPush, AutoCheck, AutoClean,
   AutoFails, ReconcileTerminalRun, Complete, Abort, Work, Recover, ArchiveCompleted, Crash, Listen, taskVars

(* Only requests in the lock, or after it, have a project row from before  *)
(* its renaming, and only a renaming gives them one.                       *)
LEMMA StaleStep ==
  ASSUME TypeOK, StaleHolds, Next, NEW x \in Op, x \in stale'
  PROVE  /\ at'[x] \notin {"idle", "waiting"}
         /\ x \in stale \/ \E j \in Project : RenameFolder(j) /\ Holds(x) /\ ProjectKey(x) = j
<1> USE DEF TypeOK, taskVars, runVars, opVars, Goto, Step, Done, StaleHolds
<1> DEFINE G == /\ at'[x] \notin {"idle", "waiting"}
                /\ x \in stale
<1>1. ASSUME NEW t \in Task, Create(t) \/ EditByHand(t) PROVE G
  BY <1>1 DEF Create, EditByHand
<1>2. ASSUME NEW r \in Run, RunStep(r) \/ Abort(r) \/ Work(r) \/ Recover(r) PROVE G
  <2>1. UNCHANGED at /\ stale' \subseteq stale
    BY <1>2 DEF RunStep, ReadTask, Prepare, PrepareFailsHalfway, SaveWorktree, ProviderReturns, SetupFails,
         AutoCommit, AutoPush, AutoCheck, AutoClean, AutoFails, ReconcileTerminalRun, Complete, Abort, Work, Recover
  <2>. QED  BY <2>1
<1>3. ASSUME NEW o \in Op, RequestTask(o) \/ RequestDeleteProject(o) PROVE G
  BY <1>3 DEF RequestTask, RequestDeleteProject, Arrive
<1>4. ASSUME NEW o \in Op, Enter(o) PROVE G
  BY <1>4 DEF Enter, FirstStep
<1>5. ASSUME NEW o \in Op, \/ Fail(o) \/ SaveUpdate(o) \/ SaveArchived(o) \/ Commit(o) \/ SavePushed(o)
                            \/ SaveCleaned(o) \/ SaveDeleted(o) \/ Sweep(o)
                            \/ Refuse(o) \/ Claim(o) \/ ClaimFails(o)
      PROVE  G
  <2>1. Done(o)
    BY <1>5 DEF Fail, SaveUpdate, SaveArchived, Commit, SavePushed, SaveCleaned, SaveDeleted,
         Sweep, Refuse, Claim, ClaimFails
  <2>. QED  BY <2>1
<1>6. ASSUME NEW o \in Op, \/ Push(o) \/ Preview(o) \/ CleanPushed(o) \/ CleanPushedFails(o)
                            \/ Remove(o) \/ Prune(o) \/ SaveProjectDeleted(o) \/ Admit(o)
      PROVE  G
  <2>1. UNCHANGED stale /\ \A y \in Op \ {o} : at'[y] = at[y]
    BY <1>6 DEF Push, Preview, CleanPushed, CleanPushedFails, Remove, Prune, SaveProjectDeleted, Admit
  <2>2. at'[o] \notin {"idle", "waiting"}
    BY <1>6 DEF Push, Preview, CleanPushed, CleanPushedFails, Remove, Prune, SaveProjectDeleted, Admit
  <2>. QED  BY <2>1, <2>2
<1>7. CASE ArchiveCompleted \/ Crash \/ Listen
  BY <1>7 DEF ArchiveCompleted, Crash, Listen
<1>8. ASSUME NEW j \in Project, RenameFolder(j)
      PROVE  /\ at'[x] \notin {"idle", "waiting"}
             /\ x \in stale \/ (Holds(x) /\ ProjectKey(x) = j)
  <2>1. UNCHANGED at /\ (x \in stale \/ (Holds(x) /\ ProjectKey(x) = j))
    BY <1>8, RunAssumption DEF RenameFolder
  <2>. QED  BY <2>1 DEF Holds
<1>. QED  BY <1>1, <1>2, <1>3, <1>4, <1>5, <1>6, <1>7, <1>8 DEF Next, RequestStep
=============================================================================
