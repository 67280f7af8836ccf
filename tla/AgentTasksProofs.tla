-------------------------- MODULE AgentTasksProofs --------------------------
(***************************************************************************)
(* IInv of AgentTasks is inductive, and the properties follow from it.     *)
(* AgentTasksLemmas has the types and the part about requests; here are    *)
(* the parts about handles, rows, worktrees and the snapshot.              *)
(*                                                                         *)
(* AgentTasks implements RunLease.  The owner of a task is the run whose   *)
(* row is running; IInv says there is one exactly when the task is.  A     *)
(* claim is a grant, the end of a run and its recovery are returns, every  *)
(* other step leaves the leases alone.                                     *)
(***************************************************************************)
EXTENDS AgentTasksLemmas, FiniteSetTheorems

(* What a step of executeAgentRun does to ownership: nothing, unless it is *)
(* one of the last two.  Only ReadTask starts to use the worktree.         *)
LEMMA RunAdvances ==
  ASSUME TypeOK, NEW r \in Run, RunStep(r)
  PROVE  \/ Complete(r) \/ ReconcileTerminalRun(r)
         \/ /\ stage[r] \in Owning
            /\ \E s \in Owning : /\ stage' = [stage EXCEPT ![r] = s]
                                 /\ s \in Touching => ReadTask(r) \/ stage[r] \in Touching
            /\ ReadTask(r) \/ UNCHANGED snap
            /\ UNCHANGED <<run, taskOf, active, status, auto, Locals, up>>
<1> USE DEF TypeOK, Owning, Touching, Turn, Go, End, taskVars, opVars, Locals
<1>1. CASE ReadTask(r)
  BY <1>1 DEF ReadTask
<1>2. CASE Prepare(r) \/ PrepareFailsHalfway(r)
  BY <1>2 DEF Prepare, PrepareFailsHalfway
<1>3. CASE SaveWorktree(r) \/ SetupFails(r) \/ AutoFails(r)
  BY <1>3 DEF SaveWorktree, SetupFails, AutoFails
<1>4. CASE ProviderReturns(r)
  BY <1>4 DEF ProviderReturns
<1>5. CASE AutoCommit(r)
  BY <1>5 DEF AutoCommit
<1>6. CASE AutoCheck(r)
  BY <1>6 DEF AutoCheck
<1>7. CASE AutoPush(r) \/ AutoClean(r)
  BY <1>7 DEF AutoPush, AutoClean
<1>. QED  BY <1>1, <1>2, <1>3, <1>4, <1>5, <1>6, <1>7 DEF RunStep

(* Whose steps change handles and rows. *)
LEMMA OwnershipFrame ==
  ASSUME Next, ~ Crash, ~ \E o \in Op : Admit(o) \/ Claim(o) \/ ClaimFails(o), ~ \E r \in Run : RunStep(r)
  PROVE  UNCHANGED <<taskOf, active, stage, snap>>
<1>1. ASSUME NEW t \in Task, Create(t) \/ EditByHand(t) PROVE UNCHANGED <<taskOf, active, stage, snap>>
  BY <1>1 DEF Create, EditByHand, runVars
<1>2. ASSUME NEW r \in Run, Abort(r) \/ Work(r) \/ Recover(r) PROVE UNCHANGED <<taskOf, active, stage, snap>>
  BY <1>2 DEF Abort, Work, Recover, runVars
<1>3. ASSUME NEW o \in Op, RequestTask(o) \/ RequestDeleteProject(o) PROVE UNCHANGED <<taskOf, active, stage, snap>>
  BY <1>3 DEF RequestTask, RequestDeleteProject, Arrive, runVars
<1>4. ASSUME NEW o \in Op, \/ Enter(o) \/ Fail(o) \/ SaveUpdate(o) \/ SaveArchived(o) \/ Commit(o) \/ Push(o)
                            \/ Preview(o) \/ CleanPushed(o) \/ CleanPushedFails(o) \/ SavePushed(o) \/ Remove(o)
                            \/ Prune(o) \/ SaveCleaned(o) \/ Sweep(o) \/ Refuse(o)
      PROVE  UNCHANGED <<taskOf, active, stage, snap>>
  BY <1>4 DEF Enter, Fail, SaveUpdate, SaveArchived, Commit, Push, Preview, CleanPushed, CleanPushedFails,
       SavePushed, Remove, Prune, SaveCleaned, Sweep, Refuse, runVars
<1>5. ASSUME NEW o \in Op, SaveDeleted(o) \/ SaveProjectDeleted(o) PROVE UNCHANGED <<taskOf, active, stage, snap>>
  BY <1>5 DEF SaveDeleted, SaveProjectDeleted
<1>6. CASE ArchiveCompleted \/ Listen \/ \E j \in Project : RenameFolder(j)
  BY <1>6 DEF ArchiveCompleted, Listen, RenameFolder, runVars
<1>. QED  BY <1>1, <1>2, <1>3, <1>4, <1>5, <1>6 DEF Next, RequestStep

(* activeRuns and the registered runs stay inverse to each other.          *)
LEMMA HandlesMatchStep ==
  ASSUME TypeOK, \A o \in Op : RequestAt(o), ClaimHasHandle, HandlesMatch, Next
  PROVE  HandlesMatch'
<1> USE RunAssumption DEF TypeOK, Registered, Owning, Touching
<1>1. CASE UNCHANGED <<taskOf, active, stage>> /\ ~ Crash
  <2>1. up => up'
    BY <1>1, UpStep DEF Listen
  <2>. QED  BY <1>1, <2>1 DEF HandlesMatch
<1>2. CASE Crash
  BY <1>2 DEF Crash, HandlesMatch
<1>3. ASSUME NEW o \in Op, Admit(o) PROVE HandlesMatch'
  <2>1. target[o] \in Task /\ active[target[o]] = NoRun /\ up /\ up' = up
    BY <1>3 DEF Admit, RequestAt, Admissible
  <2>2. PICK r \in Run : /\ stage[r] = "new"
                         /\ active' = [active EXCEPT ![target[o]] = r]
                         /\ taskOf' = [taskOf EXCEPT ![r] = target[o]]
                         /\ stage' = [stage EXCEPT ![r] = "reserved"]
    BY <1>3 DEF Admit
  <2>3. ASSUME NEW t \in Task, active'[t] # NoRun
        PROVE  taskOf'[active'[t]] = t /\ stage'[active'[t]] \in Registered
    BY <2>1, <2>2, <2>3 DEF HandlesMatch
  <2>4. ASSUME NEW s \in Run, stage'[s] \in Registered
        PROVE  taskOf'[s] \in Task /\ active'[taskOf'[s]] = s
    BY <2>1, <2>2, <2>4 DEF HandlesMatch
  <2>. QED  BY <2>1, <2>3, <2>4 DEF HandlesMatch
<1>4. ASSUME NEW o \in Op, Claim(o) PROVE HandlesMatch'
  <2>1. target[o] \in Task /\ active[target[o]] \in Run /\ stage[active[target[o]]] = "reserved" /\ up'
    BY <1>4 DEF Claim, RequestAt, ClaimHasHandle
  <2>2. stage' = [stage EXCEPT ![active[target[o]]] = "starting"] /\ UNCHANGED <<active, taskOf>>
    BY <1>4 DEF Claim
  <2>. QED  BY <2>1, <2>2 DEF HandlesMatch
<1>5. ASSUME NEW o \in Op, ClaimFails(o) PROVE HandlesMatch'
  <2>1. target[o] \in Task /\ active[target[o]] \in Run /\ up'
    BY <1>5 DEF ClaimFails, RequestAt, ClaimHasHandle
  <2>2. /\ stage' = [stage EXCEPT ![active[target[o]]] = "over"]
        /\ active' = [active EXCEPT ![target[o]] = NoRun]
        /\ UNCHANGED taskOf
    BY <1>5 DEF ClaimFails, ReleaseHandle
  <2>. QED  BY <2>1, <2>2 DEF HandlesMatch
<1>6. ASSUME NEW r \in Run, RunStep(r) PROVE HandlesMatch'
  <2>1. CASE Complete(r)
    <3>1. taskOf[r] \in Task /\ active[taskOf[r]] = r /\ stage[r] = "posting"
      BY <2>1 DEF Complete, HandlesMatch
    <3>2. /\ stage' = [stage EXCEPT ![r] = "over"]
          /\ active' = [active EXCEPT ![taskOf[r]] = NoRun]
          /\ UNCHANGED <<taskOf, up>>
      BY <2>1, <3>1 DEF Complete, Turn, ReleaseHandle
    <3>. QED  BY <3>1, <3>2 DEF HandlesMatch
  <2>2. CASE ReconcileTerminalRun(r)
    <3>1. stage[r] = "ending" /\ stage' = [stage EXCEPT ![r] = "posting"] /\ UNCHANGED <<taskOf, active, up>>
      BY <2>2 DEF ReconcileTerminalRun, Turn
    <3>. QED  BY <3>1 DEF HandlesMatch
  <2>3. CASE ~ Complete(r) /\ ~ ReconcileTerminalRun(r)
    <3>1. PICK s \in Owning : stage[r] \in Owning /\ stage' = [stage EXCEPT ![r] = s] /\ UNCHANGED <<taskOf, active, up>>
      BY <1>6, <2>3, RunAdvances
    <3>. QED  BY <3>1 DEF HandlesMatch
  <2>. QED  BY <2>1, <2>2, <2>3
<1>. QED  BY <1>1, <1>2, <1>3, <1>4, <1>5, <1>6, OwnershipFrame
(* Only an admission adds a handle, and it has found room.                 *)
LEMMA CapKeptStep ==
  ASSUME TypeOK, \A o \in Op : RequestAt(o), HandlesMatch, CapKept, Next
  PROVE  CapKept'
<1> USE TaskAssumption, MaxActiveAssumption DEF TypeOK
<1>0. IsFiniteSet(Admitted) /\ Cardinality(Admitted) \in Nat
  BY FS_Subset, FS_CardinalityType DEF Admitted
<1>1. ASSUME Admitted' \subseteq Admitted PROVE CapKept'
  <2>1. Cardinality(Admitted') \in Nat /\ Cardinality(Admitted') <= Cardinality(Admitted)
    BY <1>0, <1>1, FS_Subset, FS_CardinalityType
  <2>. QED  BY <1>0, <2>1 DEF CapKept
<1>2. CASE UNCHANGED active
  BY <1>1, <1>2 DEF Admitted
<1>3. CASE Crash
  BY <1>1, <1>3 DEF Crash, Admitted
<1>4. ASSUME NEW o \in Op, Admit(o) PROVE CapKept'
  <2>1. target[o] \in Task
    BY <1>4 DEF Admit, RequestAt
  <2>2. Admitted' \subseteq Admitted \cup {target[o]}
    BY <1>4, <2>1 DEF Admit, Admitted
  <2>3. IsFiniteSet(Admitted \cup {target[o]}) /\ Cardinality(Admitted \cup {target[o]}) <= Cardinality(Admitted) + 1
    <3>1. /\ IsFiniteSet(Admitted \cup {target[o]})
          /\ Cardinality(Admitted \cup {target[o]})
               = IF target[o] \in Admitted THEN Cardinality(Admitted) ELSE Cardinality(Admitted) + 1
      BY <1>0, FS_AddElement
    <3>. QED  BY <1>0, <3>1
  <2>4. Cardinality(Admitted \cup {target[o]}) \in Nat
    BY <2>3, FS_CardinalityType
  <2>5. Cardinality(Admitted') \in Nat /\ Cardinality(Admitted') <= Cardinality(Admitted \cup {target[o]})
    BY <2>2, <2>3, FS_Subset, FS_CardinalityType
  <2>6. Cardinality(Admitted) < MaxActive
    BY <1>4 DEF Admit, Admissible
  <2>. QED  BY <1>0, <2>3, <2>4, <2>5, <2>6 DEF CapKept
<1>5. ASSUME NEW o \in Op, Claim(o) \/ ClaimFails(o) PROVE Admitted' \subseteq Admitted
  BY <1>5 DEF Claim, ClaimFails, ReleaseHandle, Admitted
<1>6. ASSUME NEW r \in Run, RunStep(r) PROVE Admitted' \subseteq Admitted
  <2>1. CASE Complete(r)
    BY <2>1 DEF Complete, ReleaseHandle, Admitted
  <2>2. CASE UNCHANGED active
    BY <2>2 DEF Admitted
  <2>. QED  BY <1>6, <2>1, <2>2, RunAdvances DEF ReconcileTerminalRun
<1> HIDE DEF TypeOK
<1>. QED  BY <1>1, <1>2, <1>3, <1>4, <1>5, <1>6, OwnershipFrame

(* The handle of a start in its transaction is touched by nobody else.     *)
LEMMA ClaimHasHandleStep ==
  ASSUME TypeOK, \A o \in Op : RequestAt(o), ClaimHasHandle, OneHolder, HandlesMatch, Next
  PROVE  ClaimHasHandle'
<1> USE RunAssumption DEF TypeOK, Registered, Owning, Touching
<1> SUFFICES ASSUME NEW p \in Op, at'[p] = "claiming"
             PROVE  active'[target'[p]] # NoRun /\ stage'[active'[target'[p]]] = "reserved"
  BY DEF ClaimHasHandle
<1>1. CASE Admit(p)
  <2>1. target[p] \in Task /\ UNCHANGED target
    BY <1>1 DEF Admit, RequestAt, Step
  <2>. QED  BY <1>1, <2>1 DEF Admit
<1>2. CASE ~ Admit(p)
  <2>1. at[p] = "claiming" /\ target'[p] = target[p] /\ target[p] \in Task /\ kind[p] = "start"
    <3>1. at[p] = "claiming"
      <4>1. kind[p] \in TaskKinds \cup {"deleteProject"} => FirstStep(kind[p]) # "claiming"
        BY DEF FirstStep
      <4>2. ASSUME \/ Push(p) \/ Preview(p) \/ CleanPushed(p) \/ CleanPushedFails(p) \/ Remove(p) \/ Prune(p)
                  \/ SaveProjectDeleted(p)
            PROVE  at'[p] # "claiming"
        BY <4>2 DEF Push, Preview, CleanPushed, CleanPushedFails, Remove, Prune, SaveProjectDeleted, Step, Goto
      <4>. QED  BY <1>2, <4>1, <4>2, PlaceStep
    <3>. QED  BY <3>1, HolderStep DEF Holds, RequestAt
  <2>2. PICK s \in Run : active[target[p]] = s /\ stage[s] = "reserved" /\ taskOf[s] = target[p]
    BY <2>1 DEF ClaimHasHandle, HandlesMatch
  <2>3. ASSUME NEW o \in Op, o # p, at[o] \in {"admitting", "claiming"} PROVE target[o] \in Task /\ target[o] # target[p]
    BY <2>1, <2>3 DEF OneHolder, Holds, ProjectKey, RequestAt
  <2>4. CASE UNCHANGED <<taskOf, active, stage>>
    BY <2>1, <2>2, <2>4
  <2>5. CASE Crash
    BY <2>5 DEF Crash
  <2>6. ASSUME NEW o \in Op, o # p, Admit(o) PROVE active'[target[p]] = s /\ stage'[s] = "reserved"
    <3>1. target[o] \in Task /\ target[o] # target[p]
      BY <2>3, <2>6 DEF Admit
    <3>. QED  BY <2>1, <2>2, <2>6, <3>1 DEF Admit
  <2>7. ASSUME NEW o \in Op, o # p, Claim(o) \/ ClaimFails(o) PROVE active'[target[p]] = s /\ stage'[s] = "reserved"
    <3>1. target[o] \in Task /\ target[o] # target[p] /\ at[o] = "claiming"
      BY <2>3, <2>7 DEF Claim, ClaimFails
    <3>2. active[target[o]] \in Run /\ active[target[o]] # s
      BY <2>2, <3>1 DEF ClaimHasHandle, HandlesMatch
    <3>. QED  BY <2>1, <2>2, <2>7, <3>1, <3>2 DEF Claim, ClaimFails, ReleaseHandle
  <2>8. ~ Claim(p) /\ ~ ClaimFails(p)
    BY DEF Claim, ClaimFails, Done, Goto
  <2>9. ASSUME NEW r \in Run, RunStep(r) PROVE active'[target[p]] = s /\ stage'[s] = "reserved"
    <3>1. CASE Complete(r)
      <4>1. taskOf[r] \in Task /\ r # s /\ taskOf[r] # target[p]
        BY <2>2, <3>1 DEF Complete, HandlesMatch
      <4>. QED  BY <2>1, <2>2, <3>1, <4>1 DEF Complete, Turn, ReleaseHandle
    <3>2. CASE ReconcileTerminalRun(r)
      BY <2>2, <3>2 DEF ReconcileTerminalRun, Turn
    <3>3. CASE ~ Complete(r) /\ ~ ReconcileTerminalRun(r)
      <4>1. PICK w \in Owning : stage[r] \in Owning /\ stage' = [stage EXCEPT ![r] = w] /\ UNCHANGED active
        BY <2>9, <3>3, RunAdvances
      <4>. QED  BY <2>2, <4>1
    <3>. QED  BY <3>1, <3>2, <3>3
  <2>. QED  BY <1>2, <2>1, <2>2, <2>4, <2>5, <2>6, <2>7, <2>8, <2>9, OwnershipFrame
<1>. QED  BY <1>1, <1>2
(* The steps that write neither rows nor stages.                           *)
LEMMA RowsFrame ==
  ASSUME Next, ~ Crash, ~ Listen, ~ \E t \in Task : Create(t), ~ \E r \in Run : RunStep(r) \/ Recover(r),
         ~ \E o \in Op : \/ SavePushed(o) \/ SaveDeleted(o) \/ SaveProjectDeleted(o)
                        \/ Admit(o) \/ Claim(o) \/ ClaimFails(o)
  PROVE  UNCHANGED <<status, run, taskOf, stage, up>>
<1>1. ASSUME NEW t \in Task, EditByHand(t) PROVE UNCHANGED <<status, run, taskOf, stage, up>>
  BY <1>1 DEF EditByHand, taskVars, runVars
<1>2. ASSUME NEW r \in Run, Abort(r) \/ Work(r) PROVE UNCHANGED <<status, run, taskOf, stage, up>>
  BY <1>2 DEF Abort, Work, taskVars, runVars
<1>3. ASSUME NEW o \in Op, RequestTask(o) \/ RequestDeleteProject(o) PROVE UNCHANGED <<status, run, taskOf, stage, up>>
  BY <1>3 DEF RequestTask, RequestDeleteProject, Arrive, taskVars, runVars
<1>4. ASSUME NEW o \in Op, \/ Enter(o) \/ Fail(o) \/ SaveUpdate(o) \/ SaveArchived(o) \/ Commit(o) \/ Push(o)
                            \/ Preview(o) \/ CleanPushed(o) \/ CleanPushedFails(o) \/ Remove(o)
                            \/ Prune(o) \/ SaveCleaned(o) \/ Sweep(o) \/ Refuse(o)
      PROVE  UNCHANGED <<status, run, taskOf, stage, up>>
  BY <1>4 DEF Enter, Fail, SaveUpdate, SaveArchived, Commit, Push, Preview, CleanPushed, CleanPushedFails,
       Remove, Prune, SaveCleaned, Sweep, Refuse, taskVars, runVars
<1>5. CASE ArchiveCompleted \/ \E j \in Project : RenameFolder(j)
  BY <1>5 DEF ArchiveCompleted, RenameFolder, taskVars, runVars
<1>. QED  BY <1>1, <1>2, <1>3, <1>4, <1>5 DEF Next, RequestStep

(* Rows of runs, rows of tasks and stages of executeAgentRun stay together. *)
LEMMA RowsMatchStep ==
  ASSUME TypeOK, \A o \in Op : RequestAt(o), ClaimHasHandle, HeldIsQuiet, HandlesMatch, RowsMatch, Next
  PROVE  RowsMatch'
<1> USE RunAssumption DEF TypeOK, Owning, Touching, taskVars, runVars
<1>1. CASE UNCHANGED <<status, run, taskOf, stage, up>>
  BY <1>1 DEF RowsMatch
<1>2. CASE Crash
  BY <1>2 DEF Crash, RowsMatch
<1>3. CASE Listen
  BY <1>3 DEF Listen, RecoveryIsOver, Interrupted, RowsMatch
<1>4. ASSUME NEW t \in Task, Create(t) PROVE RowsMatch'
  BY <1>4 DEF Create, RowsMatch
<1>5. ASSUME NEW o \in Op, SavePushed(o) PROVE RowsMatch'
  <2>1. target[o] \in Task /\ status[target[o]] # "running"
    BY <1>5 DEF SavePushed, RequestAt, HeldIsQuiet, Holds, TasksOfOp
  <2>2. PICK s \in {"done", "review"} : status' = [status EXCEPT ![target[o]] = s]
    BY <1>5 DEF SavePushed
  <2>3. UNCHANGED <<run, taskOf, stage, up>>
    BY <1>5 DEF SavePushed
  <2>. QED  BY <2>1, <2>2, <2>3 DEF RowsMatch
<1>6. ASSUME NEW o \in Op, SaveDeleted(o) \/ SaveProjectDeleted(o) PROVE RowsMatch'
  <2>1. \A t \in TasksOfOp(o) : t \in Task /\ status[t] # "running"
    BY <1>6, TasksOfRequest DEF SaveDeleted, SaveProjectDeleted, HeldIsQuiet, Holds
  <2>2. DeleteRows(TasksOfOp(o)) /\ UNCHANGED <<taskOf, stage, up>>
    BY <1>6 DEF SaveDeleted, SaveProjectDeleted, TasksOfOp
  <2>3. \A r \in Run : run[r] = "running" => run'[r] = "running"
    BY <2>1, <2>2 DEF DeleteRows, RowsMatch
  <2>4. \A r \in Run : (run'[r] = "running" => run[r] = "running") /\ (run[r] = "none" => run'[r] = "none")
    BY <2>2 DEF DeleteRows
  <2>5. \A t \in Task : status'[t] = "running" <=> status[t] = "running"
    BY <2>1, <2>2 DEF DeleteRows
  <2>. QED  BY <2>2, <2>3, <2>4, <2>5 DEF RowsMatch
<1>7. ASSUME NEW o \in Op, Admit(o) PROVE RowsMatch'
  <2>1. PICK r \in Run : /\ stage[r] = "new"
                         /\ taskOf' = [taskOf EXCEPT ![r] = target[o]]
                         /\ stage' = [stage EXCEPT ![r] = "reserved"]
    BY <1>7 DEF Admit
  <2>2. UNCHANGED <<run, status, up>>
    BY <1>7 DEF Admit
  <2>3. run[r] = "none"
    BY <2>1 DEF RowsMatch
  <2>. QED  BY <2>1, <2>2, <2>3 DEF RowsMatch
<1>8. ASSUME NEW o \in Op, Claim(o) PROVE RowsMatch'
  <2>1. PICK r \in Run : active[target[o]] = r /\ stage[r] = "reserved" /\ taskOf[r] = target[o]
    BY <1>8 DEF Claim, ClaimHasHandle, RequestAt, HandlesMatch
  <2>2. target[o] \in Task /\ status[target[o]] # "running" /\ up
    BY <1>8 DEF Claim, RequestAt
  <2>3. /\ status' = [status EXCEPT ![target[o]] = "running"]
        /\ run' = [run EXCEPT ![r] = "running"]
        /\ stage' = [stage EXCEPT ![r] = "starting"]
        /\ UNCHANGED <<taskOf, up>>
    BY <1>8, <2>1 DEF Claim
  <2>. QED  BY <2>1, <2>2, <2>3 DEF RowsMatch
<1>9. ASSUME NEW o \in Op, ClaimFails(o) PROVE RowsMatch'
  <2>1. PICK r \in Run : /\ stage[r] = "reserved"
                         /\ stage' = [stage EXCEPT ![r] = "over"]
                         /\ UNCHANGED <<run, status, taskOf, up>>
    <3>1. target[o] \in Task /\ at[o] = "claiming"
      BY <1>9 DEF ClaimFails, RequestAt
    <3>2. active[target[o]] \in Run /\ stage[active[target[o]]] = "reserved"
      BY <3>1 DEF ClaimHasHandle
    <3>. QED  BY <1>9, <3>2 DEF ClaimFails
  <2>. QED  BY <2>1 DEF RowsMatch
<1>10. ASSUME NEW r \in Run, RunStep(r) PROVE RowsMatch'
  <2>1. CASE Complete(r)
    BY <2>1 DEF Complete, Turn, RowsMatch
  <2>2. CASE ReconcileTerminalRun(r)
    <3>1. stage[r] = "ending" /\ taskOf[r] \in Task /\ run[r] = "running"
      BY <2>2 DEF ReconcileTerminalRun, RowsMatch
    <3>2. PICK v \in {"succeeded", "failed", "canceled"}, w \in {"review", "done"} :
                /\ run' = [run EXCEPT ![r] = v]
                /\ status' = [status EXCEPT ![taskOf[r]] = w]
      BY <2>2 DEF ReconcileTerminalRun, WriteTerminalRunState, RunStatusOf, TaskStatusOf
    <3>3. stage' = [stage EXCEPT ![r] = "posting"] /\ UNCHANGED <<taskOf, up>>
      BY <2>2 DEF ReconcileTerminalRun, Turn
    <3>. QED  BY <3>1, <3>2, <3>3 DEF RowsMatch
  <2>3. CASE ~ Complete(r) /\ ~ ReconcileTerminalRun(r)
    <3>1. PICK s \in Owning : /\ stage[r] \in Owning /\ stage' = [stage EXCEPT ![r] = s]
                              /\ UNCHANGED <<run, taskOf, status, up>>
      BY <1>10, <2>3, RunAdvances
    <3>. QED  BY <3>1 DEF RowsMatch
  <2>. QED  BY <2>1, <2>2, <2>3
<1>11. ASSUME NEW r \in Run, Recover(r) PROVE RowsMatch'
  <2>1. run[r] = "running" /\ ~ up /\ taskOf[r] \in Task
    BY <1>11 DEF Recover, Interrupted, RowsMatch
  <2>2. stage[r] \notin Owning
    BY <2>1 DEF HandlesMatch, Registered
  <2>3. /\ run' = [run EXCEPT ![r] = "failed"]
        /\ status' = [status EXCEPT ![taskOf[r]] = "done"]
        /\ UNCHANGED <<taskOf, stage, up>>
    BY <1>11 DEF Recover, Recovered
  <2>. QED  BY <2>1, <2>2, <2>3 DEF RowsMatch
<1> HIDE DEF TypeOK, Owning, Touching, taskVars, runVars
<1>. QED  BY <1>1, <1>2, <1>3, <1>4, <1>5, <1>6, <1>7, <1>8, <1>9, <1>10, <1>11, RowsFrame
(* A worktree appears only while a run prepares it. *)
LEMMA TreeStep ==
  ASSUME TypeOK, \A o \in Op : RequestAt(o), HandlesMatch, Next, NEW t \in Task,
         git[t].tree = "none", git'[t].tree # "none"
  PROVE  \E r \in Run : taskOf[r] = t /\ stage[r] = "preparing" /\ RunStep(r)
<1> USE DEF TypeOK, taskVars
<1>0. \A r \in Run : stage[r] \in Touching => taskOf[r] \in Task
  BY DEF HandlesMatch, Registered, Owning
<1>1. ASSUME NEW u \in Task, Create(u) \/ EditByHand(u) PROVE FALSE
  BY <1>1 DEF Create, EditByHand
<1>2. ASSUME NEW o \in Op, \/ RequestTask(o) \/ RequestDeleteProject(o) \/ Enter(o) \/ Fail(o) \/ SaveUpdate(o)
                            \/ SaveArchived(o) \/ Preview(o) \/ SavePushed(o) \/ Prune(o)
                            \/ SaveCleaned(o) \/ SaveDeleted(o) \/ SaveProjectDeleted(o) \/ Admit(o) \/ Refuse(o)
                            \/ Claim(o) \/ ClaimFails(o)
      PROVE  FALSE
  BY <1>2 DEF RequestTask, RequestDeleteProject, Arrive, Enter, Fail, SaveUpdate, SaveArchived, Preview,
       SavePushed, Prune, SaveCleaned, SaveDeleted, SaveProjectDeleted, Admit, Refuse, Claim,
       ClaimFails
<1>10. ASSUME NEW o \in Op, Sweep(o) PROVE FALSE
  BY <1>10 DEF Sweep, Swept, Worktree
<1>11. ASSUME NEW j \in Project, RenameFolder(j) PROVE FALSE
  BY <1>11 DEF RenameFolder, Worktree
<1>3. ASSUME NEW o \in Op, Commit(o) \/ Push(o) PROVE FALSE
  <2>1. git[target[o]].tree # "none" /\ \E w : git' = [git EXCEPT ![target[o]] = w]
    BY <1>3 DEF Commit, Push
  <2>. QED  BY <2>1
<1>4. ASSUME NEW o \in Op, CleanPushed(o) \/ CleanPushedFails(o) \/ Remove(o) PROVE FALSE
  <2>1. PICK u \in Task : UNCHANGED git \/ git' = [git EXCEPT ![u] = Removed(@)]
    BY <1>4 DEF CleanPushed, CleanPushedFails, HalfCleaned, Remove, RequestAt
  <2>2. Removed(git[u]).tree = "none"
    BY DEF Removed, Worktree
  <2>. QED  BY <2>1, <2>2
<1>5. ASSUME NEW r \in Run, Work(r) \/ AutoCommit(r) \/ AutoPush(r) PROVE FALSE
  <2>1. /\ git[taskOf[r]].tree # "none"
        /\ UNCHANGED git \/ \E w : git' = [git EXCEPT ![taskOf[r]] = w]
    BY <1>5 DEF Work, AutoCommit, AutoPush, SetTree, Tree
  <2>. QED  BY <2>1
<1>6. ASSUME NEW r \in Run, AutoClean(r) \/ AutoFails(r) PROVE FALSE
  <2>1. taskOf[r] \in Task /\ (UNCHANGED git \/ git' = [git EXCEPT ![taskOf[r]] = Removed(@)])
    BY <1>0, <1>6 DEF AutoClean, AutoFails, HalfCleaned, SetTree, Tree, Touching
  <2>2. Removed(git[taskOf[r]]).tree = "none"
    BY <2>1 DEF Removed, Worktree
  <2>. QED  BY <2>1, <2>2
<1>7. ASSUME NEW r \in Run, Prepare(r) \/ PrepareFailsHalfway(r)
      PROVE  taskOf[r] = t /\ stage[r] = "preparing" /\ RunStep(r)
  <2>1. /\ stage[r] = "preparing"
        /\ \E w : git' = [git EXCEPT ![taskOf[r]] = w]
    BY <1>7 DEF Prepare, PrepareFailsHalfway, SetTree
  <2>. QED  BY <1>7, <2>1 DEF RunStep
<1>8. ASSUME NEW r \in Run, \/ ReadTask(r) \/ SaveWorktree(r) \/ ProviderReturns(r) \/ SetupFails(r) \/ AutoCheck(r)
                            \/ ReconcileTerminalRun(r) \/ Complete(r) \/ Abort(r) \/ Recover(r)
      PROVE  FALSE
  BY <1>8 DEF ReadTask, SaveWorktree, ProviderReturns, SetupFails, AutoCheck, ReconcileTerminalRun,
       Complete, Abort, Recover
<1>9. CASE ArchiveCompleted \/ Crash \/ Listen
  BY <1>9 DEF ArchiveCompleted, Crash, Listen
<1> HIDE DEF TypeOK, taskVars
<1>. QED  BY <1>1, <1>2, <1>3, <1>4, <1>5, <1>6, <1>7, <1>8, <1>9, <1>10, <1>11 DEF Next, RequestStep, RunStep

(* Which tasks lose their row for good: those whose row a request deletes. *)
(* No step makes a task new, and none but its creation makes it idle.      *)
LEMMA StatusStep ==
  ASSUME TypeOK, Next, NEW t \in Task
  PROVE  /\ status'[t] = "none" => status[t] = "none"
         /\ status'[t] \in {"none", "backlog"} => status[t] \in {"none", "backlog"}
         /\ status'[t] = "deleted"
              => \/ status[t] = "deleted"
                 \/ \E o \in Op : (SaveDeleted(o) \/ SaveProjectDeleted(o)) /\ t \in TasksOfOp(o)
<1> USE DEF TypeOK, taskVars
<1> DEFINE G == /\ status'[t] = "none" => status[t] = "none"
                /\ status'[t] \in {"none", "backlog"} => status[t] \in {"none", "backlog"}
                /\ status'[t] = "deleted" => status[t] = "deleted"
<1>1. ASSUME NEW u \in Task, Create(u) PROVE G
  BY <1>1 DEF Create
<1>2. ASSUME UNCHANGED status PROVE G
  BY <1>2
<1>3. ASSUME NEW o \in Op, SavePushed(o) PROVE G
  BY <1>3 DEF SavePushed
<1>4. ASSUME NEW o \in Op, SaveDeleted(o) \/ SaveProjectDeleted(o)
      PROVE  /\ status'[t] = status[t] \/ (status'[t] = "deleted" /\ t \in TasksOfOp(o))
  BY <1>4 DEF SaveDeleted, SaveProjectDeleted, DeleteRows, TasksOfOp
<1>5. ASSUME NEW o \in Op, Claim(o) PROVE G
  BY <1>5 DEF Claim
<1>6. ASSUME NEW r \in Run, RunStep(r) PROVE G
  <2>1. CASE Complete(r)
    BY <2>1 DEF Complete
  <2>2. CASE ReconcileTerminalRun(r)
    BY <2>2 DEF ReconcileTerminalRun, WriteTerminalRunState, TaskStatusOf
  <2>3. CASE UNCHANGED status
    BY <2>3
  <2>. QED  BY <1>6, <2>1, <2>2, <2>3, RunAdvances
<1>7. ASSUME NEW r \in Run, Recover(r) PROVE G
  BY <1>7 DEF Recover, Recovered
<1>8. CASE Crash \/ Listen
  BY <1>8 DEF Crash, Listen
<1>9. ASSUME NEW o \in Op, Admit(o) \/ ClaimFails(o) PROVE G
  BY <1>9 DEF Admit, ClaimFails
<1> HIDE DEF TypeOK, taskVars
<1>. QED  BY <1>1, <1>2, <1>3, <1>4, <1>5, <1>6, <1>7, <1>8, <1>9, RowsFrame

(* A task comes into being only by its creation, in a project that is there. *)
LEMMA ExistsStep ==
  ASSUME TypeOK, \A o \in Op : RequestAt(o), HeldExists, RowsMatch, Next,
         NEW t \in Task, ~ Exists(t), Exists(t)'
  PROVE  ProjectOf[t] \in projects
<1> USE DEF TypeOK, taskVars, Exists
<1>1. ASSUME NEW u \in Task, Create(u) PROVE ProjectOf[t] \in projects
  BY <1>1 DEF Create
<1>2. ASSUME UNCHANGED status PROVE FALSE
  BY <1>2
<1>3. ASSUME NEW o \in Op, SavePushed(o) \/ Claim(o) PROVE FALSE
  <2>1. target[o] \in Task /\ Exists(target[o])
    BY <1>3 DEF SavePushed, Claim, RequestAt, HeldExists, Holds
  <2>2. \A u \in Task \ {target[o]} : status'[u] = status[u]
    BY <1>3 DEF SavePushed, Claim
  <2>. QED  BY <2>1, <2>2
<1>4. ASSUME NEW o \in Op, SaveDeleted(o) \/ SaveProjectDeleted(o) PROVE FALSE
  BY <1>4 DEF SaveDeleted, SaveProjectDeleted, DeleteRows
<1>5. ASSUME NEW r \in Run, ReconcileTerminalRun(r) \/ Recover(r) PROVE FALSE
  <2>1. taskOf[r] \in Task /\ status[taskOf[r]] = "running"
    BY <1>5 DEF ReconcileTerminalRun, Recover, Interrupted, RowsMatch, Owning
  <2>2. \A u \in Task \ {taskOf[r]} : status'[u] = status[u]
    BY <1>5 DEF ReconcileTerminalRun, WriteTerminalRunState, Recover, Recovered
  <2>. QED  BY <2>1, <2>2
<1>6. ASSUME NEW r \in Run, RunStep(r), ~ ReconcileTerminalRun(r) PROVE UNCHANGED status
  BY <1>6, RunAdvances DEF Complete
<1>7. CASE Crash \/ Listen
  BY <1>7 DEF Crash, Listen
<1>8. ASSUME NEW o \in Op, Admit(o) \/ ClaimFails(o) PROVE UNCHANGED status
  BY <1>8 DEF Admit, ClaimFails
<1> HIDE DEF TypeOK, taskVars, Exists
<1>. QED  BY <1>1, <1>2, <1>3, <1>4, <1>5, <1>6, <1>7, <1>8, RowsFrame

(* The task of a request in the lock keeps its row. *)
LEMMA HeldExistsStep ==
  ASSUME TypeOK, \A o \in Op : RequestAt(o), OneHolder, HeldExists, Next
  PROVE  HeldExists'
<1> SUFFICES ASSUME NEW o \in Op, Holds(o)', kind'[o] # "deleteProject"
             PROVE  status'[target'[o]] \notin {"none", "deleted"}
  BY DEF HeldExists, Exists
<1>1. kind'[o] = kind[o] /\ target'[o] = target[o] /\ (Holds(o) \/ (Enter(o) /\ MayProceed(o)))
  BY HolderStep
<1>2. target[o] \in Task /\ Exists(target[o])
  <2>1. target[o] \in Task
    BY <1>1 DEF RequestAt, Holds, Enter
  <2>2. CASE Holds(o)
    BY <1>1, <2>1, <2>2 DEF HeldExists
  <2>3. CASE MayProceed(o)
    BY <1>1, <2>1, <2>3 DEF MayProceed
  <2>. QED  BY <1>1, <2>1, <2>2, <2>3
<1>3. ASSUME NEW p \in Op, SaveDeleted(p) \/ SaveProjectDeleted(p), target[o] \in TasksOfOp(p)
      PROVE  FALSE
  <2>1. at[p] = "saving" /\ Holds(p)
    BY <1>3 DEF SaveDeleted, SaveProjectDeleted, Holds
  <2>2. ProjectOf[target[o]] = ProjectKey(p)
    BY <1>3, <2>1, TasksOfRequest
  <2>3. ~ Enter(o)
    BY <1>3, <2>1 DEF Enter, SaveDeleted, SaveProjectDeleted, Done, Goto, TypeOK
  <2>4. o = p
    BY <1>1, <2>1, <2>2, <2>3 DEF OneHolder, ProjectKey
  <2>. QED  BY <1>1, <1>3, <2>4 DEF SaveDeleted, SaveProjectDeleted, Done, Goto, Holds, TypeOK
<1>. QED  BY <1>1, <1>2, <1>3, StatusStep DEF Exists

(* The folders of a project are removed when its row and tasks are gone.   *)
LEMMA SweptIsGoneStep ==
  ASSUME TypeOK, \A o \in Op : RequestAt(o), SweptIsGone, HeldExists, RowsMatch, Next
  PROVE  SweptIsGone'
<1> SUFFICES ASSUME NEW o \in Op, at'[o] = "sweeping"
             PROVE  /\ target'[o] \notin projects'
                    /\ \A t \in Task : ProjectOf[t] = target'[o] => status'[t] \in {"none", "deleted"}
  BY DEF SweptIsGone, TasksOf, Exists
<1>1. target'[o] = target[o] /\ (at[o] = "sweeping" \/ SaveProjectDeleted(o))
  BY SweeperStep
<1>2. CASE SaveProjectDeleted(o)
  BY <1>1, <1>2 DEF SaveProjectDeleted, DeleteRows, TasksOf, Exists, TypeOK
<1>3. CASE at[o] = "sweeping"
  <2>1. projects' \subseteq projects
    BY ProjectsShrink
  <2>2. target[o] \notin projects /\ \A t \in TasksOf(target[o]) : ~ Exists(t)
    BY <1>3 DEF SweptIsGone
  <2>3. ASSUME NEW t \in Task, ProjectOf[t] = target[o] PROVE status'[t] \in {"none", "deleted"}
    <3>1. ~ Exists(t)  BY <2>2, <2>3 DEF TasksOf
    <3>. QED  BY <2>2, <2>3, <3>1, ExistsStep DEF Exists
  <2>. QED  BY <1>1, <2>1, <2>2, <2>3
<1>. QED  BY <1>1, <1>2, <1>3

(* The git commands leave a checkout in the folder it is in. *)
LEMMA FolderKept ==
  ASSUME NEW w \in Worktree
  PROVE  /\ Edited(w).away = w.away /\ Committed(w).away = w.away /\ CommittedInPart(w).away = w.away
         /\ Pushed(w).away = w.away /\ Removed(w).away = w.away /\ Swept(w).away = w.away
BY DEF Worktree, Edited, Committed, CommittedInPart, Pushed, Removed, Swept

(* What lies in a former folder stays there unrecorded until a run of the  *)
(* task prepares another checkout.                                         *)
LEMMA AwayStep ==
  ASSUME TypeOK, \A o \in Op : RequestAt(o), HandlesMatch, Next, NEW t \in Task,
         git[t].away, ~ path[t], \A r \in Run : stage[r] \in Touching => taskOf[r] # t
  PROVE  git'[t].away /\ ~ path'[t]
<1> USE DEF TypeOK, taskVars
<1>0. \A r \in Run : stage[r] \in Touching => taskOf[r] \in Task
  BY DEF HandlesMatch, Registered, Owning
<1> DEFINE G == git'[t].away /\ ~ path'[t]
<1>1. ASSUME UNCHANGED path, NEW u \in Task, NEW w, w.away = git[u].away, git' = [git EXCEPT ![u] = w] PROVE G
  BY <1>1
<1>2. ASSUME NEW u \in Task, Create(u) PROVE G
  BY <1>2 DEF Create
<1>3. ASSUME NEW u \in Task, EditByHand(u) PROVE G
  <2>1. PICK w \in {Edited(git[u]), Committed(git[u])} : git' = [git EXCEPT ![u] = w]
    BY <1>3 DEF EditByHand
  <2>. QED  BY <1>1, <1>3, <2>1, FolderKept DEF EditByHand
<1>4. ASSUME NEW o \in Op, \/ RequestTask(o) \/ RequestDeleteProject(o) \/ Enter(o) \/ Fail(o) \/ SaveUpdate(o)
                            \/ SaveArchived(o) \/ Preview(o) \/ Prune(o)
                            \/ SaveDeleted(o) \/ SaveProjectDeleted(o) \/ Admit(o) \/ Refuse(o)
                            \/ Claim(o) \/ ClaimFails(o)
      PROVE  UNCHANGED <<git, path>>
  BY <1>4 DEF RequestTask, RequestDeleteProject, Arrive, Enter, Fail, SaveUpdate, SaveArchived, Preview,
       Prune, SaveDeleted, SaveProjectDeleted, Admit, Refuse, Claim, ClaimFails
<1>5. ASSUME NEW o \in Op, SavePushed(o) \/ SaveCleaned(o) PROVE G
  <2>1. UNCHANGED git /\ \E b \in BOOLEAN : path' = [path EXCEPT ![target[o]] = @ /\ b]
    <3>1. path \in [Task -> BOOLEAN]  OBVIOUS
    <3>. QED  BY <1>5, <3>1 DEF SavePushed, SaveCleaned
  <2>. QED  BY <2>1
<1>6. ASSUME NEW o \in Op, Commit(o) \/ Push(o) PROVE G
  <2>1. target[o] \in Task /\ UNCHANGED path
    BY <1>6 DEF Commit, Push, RequestAt
  <2>2. PICK w \in {Committed(git[target[o]]), CommittedInPart(git[target[o]]), Pushed(git[target[o]])} :
              git' = [git EXCEPT ![target[o]] = w]
    BY <1>6, <2>1 DEF Commit, Push
  <2>. QED  BY <1>1, <2>1, <2>2, FolderKept
<1>7. ASSUME NEW o \in Op, CleanPushed(o) \/ CleanPushedFails(o) \/ Remove(o) PROVE G
  <2>1. UNCHANGED path /\ \E u \in Task : UNCHANGED git \/ git' = [git EXCEPT ![u] = Removed(git[u])]
    BY <1>7 DEF CleanPushed, CleanPushedFails, HalfCleaned, Remove, RequestAt
  <2>. QED  BY <1>1, <2>1, FolderKept
<1>8. ASSUME NEW o \in Op, Sweep(o) PROVE G
  BY <1>8, FolderKept DEF Sweep
<1>9. ASSUME NEW j \in Project, RenameFolder(j) PROVE G
  <2>1. git'[t] = [git[t] EXCEPT !.away = TRUE]
    BY <1>9 DEF RenameFolder
  <2>. QED  BY <1>9, <2>1 DEF RenameFolder, Worktree
<1>10. ASSUME NEW r \in Run, Prepare(r) \/ PrepareFailsHalfway(r) \/ SaveWorktree(r) PROVE G
  <2>1. taskOf[r] # t
    BY <1>10 DEF Prepare, PrepareFailsHalfway, SaveWorktree, Touching
  <2>2. \A u \in Task \ {taskOf[r]} : git'[u] = git[u] /\ path'[u] = path[u]
    BY <1>10 DEF Prepare, PrepareFailsHalfway, SaveWorktree, SetTree
  <2>. QED  BY <2>1, <2>2
<1>11. ASSUME NEW r \in Run, \/ Work(r) \/ AutoCommit(r) \/ AutoPush(r) \/ AutoClean(r) \/ AutoFails(r)
       PROVE  G
  <2>1. taskOf[r] # t /\ UNCHANGED path
    BY <1>11 DEF Work, AutoCommit, AutoPush, AutoClean, AutoFails, Touching
  <2>2. \A u \in Task \ {taskOf[r]} : git'[u] = git[u]
    BY <1>11 DEF Work, AutoCommit, AutoPush, AutoClean, AutoFails, HalfCleaned, SetTree
  <2>. QED  BY <2>1, <2>2
<1>12. ASSUME NEW r \in Run, \/ ReadTask(r) \/ ProviderReturns(r) \/ SetupFails(r) \/ AutoCheck(r)
                              \/ Complete(r) \/ Abort(r) \/ Recover(r)
       PROVE  UNCHANGED <<git, path>>
  BY <1>12 DEF ReadTask, ProviderReturns, SetupFails, AutoCheck, Complete, Abort, Recover
<1>13. ASSUME NEW r \in Run, ReconcileTerminalRun(r) PROVE G
  <2>1. UNCHANGED git /\ \E b \in BOOLEAN : path' = [path EXCEPT ![taskOf[r]] = @ /\ b]
    BY <1>13 DEF ReconcileTerminalRun, WriteTerminalRunState
  <2>. QED  BY <2>1
<1>14. CASE ArchiveCompleted \/ Crash \/ Listen
  BY <1>14 DEF ArchiveCompleted, Crash, Listen
<1> HIDE DEF TypeOK, taskVars
<1>. QED  BY <1>2, <1>3, <1>4, <1>5, <1>6, <1>7, <1>8, <1>9, <1>10, <1>11, <1>12, <1>13, <1>14
          DEF Next, RequestStep, RunStep

(* A worktree is behind a request that removes: it was, or the request has *)
(* entered and the task does not exist, or this step removes it, or would  *)
(* have if it had found it.                                                *)
LEMMA EmptiedStep ==
  ASSUME TypeOK, \A o \in Op : RequestAt(o), Next, NEW o \in Op, NEW t \in Task, t \in TasksOfOp(o), Emptied(o, t)',
         kind'[o] = kind[o]
  PROVE  \/ Emptied(o, t)
         \/ Enter(o) /\ ~ Exists(t)
         \/ Remove(o) /\ git'[t].tree = "none"
         \/ Remove(o) /\ ~ Finds(o, t) /\ UNCHANGED git
<1> USE DEF TypeOK
<1>1. CASE at'[o] = at[o] /\ left'[o] = left[o]
  BY <1>1 DEF Emptied
<1>2. CASE /\ Enter(o) /\ at'[o] = FirstStep(kind[o])
           /\ left'[o] = {u \in TasksOfOp(o) : Exists(u)}
  <2>1. (at'[o] = "saving" => kind[o] \notin {"delete", "deleteProject"}) /\ at'[o] # "sweeping"
    BY <1>2 DEF FirstStep
  <2>. QED  BY <1>2, <2>1 DEF Emptied
<1>3. CASE Push(o) \/ Preview(o) \/ CleanPushed(o) \/ CleanPushedFails(o) \/ Admit(o)
  <2>1. at'[o] \in {"previewing", "saveReview", "cleaning", "saveDone", "claiming"}
    BY <1>3 DEF Push, Preview, CleanPushed, CleanPushedFails, Admit, Step, Goto
  <2>. QED  BY <2>1 DEF Emptied
<1>4. CASE Prune(o)
  BY <1>4 DEF Prune, Step, Goto, Emptied
<1>5. CASE Remove(o)
  <2>1. PICK u \in left[o] : /\ left' = [left EXCEPT ![o] = @ \ {u}]
                             /\ \/ git' = [git EXCEPT ![u] = Removed(@)]
                                \/ ~ Finds(o, u) /\ UNCHANGED git
    BY <1>5 DEF Remove
  <2>2. CASE u = t
    <3>1. Removed(git[t]).tree = "none"  BY DEF Removed, Worktree
    <3>. QED  BY <1>5, <2>1, <2>2, <3>1
  <2>3. CASE u # t
    BY <1>5, <2>1, <2>3 DEF Remove, Emptied
  <2>. QED  BY <2>2, <2>3
<1>6. at'[o] \notin {"idle", "waiting"}
  BY DEF Emptied
<1>7. CASE SaveProjectDeleted(o)
  BY <1>7 DEF SaveProjectDeleted, Emptied
<1>. QED  BY <1>1, <1>2, <1>3, <1>4, <1>5, <1>6, <1>7, PlaceStep

(* A request that looked for a checkout in vain does not come to find it.  *)
LEMMA UnfoundStep ==
  ASSUME TypeOK, \A o \in Op : RequestAt(o), StaleHolds, HandlesMatch, RowsMatch, Next,
         NEW o \in Op, NEW t \in Task, t \in TasksOfOp(o), at[o] # "idle", status[t] # "running", ~ Finds(o, t)
  PROVE  ~ Finds(o, t)'
<1>1. git[t].away /\ ~ path[t] /\ o \notin stale
  BY DEF Finds, Sees
<1>2. \A r \in Run : stage[r] \in Touching => taskOf[r] # t
  BY DEF RowsMatch, Owning
<1>3. git'[t].away /\ ~ path'[t]
  BY <1>1, <1>2, AwayStep
<1>4. o \notin stale'
  <2>1. ASSUME NEW j \in Project, RenameFolder(j), ProjectKey(o) = j PROVE FALSE
    <3>1. t \in TasksOf(j)
      BY <2>1, TasksOfRequest DEF TasksOf
    <3>. QED  BY <1>1, <2>1, <3>1 DEF RenameFolder
  <2>. QED  BY <1>1, <2>1, StaleStep
<1>. QED  BY <1>3, <1>4 DEF Finds, Sees

(* Tasks that never ran have no worktree, nor do deleted ones: what their  *)
(* row did not record lies in a folder the project no longer has.          *)
LEMMA TreesMatchStep ==
  ASSUME TypeOK, \A o \in Op : RequestAt(o), SweptIsGone, StaleHolds, HeldIsQuiet, HandlesMatch, RowsMatch,
         TreesMatch, Next
  PROVE  TreesMatch'
<1>1. ASSUME NEW t \in Task, git[t].tree = "none", git'[t].tree # "none"
      PROVE  status[t] = "running" /\ UNCHANGED <<Locals, status>>
  <2>1. PICK r \in Run : taskOf[r] = t /\ stage[r] = "preparing" /\ RunStep(r)
    BY <1>1, TreeStep
  <2>2. ~ Complete(r) /\ ~ ReconcileTerminalRun(r)
    BY <2>1 DEF Complete, ReconcileTerminalRun
  <2>. QED  BY <2>1, <2>2, RunAdvances DEF RowsMatch, Owning, Touching
<1>2. ASSUME NEW t \in Task, status'[t] \in {"none", "backlog"} PROVE git'[t].tree = "none"
  <2>1. status[t] \in {"none", "backlog"}
    BY <1>2, StatusStep
  <2>. QED  BY <1>1, <2>1 DEF TreesMatch
<1>3. ASSUME NEW t \in Task, status'[t] = "deleted" PROVE git'[t].tree = "none" \/ Lost(t)'
  <2>1. CASE status[t] = "deleted" /\ git[t].tree = "none"
    BY <1>1, <2>1
  <2>2. CASE status[t] = "deleted" /\ Lost(t)
    <3>1. \A r \in Run : stage[r] \in Touching => taskOf[r] # t
      BY <2>2 DEF RowsMatch, Owning
    <3>. QED  BY <2>2, <3>1, AwayStep DEF Lost
  <2>3. ASSUME NEW o \in Op, SaveDeleted(o) \/ SaveProjectDeleted(o), t \in TasksOfOp(o)
        PROVE  git'[t].tree = "none" \/ Lost(t)'
    <3>1. Emptied(o, t) /\ UNCHANGED <<git, path>>
      BY <2>3 DEF SaveDeleted, SaveProjectDeleted, Emptied
    <3>2. git[t].tree = "none" \/ ~ Finds(o, t)
      BY <2>3, <3>1 DEF TreesMatch
    <3>. QED  BY <3>1, <3>2 DEF Finds, Sees, Lost
  <2>. QED  BY <1>3, <2>1, <2>2, <2>3, StatusStep DEF TreesMatch
<1>4. ASSUME NEW o \in Op, NEW t \in TasksOfOp(o)', Emptied(o, t)' PROVE git'[t].tree = "none" \/ ~ Finds(o, t)'
  <2>1. at'[o] \notin {"idle", "waiting"}
    BY <1>4 DEF Emptied
  <2>2. /\ TasksOfOp(o)' = TasksOfOp(o) /\ kind'[o] = kind[o]
        /\ Holds(o) \/ at[o] = "sweeping" \/ (Enter(o) /\ at[o] = "waiting")
    <3>1. CASE at'[o] = "sweeping"
      BY <3>1, SweeperStep DEF TasksOfOp, TasksOf, SaveProjectDeleted, Holds
    <3>2. CASE Holds(o)'
      BY <3>2, HolderStep DEF TasksOfOp, TasksOf, Enter
    <3>. QED  BY <2>1, <3>1, <3>2 DEF Holds
  <2>3. t \in TasksOfOp(o) /\ t \in Task /\ at[o] # "idle"
    <3>1. at[o] # "idle"  BY <2>2 DEF Holds
    <3>. QED  BY <2>2, <3>1, <1>4, TasksOfRequest
  <2>4. CASE Emptied(o, t)
    <3>1. status[t] # "running"
      <4>1. CASE Holds(o)
        BY <2>3, <4>1 DEF HeldIsQuiet
      <4>2. CASE at[o] = "sweeping"
        <5>1. kind[o] = "deleteProject"  BY <4>2 DEF RequestAt
        <5>. QED  BY <2>3, <4>2, <5>1 DEF SweptIsGone, Exists, TasksOfOp
      <4>. QED  BY <2>4, <4>1, <4>2 DEF Emptied, Holds
    <3>2. CASE git[t].tree = "none"
      BY <1>1, <2>3, <3>1, <3>2
    <3>3. CASE ~ Finds(o, t)
      BY <2>3, <3>1, <3>3, UnfoundStep
    <3>. QED  BY <2>3, <2>4, <3>2, <3>3 DEF TreesMatch
  <2>5. CASE Enter(o) /\ ~ Exists(t)
    <3>1. UNCHANGED <<git, path>> /\ stale' \subseteq stale /\ o \notin stale
      BY <2>5 DEF Enter, Done, StaleHolds, taskVars
    <3>2. git[t].tree = "none" \/ Lost(t)
      BY <2>3, <2>5 DEF TreesMatch, Exists
    <3>. QED  BY <3>1, <3>2 DEF Lost, Finds, Sees
  <2>6. CASE Remove(o) /\ ~ Finds(o, t) /\ UNCHANGED git
    <3>1. UNCHANGED <<git, path, stale>>
      BY <2>6 DEF Remove, taskVars
    <3>. QED  BY <2>6, <3>1 DEF Finds, Sees
  <2>. QED  BY <1>4, <2>2, <2>3, <2>4, <2>5, <2>6, EmptiedStep
<1>. QED  BY <1>2, <1>3, <1>4 DEF TreesMatch

(* Who changes the settings of a task. *)
LEMMA AutoStep ==
  ASSUME TypeOK, Next, NEW t \in Task, auto'[t] # auto[t]
  PROVE  status[t] = "none" \/ \E o \in Op : at[o] = "saving" /\ target[o] = t /\ kind[o] = "update"
<1> USE DEF TypeOK, taskVars
<1>1. ASSUME NEW u \in Task, Create(u) PROVE status[t] = "none"
  BY <1>1 DEF Create
<1>2. ASSUME NEW u \in Task, EditByHand(u) PROVE FALSE
  BY <1>2 DEF EditByHand
<1>3. ASSUME NEW o \in Op, SaveUpdate(o) PROVE at[o] = "saving" /\ target[o] = t /\ kind[o] = "update"
  BY <1>3 DEF SaveUpdate
<1>4. ASSUME NEW o \in Op, \/ RequestTask(o) \/ RequestDeleteProject(o) \/ Enter(o) \/ Fail(o) \/ SaveArchived(o)
                            \/ Commit(o) \/ Push(o) \/ Preview(o) \/ CleanPushed(o) \/ CleanPushedFails(o)
                            \/ SavePushed(o) \/ Remove(o) \/ Prune(o) \/ SaveCleaned(o) \/ SaveDeleted(o)
                            \/ SaveProjectDeleted(o) \/ Sweep(o) \/ Admit(o) \/ Refuse(o) \/ Claim(o)
                            \/ ClaimFails(o)
      PROVE  FALSE
  BY <1>4 DEF RequestTask, RequestDeleteProject, Arrive, Enter, Fail, SaveArchived, Commit, Push, Preview,
       CleanPushed, CleanPushedFails, SavePushed, Remove, Prune, SaveCleaned, SaveDeleted, SaveProjectDeleted,
       Sweep, Admit, Refuse, Claim, ClaimFails
<1>5. ASSUME NEW r \in Run, RunStep(r) \/ Abort(r) \/ Work(r) \/ Recover(r) PROVE FALSE
  BY <1>5 DEF RunStep, ReadTask, Prepare, PrepareFailsHalfway, SaveWorktree, ProviderReturns, SetupFails, AutoCommit,
       AutoPush, AutoCheck, AutoClean, AutoFails, ReconcileTerminalRun, Complete, Abort, Work, Recover
<1>6. CASE ArchiveCompleted \/ Crash \/ Listen \/ \E j \in Project : RenameFolder(j)
  BY <1>6 DEF ArchiveCompleted, Crash, Listen, RenameFolder
<1> HIDE DEF TypeOK, taskVars
<1>. QED  BY <1>1, <1>2, <1>3, <1>4, <1>5, <1>6 DEF Next, RequestStep

(* The settings a run read stay the settings of its task.                  *)
LEMMA SnapshotStep ==
  ASSUME TypeOK, \A o \in Op : RequestAt(o), ClaimHasHandle, HeldIsQuiet, HandlesMatch, RowsMatch, SnapshotCurrent, Next
  PROVE  SnapshotCurrent'
<1> USE DEF TypeOK
<1> SUFFICES ASSUME NEW r \in Run, stage'[r] \in Touching
             PROVE  snap'[r] = auto'[taskOf'[r]]
  BY DEF SnapshotCurrent
<1>1. ASSUME stage[r] \in Touching, UNCHANGED <<snap, taskOf>> PROVE snap'[r] = auto'[taskOf'[r]]
  <2>1. taskOf[r] \in Task /\ status[taskOf[r]] = "running"
    BY <1>1 DEF RowsMatch, Owning
  <2>2. auto'[taskOf[r]] = auto[taskOf[r]]
    <3>1. ASSUME NEW o \in Op, at[o] = "saving", target[o] = taskOf[r], kind[o] = "update" PROVE FALSE
      BY <2>1, <3>1 DEF HeldIsQuiet, Holds, TasksOfOp
    <3>. QED  BY <2>1, <3>1, AutoStep
  <2>. QED  BY <1>1, <2>2 DEF SnapshotCurrent
<1>2. CASE UNCHANGED <<taskOf, active, stage, snap>>
  BY <1>1, <1>2
<1>3. CASE Crash
  BY <1>3 DEF Crash, Touching
<1>4. ASSUME NEW o \in Op, Admit(o) PROVE snap'[r] = auto'[taskOf'[r]]
  <2>1. PICK s \in Run : /\ stage[s] = "new"
                         /\ taskOf' = [taskOf EXCEPT ![s] = target[o]]
                         /\ stage' = [stage EXCEPT ![s] = "reserved"]
    BY <1>4 DEF Admit
  <2>2. r # s /\ stage[r] \in Touching
    BY <2>1 DEF Touching
  <2>. QED  BY <1>4, <2>1, <2>2 DEF Admit, taskVars, SnapshotCurrent
<1>5. ASSUME NEW o \in Op, Claim(o) \/ ClaimFails(o) PROVE stage[r] \in Touching /\ UNCHANGED <<snap, taskOf>>
  BY <1>5 DEF Claim, ClaimFails, Touching
<1>6. ASSUME NEW s \in Run, RunStep(s) PROVE snap'[r] = auto'[taskOf'[r]]
  <2>1. CASE Complete(s)
    BY <2>1 DEF Complete, Turn, Touching, SnapshotCurrent, taskVars
  <2>2. CASE ReconcileTerminalRun(s)
    BY <2>2 DEF ReconcileTerminalRun, Turn, Touching, SnapshotCurrent
  <2>3. CASE ReadTask(s)
    BY <2>3 DEF ReadTask, Turn, Touching, SnapshotCurrent, taskVars
  <2>4. CASE ~ Complete(s) /\ ~ ReconcileTerminalRun(s) /\ ~ ReadTask(s)
    <3>1. PICK w \in Owning : /\ stage' = [stage EXCEPT ![s] = w]
                              /\ w \in Touching => stage[s] \in Touching
                              /\ UNCHANGED <<taskOf, auto, snap>>
      BY <1>6, <2>4, RunAdvances
    <3>2. stage[r] \in Touching
      BY <3>1
    <3>. QED  BY <3>1, <3>2 DEF SnapshotCurrent
  <2>. QED  BY <2>1, <2>2, <2>3, <2>4
<1>. QED  BY <1>2, <1>3, <1>4, <1>5, <1>1, <1>6, OwnershipFrame
-----------------------------------------------------------------------------
(* IInv holds before the first request.                                    *)
LEMMA InitIInv == Init => IInv
<1> SUFFICES ASSUME Init PROVE IInv  OBVIOUS
<1> USE TaskAssumption, LeftoversAssumption, RunAssumption DEF Init
<1>1. TypeOK
  BY DEF TypeOK, TaskKinds, Outcomes
<1>2. ASSUME NEW o \in Op PROVE RequestAt(o)
  BY DEF RequestAt, Holds
<1>3. ClaimHasHandle /\ OneHolder /\ SweptIsGone /\ StaleHolds /\ HeldExists /\ HeldIsQuiet
  BY DEF ClaimHasHandle, OneHolder, SweptIsGone, StaleHolds, HeldExists, HeldIsQuiet, Holds
<1>4. HandlesMatch /\ SnapshotCurrent
  BY DEF HandlesMatch, SnapshotCurrent, Registered, Owning, Touching
<1>5. RowsMatch
  BY DEF RowsMatch, Owning, Touching
<1>6. TreesMatch
  BY DEF TreesMatch, Emptied
<1>7. CapKept
  <2>1. Admitted = {}  BY DEF Admitted
  <2>. QED  BY <2>1, FS_EmptySet, MaxActiveAssumption DEF CapKept
<1>. QED  BY <1>1, <1>2, <1>3, <1>4, <1>5, <1>6, <1>7 DEF IInv

(* IInv is inductive.                                                      *)
LEMMA StepIInv == IInv /\ [Next]_vars => IInv'
<1>1. ASSUME IInv, Next PROVE IInv'
  <2>1. TypeOK' /\ (\A o \in Op : RequestAt(o)') /\ ClaimHasHandle' /\ OneHolder'
    BY <1>1, TypeStep, RequestAtStep, ClaimHasHandleStep, OneHolderStep DEF IInv
  <2>2. SweptIsGone' /\ HeldExists' /\ HeldIsQuiet' /\ HandlesMatch'
    BY <1>1, SweptIsGoneStep, HeldExistsStep, HeldIsQuietStep, HandlesMatchStep DEF IInv
  <2>3. StaleHolds'
    BY <1>1, StaleStep DEF IInv, StaleHolds
  <2>4. CapKept' /\ RowsMatch' /\ TreesMatch' /\ SnapshotCurrent'
    BY <1>1, CapKeptStep, RowsMatchStep, TreesMatchStep, SnapshotStep DEF IInv
  <2>. QED  BY <2>1, <2>2, <2>3, <2>4 DEF IInv
<1>2. ASSUME IInv, UNCHANGED vars PROVE IInv'
  <2> USE <1>2 DEF IInv, vars, taskVars, runVars, opVars
  <2>1. TypeOK'
    BY DEF TypeOK
  <2>2. ASSUME NEW o \in Op PROVE RequestAt(o)'
    <3>1. RequestAt(o)  OBVIOUS
    <3>. QED  BY <3>1 DEF RequestAt, Holds, TasksOfOp, TasksOf
  <2>3. ClaimHasHandle'
    BY DEF ClaimHasHandle
  <2>4. OneHolder'
    BY DEF OneHolder, Holds, ProjectKey
  <2>5. HeldIsQuiet' /\ SweptIsGone' /\ StaleHolds' /\ HeldExists'
    BY DEF HeldIsQuiet, SweptIsGone, StaleHolds, HeldExists, Holds, TasksOfOp, TasksOf, Exists
  <2>6. HandlesMatch' /\ SnapshotCurrent'
    BY DEF HandlesMatch, SnapshotCurrent
  <2>7. RowsMatch'
    BY DEF RowsMatch
  <2>8. TreesMatch'
    BY DEF TreesMatch, Emptied, TasksOfOp, TasksOf, Lost, Finds, Sees
  <2>9. CapKept'
    BY DEF CapKept, Admitted
  <2>. QED  BY <2>1, <2>2, <2>3, <2>4, <2>5, <2>6, <2>7, <2>8, <2>9
<1>. QED  BY <1>1, <1>2

(* In every reachable state the parts of IInv hold together: requests,     *)
(* handles in memory, rows, worktrees and the settings a run acts on.      *)
THEOREM Invariant == Spec => []IInv
BY InitIInv, StepIInv, PTL DEF Spec

(* Every variable keeps its type: no column leaves what its CHECK allows.  *)
THEOREM TypeCorrect == Spec => []TypeOK
<1>1. IInv => TypeOK  BY DEF IInv
<1>. QED  BY <1>1, Invariant, PTL

(* While the server listens, a row says running exactly when a live run    *)
(* owns the task and can be stopped through its handle.                    *)
THEOREM RunsAreOwned == Spec => []RunHasOwner
<1>1. IInv => RunHasOwner
  BY DEF IInv, RunHasOwner, RowsMatch, HandlesMatch, Registered
<1>. QED  BY <1>1, Invariant, PTL

(* agent_tasks.status = 'running' and the running rows of agent_runs agree *)
(* in every state, the recovery's included: one row, or none.              *)
THEOREM TablesAgree == Spec => []TaskRunAgree
<1>1. ASSUME IInv PROVE TaskRunAgree
  <2> SUFFICES ASSUME NEW t \in Task
               PROVE  IF status[t] = "running" THEN \E r \in Run : RunningRows(t) = {r} ELSE RunningRows(t) = {}
    BY DEF TaskRunAgree
  <2>1. CASE status[t] = "running"
    <3>1. PICK r \in Run : run[r] = "running" /\ taskOf[r] = t
      BY <1>1, <2>1 DEF IInv, RowsMatch
    <3>2. RunningRows(t) = {r}
      BY <1>1, <3>1 DEF IInv, RowsMatch, RunningRows
    <3>. QED  BY <2>1, <3>2
  <2>2. CASE status[t] # "running"
    BY <1>1, <2>2 DEF IInv, RowsMatch, RunningRows
  <2>. QED  BY <2>1, <2>2
<1>. QED  BY <1>1, Invariant, PTL

(* At most one run or request works in a task's checkout at a time, and a  *)
(* run does so only while its task is running.                             *)
THEOREM WorktreesAreExclusive == Spec => []WorktreeExclusive
<1>1. ASSUME IInv PROVE WorktreeExclusive
  <2> SUFFICES ASSUME NEW t \in Task
               PROVE  /\ \A r \in RunsIn(t) : status[t] = "running" /\ OpsIn(t) = {} /\ RunsIn(t) = {r}
                      /\ \A o, p \in OpsIn(t) : o = p
    BY DEF WorktreeExclusive
  <2>1. ASSUME NEW r \in RunsIn(t) PROVE run[r] = "running" /\ taskOf[r] = t /\ r \in Run /\ status[t] = "running"
    BY <1>1, <2>1 DEF IInv, RowsMatch, RunsIn, Owning
  <2>2. ASSUME NEW o \in OpsIn(t) PROVE o \in Op /\ Holds(o) /\ ProjectOf[t] = ProjectKey(o) /\ status[t] # "running"
    <3>1. o \in Op /\ Holds(o) /\ at[o] # "idle" /\ t \in TasksOfOp(o)
      BY <2>2 DEF OpsIn, Holds
    <3>. QED  BY <1>1, <3>1, TasksOfRequest DEF IInv, HeldIsQuiet
  <2>3. ASSUME NEW r \in RunsIn(t) PROVE RunsIn(t) = {r}
    BY <1>1, <2>1 DEF IInv, RowsMatch
  <2>4. ASSUME NEW r \in RunsIn(t) PROVE OpsIn(t) = {}
    BY <2>1, <2>2
  <2>5. ASSUME NEW o \in OpsIn(t), NEW p \in OpsIn(t) PROVE o = p
    BY <1>1, <2>2 DEF IInv, OneHolder
  <2>. QED  BY <2>1, <2>3, <2>4, <2>5
<1>. QED  BY <1>1, Invariant, PTL

(* "Settings cannot change while a task is running": what a run read when  *)
(* it started is what the task still says whenever it acts on it.          *)
THEOREM SettingsAreCurrent == Spec => []SnapshotCurrent
<1>1. IInv => SnapshotCurrent  BY DEF IInv
<1>. QED  BY <1>1, Invariant, PTL

(* Deleting a task or its project never leaves a worktree on the disk but  *)
(* one that the row did not record when the project's folder was renamed.  *)
THEOREM NoOrphans == Spec => []NoOrphanWorktree
<1>1. IInv => NoOrphanWorktree  BY DEF IInv, TreesMatch, NoOrphanWorktree
<1>. QED  BY <1>1, Invariant, PTL
-----------------------------------------------------------------------------
(* A finished run is never rewritten: an abort that comes late, a crash or *)
(* the recovery find a row that is no longer running.                      *)
THEOREM FinishedIsFinal == Spec => TerminalIsFinal
<1> DEFINE Final == {"succeeded", "failed", "canceled"}
<1>1. ASSUME IInv, Next, NEW r \in Run, run[r] \in Final PROVE run'[r] \in {run[r], "gone"}
  <2> USE <1>1 DEF IInv, TypeOK
  <2>1. ASSUME UNCHANGED run PROVE run'[r] = run[r]
    BY <2>1
  <2>2. ASSUME NEW o \in Op, SaveDeleted(o) \/ SaveProjectDeleted(o) PROVE run'[r] \in {run[r], "gone"}
    BY <2>2 DEF SaveDeleted, SaveProjectDeleted, DeleteRows
  <2>3. ASSUME NEW o \in Op, Claim(o) PROVE run'[r] = run[r]
    <3>1. run[active[target[o]]] = "none"
      BY <2>3, RunAssumption DEF Claim, RequestAt, ClaimHasHandle, RowsMatch
    <3>. QED  BY <2>3, <3>1 DEF Claim
  <2>4. ASSUME NEW o \in Op, SavePushed(o) \/ Admit(o) \/ ClaimFails(o) PROVE UNCHANGED run
    BY <2>4 DEF SavePushed, Admit, ClaimFails, runVars
  <2>5. ASSUME NEW s \in Run, RunStep(s) PROVE run'[r] = run[r]
    <3>1. CASE ReconcileTerminalRun(s)
      <4>1. run[s] = "running"
        BY <3>1 DEF ReconcileTerminalRun, RowsMatch, Owning
      <4>. QED  BY <3>1, <4>1 DEF ReconcileTerminalRun, WriteTerminalRunState
    <3>2. CASE Complete(s)
      BY <3>2 DEF Complete
    <3>. QED  BY <2>5, <3>1, <3>2, RunAdvances
  <2>6. ASSUME NEW s \in Run, Recover(s) PROVE run'[r] = run[r]
    BY <2>6 DEF Recover, Interrupted
  <2>7. CASE Crash \/ Listen \/ \E t \in Task : Create(t)
    BY <2>7 DEF Crash, Listen, Create, runVars
  <2> HIDE DEF IInv, TypeOK
  <2>. QED  BY <2>1, <2>2, <2>3, <2>4, <2>5, <2>6, <2>7, RowsFrame
<1>2. IInv /\ [Next]_vars => [\A r \in Run : run[r] \in Final => run'[r] \in {run[r], "gone"}]_vars
  BY <1>1
<1>. QED  BY <1>2, Invariant, PTL DEF Spec, TerminalIsFinal

(* Nothing but the forced removal of this very task's worktree ever loses  *)
(* uncommitted changes.                                                    *)
THEOREM ChangesAreKept == Spec => NeverDiscardUncommitted
<1>1. ASSUME IInv, Next, NEW t \in Task, git[t].tree = "dirty", git'[t].tree = "none"
      PROVE  \E o \in OpsIn(t) : at[o] = "removing" /\ force[o]
  <2> USE <1>1 DEF IInv, TypeOK
  <2>0. \A r \in Run : stage[r] \in Touching => taskOf[r] \in Task
    BY DEF HandlesMatch, Registered, Owning
  <2>1. ASSUME UNCHANGED git PROVE FALSE
    BY <1>1, <2>1
  <2>2. ASSUME NEW u \in Task, NEW w, git' = [git EXCEPT ![u] = w], git[u].tree = "dirty" => w.tree # "none" PROVE FALSE
    BY <1>1, <2>2
  <2>3. ASSUME NEW u \in Task, EditByHand(u) PROVE FALSE
    <3>1. PICK w \in {Edited(git[u]), Committed(git[u])} : git' = [git EXCEPT ![u] = w]
      BY <2>3 DEF EditByHand
    <3>. QED  BY <2>2, <2>3, <3>1, TreesStay DEF EditByHand
  <2>4. ASSUME NEW o \in Op, Commit(o) \/ Push(o) PROVE FALSE
    <3>1. target[o] \in Task /\ git[target[o]].tree # "none"  BY <2>4 DEF Commit, Push, RequestAt
    <3>2. PICK w \in {Committed(git[target[o]]), CommittedInPart(git[target[o]]), Pushed(git[target[o]])} :
                git' = [git EXCEPT ![target[o]] = w]
      BY <2>4, <3>1 DEF Commit, Push
    <3>. QED  BY <2>2, <3>1, <3>2, TreesStay
  <2>5. ASSUME NEW o \in Op, CleanPushed(o) \/ CleanPushedFails(o) PROVE FALSE
    <3>1. target[o] \in Task  BY <2>5 DEF CleanPushed, CleanPushedFails, RequestAt
    <3>. QED  BY <2>1, <2>2, <2>5, <3>1 DEF CleanPushed, CleanPushedFails, HalfCleaned, MayRemove, Removable
  <2>6. ASSUME NEW o \in Op, Remove(o) PROVE o \in OpsIn(t) /\ at[o] = "removing" /\ force[o]
    <3>1. PICK u \in left[o] : MayRemove(o, u, force[o]) /\ git' = [git EXCEPT ![u] = Removed(@)]
      BY <2>1, <2>6 DEF Remove
    <3>2. u \in Task /\ u \in TasksOfOp(o) /\ at[o] = "removing"
      BY <2>6 DEF Remove, RequestAt
    <3>3. u = t
      BY <1>1, <3>1, <3>2
    <3>4. force[o]
      BY <1>1, <3>1, <3>3 DEF MayRemove, Removable
    <3>. QED  BY <3>2, <3>3, <3>4 DEF OpsIn
  <2>7. ASSUME NEW r \in Run, \/ Prepare(r) \/ PrepareFailsHalfway(r) \/ Work(r) \/ AutoCommit(r) \/ AutoPush(r)
        PROVE  FALSE
    <3>1. taskOf[r] \in Task
      BY <2>0, <2>7 DEF Prepare, PrepareFailsHalfway, Work, AutoCommit, AutoPush, Touching
    <3>2. \/ UNCHANGED git
          \/ \E w \in {Prepared(View(r)), Edited(Tree(r)), Committed(Tree(r)), Pushed(Tree(r))} :
                git' = [git EXCEPT ![taskOf[r]] = w]
      BY <2>7 DEF Prepare, PrepareFailsHalfway, Work, AutoCommit, AutoPush, SetTree
    <3>3. ASSUME Tree(r).tree = "dirty"
          PROVE  \A w \in {Prepared(View(r)), Edited(Tree(r)), Committed(Tree(r)), Pushed(Tree(r))} : w.tree # "none"
      <4>1. View(r) \in Worktree  BY <3>1, ViewType
      <4>2. Prepared(View(r)).tree # "none"
        BY <4>1 DEF Prepared, Worktree
      <4>. QED  BY <3>1, <3>3, <4>2, TreesStay DEF Tree
    <3>. QED  BY <2>1, <2>2, <3>1, <3>2, <3>3 DEF Tree
  <2>8. ASSUME NEW r \in Run, AutoClean(r) \/ AutoFails(r) PROVE FALSE
    <3>1. taskOf[r] \in Task  BY <2>0, <2>8 DEF AutoClean, AutoFails, Touching
    <3>. QED  BY <2>1, <2>2, <2>8, <3>1 DEF AutoClean, AutoFails, HalfCleaned, SetTree, Tree, MayRemove, Removable
  <2>9. ASSUME NEW r \in Run, \/ ReadTask(r) \/ SaveWorktree(r) \/ ProviderReturns(r) \/ SetupFails(r) \/ AutoCheck(r)
                               \/ ReconcileTerminalRun(r) \/ Complete(r) \/ Abort(r) \/ Recover(r)
         PROVE  UNCHANGED git
    BY <2>9 DEF ReadTask, SaveWorktree, ProviderReturns, SetupFails, AutoCheck, ReconcileTerminalRun,
         Complete, Abort, Recover, taskVars
  <2>10. ASSUME NEW o \in Op, \/ RequestTask(o) \/ RequestDeleteProject(o) \/ Enter(o) \/ Fail(o) \/ SaveUpdate(o)
                            \/ SaveArchived(o) \/ Preview(o) \/ SavePushed(o) \/ Prune(o)
                            \/ SaveCleaned(o) \/ SaveDeleted(o) \/ SaveProjectDeleted(o) \/ Admit(o) \/ Refuse(o)
                            \/ Claim(o) \/ ClaimFails(o)
         PROVE  UNCHANGED git
    BY <2>10 DEF RequestTask, RequestDeleteProject, Arrive, Enter, Fail, SaveUpdate, SaveArchived, Preview,
       SavePushed, Prune, SaveCleaned, SaveDeleted, SaveProjectDeleted, Admit, Refuse, Claim,
       ClaimFails
  <2>11. CASE ArchiveCompleted \/ Crash \/ Listen \/ \E u \in Task : Create(u)
    BY <2>1, <2>11 DEF ArchiveCompleted, Crash, Listen, Create
  <2>12. ASSUME NEW o \in Op, Sweep(o) PROVE FALSE
    BY <1>1, <2>12 DEF Sweep, Swept, Worktree
  <2>13. ASSUME NEW j \in Project, RenameFolder(j) PROVE FALSE
    <3>1. PICK b \in BOOLEAN : git'[t] = [git[t] EXCEPT !.away = b]
      BY <2>13 DEF RenameFolder, Exists, Worktree
    <3>. QED  BY <1>1, <3>1 DEF Worktree
  <2> HIDE DEF IInv, TypeOK
  <2>. QED  BY <1>1, <2>1, <2>3, <2>4, <2>5, <2>6, <2>7, <2>8, <2>9, <2>10, <2>11, <2>12, <2>13 DEF Next, RequestStep, RunStep
<1>2. IInv /\ [Next]_vars =>
        [\A t \in Task : git[t].tree = "dirty" /\ git'[t].tree = "none"
                            => \E o \in OpsIn(t) : at[o] = "removing" /\ force[o]]_vars
  BY <1>1
<1>. QED  BY <1>2, Invariant, PTL DEF Spec, NeverDiscardUncommitted

-----------------------------------------------------------------------------
(* Runs are leases *)

Spent == {r \in Run : run[r] # "none"}

OwnerIsRunning ==
  /\ Owner = [t \in Task |-> Owner[t]]
  /\ \A t \in Task : /\ Owner[t] \in Run \cup {NoRun}
                     /\ \A r \in Run : Owner[t] = r <=> run[r] = "running" /\ taskOf[r] = t
                     /\ Owner[t] # NoRun <=> status[t] = "running"

(* The owner of a task is its running row. *)
LEMMA OwnerIs == IInv => OwnerIsRunning
<1> SUFFICES ASSUME IInv PROVE OwnerIsRunning  OBVIOUS
<1>1. Owner = [t \in Task |-> Owner[t]]
  BY DEF Owner
<1>2. ASSUME NEW t \in Task
      PROVE  /\ Owner[t] \in Run \cup {NoRun}
             /\ \A r \in Run : Owner[t] = r <=> run[r] = "running" /\ taskOf[r] = t
             /\ Owner[t] # NoRun <=> status[t] = "running"
  <2>1. Owner[t] = IF RunningRows(t) = {} THEN NoRun ELSE CHOOSE r \in RunningRows(t) : TRUE
    BY DEF Owner
  <2>2. CASE RunningRows(t) = {}
    <3>1. Owner[t] = NoRun  BY <2>1, <2>2
    <3>2. status[t] # "running"
      BY <2>2 DEF IInv, RowsMatch, RunningRows
    <3>. QED  BY <2>2, <3>1, <3>2, RunAssumption DEF RunningRows
  <2>3. CASE RunningRows(t) # {}
    <3>1. Owner[t] \in RunningRows(t)  BY <2>1, <2>3
    <3>2. /\ Owner[t] \in Run /\ run[Owner[t]] = "running" /\ taskOf[Owner[t]] = t
      BY <3>1 DEF RunningRows
    <3>. QED  BY <3>2, RunAssumption DEF IInv, RowsMatch
  <2>. QED  BY <2>2, <2>3
<1>. QED  BY <1>1, <1>2 DEF OwnerIsRunning

(* The same after a step. *)
LEMMA OwnerIsNext ==
  ASSUME IInv'
  PROVE  /\ Owner' = [t \in Task |-> Owner'[t]]
         /\ \A t \in Task : /\ Owner'[t] \in Run \cup {NoRun}
                            /\ \A r \in Run : Owner'[t] = r <=> run'[r] = "running" /\ taskOf'[r] = t
<1>1. IInv' => OwnerIsRunning'
  BY OwnerIs, PTL
<1>. QED  BY <1>1 DEF OwnerIsRunning

(* Steps that touch no running row leave the leases alone. *)
LEMMA SameLeases ==
  ASSUME IInv, IInv',
         \A r \in Run : /\ run'[r] = "running" <=> run[r] = "running"
                        /\ run'[r] = "none" <=> run[r] = "none"
                        /\ run[r] = "running" => taskOf'[r] = taskOf[r]
  PROVE  UNCHANGED <<Owner, Spent>>
<1>1. ASSUME NEW t \in Task PROVE Owner'[t] = Owner[t]
  <2>1. CASE Owner[t] \in Run
    BY <2>1, OwnerIs, OwnerIsNext DEF OwnerIsRunning
  <2>2. CASE Owner'[t] \in Run
    BY <2>2, OwnerIs, OwnerIsNext DEF OwnerIsRunning
  <2>. QED  BY <2>1, <2>2, OwnerIs, OwnerIsNext DEF OwnerIsRunning
<1>2. Owner' = Owner
  BY <1>1, OwnerIs, OwnerIsNext DEF OwnerIsRunning
<1>3. Spent' = Spent
  BY DEF Spent
<1>. QED  BY <1>2, <1>3

(* The claim's transaction is a grant: nobody owned the task, the cap had  *)
(* room (the handle that is being claimed is counted), the run is new.     *)
LEMMA ClaimGrants ==
  ASSUME IInv, IInv', NEW o \in Op, Claim(o)
  PROVE  Lease!Grant(target[o], active[target[o]])
<1> DEFINE t == target[o]
           r == active[t]
<1> USE DEF IInv, TypeOK
<1>1. t \in Task /\ status[t] # "running"
  BY DEF Claim, RequestAt
<1>2. r \in Run /\ stage[r] = "reserved" /\ taskOf[r] = t
  BY <1>1 DEF Claim, ClaimHasHandle, HandlesMatch
<1>3. run[r] = "none"
  BY <1>2 DEF RowsMatch
<1>4. run' = [run EXCEPT ![r] = "running"] /\ UNCHANGED taskOf
  BY DEF Claim
<1>5. Owner[t] = NoRun
  BY <1>1, OwnerIs DEF OwnerIsRunning
<1>6. Owner' = [Owner EXCEPT ![t] = r]
  <2>1. Owner'[t] = r
    BY <1>1, <1>2, <1>4, OwnerIsNext
  <2>2. ASSUME NEW u \in Task, u # t PROVE Owner'[u] = Owner[u]
    <3>1. \A s \in Run : Owner'[u] = s <=> Owner[u] = s
      BY <1>2, <1>4, <2>2, OwnerIs, OwnerIsNext DEF OwnerIsRunning
    <3>. QED  BY <3>1, OwnerIs, OwnerIsNext DEF OwnerIsRunning
  <2>. QED  BY <1>1, <2>1, <2>2, OwnerIs, OwnerIsNext DEF OwnerIsRunning
<1>7. Spent' = Spent \cup {r} /\ r \notin Spent
  BY <1>2, <1>3, <1>4 DEF Spent
<1>8. Cardinality(Lease!Leased) < MaxActive
  <2>1. Lease!Leased \subseteq Admitted \ {t}
    <3>1. ASSUME NEW u \in Task, Owner[u] # NoRun PROVE u \in Admitted /\ u # t
      <4>1. PICK s \in Run : run[s] = "running" /\ taskOf[s] = u
        BY <3>1, OwnerIs DEF OwnerIsRunning
      <4>2. up  BY DEF Claim, RequestAt
      <4>3. active[u] = s
        BY <4>1, <4>2 DEF RowsMatch, HandlesMatch, Registered
      <4>. QED  BY <1>5, <3>1, <4>3, RunAssumption DEF Admitted
    <3>. QED  BY <3>1 DEF Lease!Leased
  <2>2. IsFiniteSet(Admitted) /\ Cardinality(Admitted) \in Nat
    BY TaskAssumption, FS_Subset, FS_CardinalityType DEF Admitted
  <2>3. t \in Admitted
    BY <1>1, <1>2, RunAssumption DEF Admitted
  <2>4. IsFiniteSet(Admitted \ {t}) /\ Cardinality(Admitted \ {t}) = Cardinality(Admitted) - 1
    BY <2>2, <2>3, FS_RemoveElement
  <2>5. IsFiniteSet(Lease!Leased) /\ Cardinality(Lease!Leased) <= Cardinality(Admitted \ {t})
    BY <2>1, <2>4, FS_Subset
  <2>6. Cardinality(Lease!Leased) \in Nat
    BY <2>5, FS_CardinalityType
  <2>. QED  BY <2>2, <2>4, <2>5, <2>6, MaxActiveAssumption DEF CapKept
<1>9. Lease!Cardinality(Lease!Leased) = Cardinality(Lease!Leased)
  BY DEF Cardinality, Lease!Cardinality, IsFiniteSet, Lease!IsFiniteSet
<1> HIDE DEF IInv, TypeOK
<1>. QED  BY <1>5, <1>6, <1>7, <1>8, <1>9 DEF Lease!Grant, Spent
(* The end of a run, and its recovery after a crash, return the lease.     *)
LEMMA EndReturns ==
  ASSUME IInv, IInv', NEW r \in Run, run[r] = "running", NEW v \in {"succeeded", "failed", "canceled"},
         run' = [run EXCEPT ![r] = v], UNCHANGED taskOf
  PROVE  Lease!Return(taskOf[r])
<1> DEFINE t == taskOf[r]
<1>1. t \in Task /\ Owner[t] = r
  BY OwnerIs DEF OwnerIsRunning, IInv, RowsMatch
<1>2. Owner' = [Owner EXCEPT ![t] = NoRun]
  <2>1. Owner'[t] = NoRun
    <3>1. \A s \in Run : Owner'[t] # s
      BY <1>1, OwnerIs, OwnerIsNext DEF OwnerIsRunning, IInv, TypeOK
    <3>. QED  BY <1>1, <3>1, OwnerIsNext
  <2>2. ASSUME NEW u \in Task, u # t PROVE Owner'[u] = Owner[u]
    <3>1. \A s \in Run : Owner'[u] = s <=> Owner[u] = s
      BY <2>2, OwnerIs, OwnerIsNext DEF OwnerIsRunning, IInv, TypeOK
    <3>. QED  BY <3>1, OwnerIs, OwnerIsNext DEF OwnerIsRunning
  <2>. QED  BY <1>1, <2>1, <2>2, OwnerIs, OwnerIsNext DEF OwnerIsRunning
<1>3. Spent' = Spent
  BY DEF Spent, IInv, TypeOK
<1>4. Owner[t] # NoRun
  BY <1>1, RunAssumption
<1>. QED  BY <1>2, <1>3, <1>4 DEF Lease!Return, Spent

(* Every step grants a lease, returns one, or leaves the leases alone.     *)
LEMMA LeaseStep ==
  ASSUME IInv, IInv', Next
  PROVE  (\E t \in Task : Lease!Return(t) \/ \E r \in Run : Lease!Grant(t, r)) \/ UNCHANGED <<Owner, Spent>>
<1> DEFINE G == (\E t \in Task : Lease!Return(t) \/ \E r \in Run : Lease!Grant(t, r)) \/ UNCHANGED <<Owner, Spent>>
<1>1. ASSUME UNCHANGED <<run, taskOf>> PROVE UNCHANGED <<Owner, Spent>>
  BY <1>1, SameLeases
<1>2. ASSUME NEW o \in Op, Claim(o) PROVE G
  <2>1. target[o] \in Task /\ active[target[o]] \in Run
    BY <1>2 DEF Claim, IInv, TypeOK, RequestAt, ClaimHasHandle
  <2>2. Lease!Grant(target[o], active[target[o]])
    BY <1>2, ClaimGrants
  <2>3. \E t \in Task, r \in Run : Lease!Grant(t, r)
    BY <2>1, <2>2 DEF Lease!Grant
  <2>. QED  BY <2>3
<1>3. ASSUME NEW o \in Op, SaveDeleted(o) \/ SaveProjectDeleted(o) PROVE UNCHANGED <<Owner, Spent>>
  <2>1. \A t \in TasksOfOp(o) : t \in Task /\ status[t] # "running"
    BY <1>3, TasksOfRequest DEF SaveDeleted, SaveProjectDeleted, IInv, HeldIsQuiet, Holds
  <2>2. DeleteRows(TasksOfOp(o)) /\ UNCHANGED taskOf
    BY <1>3 DEF SaveDeleted, SaveProjectDeleted, TasksOfOp
  <2>3. \A r \in Run : run'[r] = "running" <=> run[r] = "running"
    BY <2>1, <2>2 DEF DeleteRows, IInv, RowsMatch, TypeOK
  <2>4. \A r \in Run : run'[r] = "none" <=> run[r] = "none"
    BY <2>2 DEF DeleteRows
  <2>. QED  BY <2>2, <2>3, <2>4, SameLeases
<1>4. ASSUME NEW o \in Op, Admit(o) PROVE UNCHANGED <<Owner, Spent>>
  <2>1. PICK s \in Run : stage[s] = "new" /\ taskOf' = [taskOf EXCEPT ![s] = target[o]]
    BY <1>4 DEF Admit
  <2>2. run[s] = "none" /\ UNCHANGED run
    BY <1>4, <2>1 DEF Admit, IInv, RowsMatch
  <2>3. \A r \in Run : run[r] = "running" => taskOf'[r] = taskOf[r]
    BY <2>1, <2>2 DEF IInv, TypeOK
  <2>. QED  BY <2>2, <2>3, SameLeases
<1>5. ASSUME NEW o \in Op, SavePushed(o) \/ ClaimFails(o) PROVE UNCHANGED <<run, taskOf>>
  BY <1>5 DEF SavePushed, ClaimFails, runVars
<1>6. ASSUME NEW r \in Run, RunStep(r) PROVE G
  <2>1. CASE ReconcileTerminalRun(r)
    <3>1. run[r] = "running" /\ taskOf[r] \in Task
      BY <2>1 DEF ReconcileTerminalRun, IInv, RowsMatch, Owning
    <3>2. PICK v \in {"succeeded", "failed", "canceled"} : run' = [run EXCEPT ![r] = v]
      BY <2>1 DEF ReconcileTerminalRun, WriteTerminalRunState, RunStatusOf
    <3>3. UNCHANGED taskOf
      BY <2>1 DEF ReconcileTerminalRun
    <3>. QED  BY <3>1, <3>2, <3>3, EndReturns
  <2>2. CASE Complete(r)
    BY <1>1, <2>2 DEF Complete
  <2>. QED  BY <1>1, <1>6, <2>1, <2>2, RunAdvances DEF IInv
<1>7. ASSUME NEW r \in Run, Recover(r) PROVE G
  <2>1. run[r] = "running" /\ taskOf[r] \in Task
    BY <1>7 DEF Recover, Interrupted, IInv, RowsMatch
  <2>2. run' = [run EXCEPT ![r] = "failed"] /\ UNCHANGED taskOf
    BY <1>7 DEF Recover
  <2>. QED  BY <2>1, <2>2, EndReturns
<1>8. CASE Crash \/ Listen \/ \E t \in Task : Create(t)
  BY <1>1, <1>8 DEF Crash, Listen, Create, runVars
<1>. QED  BY <1>1, <1>2, <1>3, <1>4, <1>5, <1>6, <1>7, <1>8, RowsFrame

(* A row lock, a unique index and a map in memory make runs leases of      *)
(* tasks: exclusive, at most agentMaxConcurrentRuns at a time, never       *)
(* granted twice, whatever crashes.                                        *)
THEOREM RunsAreLeases == Spec => ImplementsRunLease
<1>1. Init => Lease!Init
  <2> SUFFICES ASSUME Init PROVE Lease!Init  OBVIOUS
  <2>1. \A t \in Task : RunningRows(t) = {}
    BY DEF Init, RunningRows
  <2>2. Owner = [t \in Task |-> NoRun]
    BY <2>1 DEF Owner
  <2>3. {r \in Run : run[r] # "none"} = {}
    BY DEF Init
  <2>. QED  BY <2>2, <2>3 DEF Lease!Init
<1>2. IInv /\ IInv' /\ [Next]_vars => [Lease!Next]_<<Owner, {r \in Run : run[r] # "none"}>>
  <2>1. ASSUME IInv, IInv', Next PROVE [Lease!Next]_<<Owner, {r \in Run : run[r] # "none"}>>
    BY <2>1, LeaseStep DEF Lease!Next, Spent
  <2>2. ASSUME UNCHANGED vars PROVE UNCHANGED <<Owner, {r \in Run : run[r] # "none"}>>
    BY <2>2 DEF vars, runVars, Owner, RunningRows
  <2>. QED  BY <2>1, <2>2
<1>. QED  BY <1>1, <1>2, Invariant, PTL DEF Spec, ImplementsRunLease, Lease!Spec
=============================================================================
