------------------------- MODULE DeploymentsProofs -------------------------
(***************************************************************************)
(* IInv of Deployments is inductive, for any set of projects, workers and  *)
(* concurrent requests and any number of deployments.                      *)
(***************************************************************************)
EXTENDS Deployments, TLAPS

(* Every action keeps the types. *)
LEMMA TypeStep == IInv /\ Next => TypeOK'
<1> SUFFICES ASSUME IInv, Next PROVE TypeOK'  OBVIOUS
<1> USE MaxAssumption DEF IInv, TypeOK, rows, requests, workers, Dep, Results, Goto, Answer
<1>1. ASSUME NEW q \in Req, LookInMemory(q) PROVE TypeOK'
  BY <1>1 DEF LookInMemory, Reuse
<1>2. ASSUME NEW q \in Req, TakeLock(q) PROVE TypeOK'
  BY <1>2 DEF TakeLock, Reuse, Running
<1>3. ASSUME NEW q \in Req, ReadTarget(q) PROVE TypeOK'
  BY <1>3 DEF ReadTarget
<1>4. ASSUME NEW q \in Req, Insert(q) PROVE TypeOK'
  BY <1>4 DEF Insert
<1>5. ASSUME NEW q \in Req, Launch(q) PROVE TypeOK'
  BY <1>5 DEF Launch
<1>6. ASSUME NEW q \in Req, AnswerReused(q) \/ StartFails(q) PROVE TypeOK'
  BY <1>6 DEF AnswerReused, StartFails
<1>7. ASSUME NEW d \in Dep, LocalStep(d) PROVE TypeOK'
  <2> USE DEF Turn, CompleteLocal, FinishRow
  <2>1. CASE RunLocal(d)  BY <2>1 DEF RunLocal
  <2>2. CASE RecordSuccess(d)  BY <2>2 DEF RecordSuccess
  <2>3. CASE RecordSuccessFails(d)  BY <2>3 DEF RecordSuccessFails
  <2>4. CASE ReconcileTunnels(d)  BY <2>4 DEF ReconcileTunnels
  <2>5. CASE RecordFailure(d)  BY <2>5 DEF RecordFailure
  <2>. QED  BY <1>7, <2>1, <2>2, <2>3, <2>4, <2>5 DEF LocalStep
<1>8. ASSUME NEW n \in Worker, NextJob(n) PROVE TypeOK'
  BY <1>8 DEF NextJob, Goes, Oldest
<1>9. ASSUME NEW n \in Worker, JobStep(n) \/ WorkerRestarts(n) PROVE TypeOK'
  <2> USE DEF Goes, Send, AfterFailure, WorkerAt
  <2>1. CASE AcceptJob(n)  BY <2>1 DEF AcceptJob
  <2>2. CASE RunJob(n)
    <3>1. job[n] \in Dep  BY <2>2 DEF RunJob
    <3>2. [dep |-> job[n], result |-> "success"] \in Results  BY <3>1
    <3>3. posts' \subseteq Results  BY <2>2, <3>2 DEF RunJob
    <3>4. brought' \subseteq Dep  BY <2>2, <3>1 DEF RunJob
    <3>. QED  BY <2>2, <3>1, <3>3, <3>4 DEF RunJob
  <2>3. CASE JobFails(n)
    <3>1. job[n] \in Dep  BY <2>3 DEF JobFails
    <3>2. [dep |-> job[n], result |-> "failed"] \in Results  BY <3>1
    <3>3. posts' \subseteq Results  BY <2>3, <3>2 DEF JobFails
    <3>. QED  BY <2>3, <3>1, <3>3 DEF JobFails
  <2>4. CASE ReportFails(n)  BY <2>4 DEF ReportFails
  <2>5. CASE WorkerRestarts(n)  BY <2>5 DEF WorkerRestarts
  <2>. QED  BY <1>9, <2>1, <2>2, <2>3, <2>4, <2>5 DEF JobStep
<1>10. ASSUME NEW m \in Results, HandlePost(m) \/ LosePost(m) PROVE TypeOK'
  <2>1. m.dep \in Dep /\ m.result \in {"success", "failed"}
    OBVIOUS
  <2>2. row' \in [Dep -> {"none", "running", "success", "failed", "gone"}]
    BY <1>10, <2>1 DEF HandlePost, LosePost, FinishRow
  <2>3. /\ work' \in [Worker -> {"idle", "accepted", "running", "reporting", "failing"}]
        /\ job' \in [Worker -> Dep \cup {NoDep}]
        /\ posts' \subseteq Results
    BY <1>10 DEF HandlePost, LosePost, Goes
  <2>. QED  BY <1>10, <2>2, <2>3 DEF HandlePost, LosePost
<1>11. ASSUME NEW p \in Project, Retarget(p) \/ DeleteProject(p) PROVE TypeOK'
  BY <1>11 DEF Retarget, DeleteProject
<1>12. CASE Crash
  BY <1>12 DEF Crash
<1>13. CASE Restart
  BY <1>13 DEF Restart, Recovered
<1>. QED  BY <1>1, <1>2, <1>3, <1>4, <1>5, <1>6, <1>7, <1>8, <1>9, <1>10, <1>11, <1>12, <1>13 DEF Next, ReqStep

(* A step other than an insert only takes deployments forward: none comes  *)
(* back to running, none reappears, and no row changes its project.        *)
Forward ==
  /\ UNCHANGED <<count, of, on>>
  /\ projects' \subseteq projects
  /\ \A d \in Dep : /\ row'[d] = "none" <=> row[d] = "none"
                    /\ row'[d] = "running" => row[d] = "running"
                    /\ row'[d] = "gone" \/ row[d] # "gone"

(* Every step is an insert or goes forward. *)
LEMMA RowsMove == IInv /\ Next => Forward \/ \E q \in Req : Insert(q)
<1> SUFFICES ASSUME IInv, Next, ~\E q \in Req : Insert(q) PROVE Forward  OBVIOUS
<1> USE DEF IInv, TypeOK, rows, Forward
<1>1. ASSUME NEW q \in Req, LookInMemory(q) \/ ReqStep(q) PROVE Forward
  BY <1>1 DEF LookInMemory, ReqStep, TakeLock, ReadTarget, Launch, AnswerReused, StartFails
<1>2. ASSUME NEW d \in Dep, LocalStep(d) PROVE Forward
  BY <1>2 DEF LocalStep, RunLocal, RecordSuccess, RecordSuccessFails, ReconcileTunnels, RecordFailure, FinishRow, Exists
<1>3. ASSUME NEW n \in Worker, NextJob(n) \/ JobStep(n) \/ WorkerRestarts(n) PROVE Forward
  BY <1>3 DEF NextJob, JobStep, AcceptJob, RunJob, JobFails, ReportFails, WorkerRestarts
<1>4. ASSUME NEW m \in Results, HandlePost(m) \/ LosePost(m) PROVE Forward
  BY <1>4 DEF HandlePost, LosePost, FinishRow, Exists, Results
<1>5. ASSUME NEW p \in Project, Retarget(p) \/ DeleteProject(p) PROVE Forward
  BY <1>5 DEF Retarget, DeleteProject, Exists
<1>6. CASE Crash \/ Restart
  BY <1>6 DEF Crash, Restart, Recovered
<1>. QED  BY <1>1, <1>2, <1>3, <1>4, <1>5, <1>6 DEF Next

(* Rows only end, projects only go: so what runs is only less. *)
LEMMA RunningShrinks ==
  ASSUME Forward, NEW p \in Project
  PROVE  Running(p)' \subseteq Running(p)
BY DEF Forward, Running

(* The rows are numbered in order and belong to projects that exist. *)
LEMMA RowsStep == IInv /\ Next => Rows'
<1> SUFFICES ASSUME IInv, Next PROVE Rows'  OBVIOUS
<1> USE MaxAssumption DEF IInv, TypeOK, Rows, Exists
<1>1. ASSUME NEW q \in Req, Insert(q) PROVE Rows'
  BY <1>1 DEF Insert, RequestAt, Dep
<1>2. ASSUME Forward, ~\E p \in Project : DeleteProject(p) PROVE Rows'
  <2>1. projects' = projects /\ \A d \in Dep : row'[d] = "gone" => row[d] = "gone"
    <3> USE DEF rows
    <3>1. ASSUME NEW q \in Req, LookInMemory(q) \/ TakeLock(q) \/ ReadTarget(q) \/ Launch(q) \/ AnswerReused(q) \/ StartFails(q)
          PROVE  UNCHANGED rows
      BY <3>1 DEF LookInMemory, TakeLock, ReadTarget, Launch, AnswerReused, StartFails
    <3>2. ASSUME NEW d \in Dep, LocalStep(d) PROVE <2>1
      BY <3>2 DEF LocalStep, RunLocal, RecordSuccess, RecordSuccessFails, ReconcileTunnels, RecordFailure, FinishRow
    <3>3. ASSUME NEW n \in Worker, NextJob(n) \/ JobStep(n) \/ WorkerRestarts(n) PROVE UNCHANGED rows
      BY <3>3 DEF NextJob, JobStep, AcceptJob, RunJob, JobFails, ReportFails, WorkerRestarts
    <3>4. ASSUME NEW m \in Results, HandlePost(m) \/ LosePost(m) PROVE <2>1
      BY <3>4 DEF HandlePost, LosePost, FinishRow, Results
    <3>5. ASSUME NEW p \in Project, Retarget(p) PROVE <2>1
      BY <3>5 DEF Retarget
    <3>6. ASSUME NEW q \in Req, Insert(q) PROVE <2>1
      BY <3>6 DEF Insert
    <3>7. CASE Crash \/ Restart
      BY <3>7 DEF Crash, Restart, Recovered
    <3>. QED  BY <1>2, <3>1, <3>2, <3>3, <3>4, <3>5, <3>6, <3>7 DEF Next, ReqStep
  <2>. QED  BY <1>2, <2>1, TypeStep DEF Forward
<1>3. ASSUME NEW p \in Project, DeleteProject(p) PROVE Rows'
  BY <1>3 DEF DeleteProject
<1>. QED  BY <1>1, <1>2, <1>3, RowsMove

(* One holder per lock, and nothing runs while it is held. *)
LEMMA LockStep == IInv /\ Next => LockHeldOnce' /\ NoneWhileHeld' /\ OneRunning'
<1> SUFFICES ASSUME IInv, Next PROVE LockHeldOnce' /\ NoneWhileHeld' /\ OneRunning'  OBVIOUS
<1> USE DEF IInv, TypeOK, HoldsLock
<1>1. ASSUME NEW q \in Req, Insert(q) PROVE LockHeldOnce' /\ NoneWhileHeld' /\ OneRunning'
  <2> USE DEF Insert, Goto, RequestAt
  <2>1. /\ proj[q] \in Project /\ Running(proj[q]) = {} /\ count + 1 \in Dep /\ ~HoldsLock(q)'
        /\ \A r \in Req : r # q => at'[r] = at[r]
        /\ proj' = proj
    BY <1>1, MaxAssumption DEF Dep, NoneWhileHeld
  <2>2. LockHeldOnce'
    BY <1>1, <2>1 DEF LockHeldOnce
  <2>3. \A p \in Project : Running(p)' = IF p = proj[q] THEN {count + 1} ELSE Running(p)
    BY <1>1, <2>1 DEF Running, Rows, Dep
  <2>4. \A r \in Req : HoldsLock(r)' => r # q /\ HoldsLock(r) /\ proj[r] # proj[q] /\ proj[r] \in Project
    BY <1>1, <2>1 DEF LockHeldOnce
  <2>5. NoneWhileHeld'
    BY <2>1, <2>3, <2>4 DEF NoneWhileHeld
  <2>6. OneRunning'
    BY <2>3 DEF OneRunning
  <2>. QED  BY <2>2, <2>5, <2>6
<1>2. ASSUME Forward PROVE LockHeldOnce' /\ NoneWhileHeld' /\ OneRunning'
  <2>1. OneRunning'
    BY <1>2, RunningShrinks DEF OneRunning
  <2>2. ASSUME NEW q \in Req, TakeLock(q) PROVE LockHeldOnce' /\ NoneWhileHeld'
    <3> USE DEF TakeLock, Reuse, Goto, requests
    <3>1. /\ proj' = proj
          /\ \A r \in Req : r # q => at'[r] = at[r]
          /\ HoldsLock(q)' => Running(proj[q]) = {}
          /\ \A r \in Req : HoldsLock(r) => proj[r] # proj[q]
      BY <2>2 DEF LockFree
    <3>2. LockHeldOnce'
      BY <3>1 DEF LockHeldOnce
    <3>3. \A r \in Req : HoldsLock(r)' => Running(proj[r]) = {} /\ proj[r] \in Project
      BY <2>2, <3>1 DEF NoneWhileHeld, RequestAt
    <3>4. NoneWhileHeld'
      BY <1>2, <3>1, <3>3, RunningShrinks DEF NoneWhileHeld
    <3>. QED  BY <3>2, <3>4
  <2>3. ASSUME \A r \in Req : HoldsLock(r)' => HoldsLock(r) /\ proj'[r] = proj[r]
        PROVE  LockHeldOnce' /\ NoneWhileHeld'
    <3>1. LockHeldOnce'
      BY <2>3 DEF LockHeldOnce
    <3>2. \A r \in Req : HoldsLock(r)' => proj[r] \in Project /\ Running(proj[r]) = {}
      BY <2>3 DEF RequestAt, NoneWhileHeld
    <3>3. NoneWhileHeld'
      BY <1>2, <2>3, <3>2, RunningShrinks DEF NoneWhileHeld
    <3>. QED  BY <3>1, <3>3
  <2>4. ASSUME NEW q \in Req, LookInMemory(q) \/ ReadTarget(q) \/ Launch(q) \/ AnswerReused(q) \/ StartFails(q)
        PROVE  \A r \in Req : HoldsLock(r)' => HoldsLock(r) /\ proj'[r] = proj[r]
    BY <2>4 DEF LookInMemory, ReadTarget, Launch, AnswerReused, StartFails, Reuse, Goto, Answer
  <2>5. ASSUME UNCHANGED requests \/ Crash
        PROVE  \A r \in Req : HoldsLock(r)' => HoldsLock(r) /\ proj'[r] = proj[r]
    BY <2>5 DEF requests, Crash
  <2>6. ASSUME NEW d \in Dep, LocalStep(d) PROVE UNCHANGED requests
    BY <2>6 DEF LocalStep, RunLocal, RecordSuccess, RecordSuccessFails, ReconcileTunnels, RecordFailure
  <2>7. ASSUME NEW n \in Worker, NextJob(n) \/ JobStep(n) \/ WorkerRestarts(n) PROVE UNCHANGED requests
    BY <2>7 DEF NextJob, JobStep, AcceptJob, RunJob, JobFails, ReportFails, WorkerRestarts
  <2>8. ASSUME NEW m \in Results, HandlePost(m) \/ LosePost(m) PROVE UNCHANGED requests
    BY <2>8 DEF HandlePost, LosePost
  <2>9. ASSUME NEW p \in Project, Retarget(p) \/ DeleteProject(p) PROVE UNCHANGED requests
    BY <2>9 DEF Retarget, DeleteProject
  <2>10. CASE Restart
    BY <2>1, <2>3, <2>5, <2>10 DEF Restart
  <2>. QED  BY <1>1, <2>1, <2>2, <2>3, <2>4, <2>5, <2>6, <2>7, <2>8, <2>9, <2>10 DEF Next, ReqStep
<1>. QED  BY <1>1, <1>2, RowsMove

(* A started deployment waits, unchanged, for the request that launches it. *)
LEMMA RequestsStep == IInv /\ Next => (\A q \in Req : RequestAt(q))' /\ LaunchedOnce'
<1> DEFINE P == (\A r \in Req : RequestAt(r)') /\ LaunchedOnce'
<1> SUFFICES ASSUME IInv, Next PROVE P  OBVIOUS
<1> USE MaxAssumption, NodeAssumption
<1> USE DEF IInv, TypeOK
<1>0. ASSUME NEW r \in Req, at[r] = "launching"
      PROVE  /\ found[r] \in Dep /\ found[r] <= count /\ proj[r] \in Project /\ node[r] \in Node
             /\ of[found[r]] = proj[r] /\ on[found[r]] = node[r] /\ local[found[r]] = "none"
             /\ node[r] = Master => row[found[r]] \in {"running", "gone"}
  BY <1>0 DEF RequestAt, Dep
<1>1. ASSUME NEW q \in Req, LookInMemory(q) PROVE P
  BY <1>1 DEF LookInMemory, Goto, Reuse, rows, RequestAt, LaunchedOnce
<1>2. ASSUME NEW q \in Req, TakeLock(q) PROVE P
  BY <1>2 DEF TakeLock, Goto, Reuse, rows, RequestAt, LaunchedOnce
<1>3. ASSUME NEW q \in Req, ReadTarget(q) PROVE P
  BY <1>3 DEF ReadTarget, Goto, rows, RequestAt, LaunchedOnce
<1>4. ASSUME NEW q \in Req, Insert(q) PROVE P
  <2> USE DEF Insert, Goto
  <2>1. /\ count + 1 \in Dep /\ count \in Nat /\ count' = count + 1
        /\ proj[q] \in Project /\ node[q] \in Node
        /\ \A r \in Req : at[r] = "launching" => r # q /\ found[r] # count + 1
    BY <1>4, <1>0 DEF Dep, RequestAt
  <2>2. local[count + 1] = "none"
    BY <2>1 DEF LocalAt
  <2>3. RequestAt(q)'
    BY <1>4, <2>1, <2>2 DEF RequestAt
  <2>4. ASSUME NEW r \in Req, r # q PROVE RequestAt(r)'
    BY <1>4, <1>0, <2>1, <2>4 DEF RequestAt
  <2>5. LaunchedOnce'
    BY <1>4, <2>1 DEF LaunchedOnce
  <2>. QED  BY <2>3, <2>4, <2>5
<1>5. ASSUME NEW q \in Req, Launch(q) PROVE P
  <2> USE DEF Launch, Goto, Answer, rows
  <2>1. /\ \A r \in Req : r # q => /\ at'[r] = at[r] /\ proj'[r] = proj[r]
                                  /\ node'[r] = node[r] /\ found'[r] = found[r]
        /\ at'[q] = "idle" /\ UNCHANGED rows
    BY <1>5
  <2>2. \A r \in Req : r # q /\ at[r] = "launching" => local'[found[r]] = local[found[r]]
    BY <1>5, <1>0 DEF LaunchedOnce
  <2>3. \A r \in Req : RequestAt(r)'
    BY <2>1, <2>2 DEF RequestAt
  <2>4. LaunchedOnce'
    BY <2>1 DEF LaunchedOnce
  <2>. QED  BY <2>3, <2>4
<1>6. ASSUME NEW q \in Req, AnswerReused(q) \/ StartFails(q) PROVE P
  BY <1>6 DEF AnswerReused, StartFails, Answer, Goto, rows, RequestAt, LaunchedOnce
<1>7. ASSUME UNCHANGED requests, UNCHANGED <<count, of, on>>,
             \A r \in Req : at[r] = "launching"
                => /\ local'[found[r]] = "none"
                   /\ node[r] = Master => row'[found[r]] \in {"running", "gone"}
      PROVE  P
  BY <1>0, <1>7 DEF requests, RequestAt, LaunchedOnce
<1>8. ASSUME NEW d \in Dep, LocalStep(d) PROVE P
  <2>1. /\ UNCHANGED <<count, of, on, requests>>
        /\ local[d] # "none"
        /\ \A e \in Dep \ {d} : local'[e] = local[e] /\ row'[e] = row[e]
    BY <1>8 DEF LocalStep, RunLocal, RecordSuccess, RecordSuccessFails, ReconcileTunnels, RecordFailure,
                FinishRow, Turn, CompleteLocal, rows
  <2>. QED  BY <1>0, <1>7, <2>1
<1>9. ASSUME NEW n \in Worker, NextJob(n) \/ JobStep(n) \/ WorkerRestarts(n) PROVE P
  <2>1. UNCHANGED <<rows, requests, local>>
    BY <1>9 DEF NextJob, JobStep, AcceptJob, RunJob, JobFails, ReportFails, WorkerRestarts
  <2>. QED  BY <1>0, <1>7, <2>1 DEF rows
<1>10. ASSUME NEW m \in Results, HandlePost(m) \/ LosePost(m) PROVE P
  <2>1. m.dep \in Dep /\ on[m.dep] # Master
    BY <1>10 DEF HandlePost, LosePost, PostsAt, Results
  <2>2. /\ UNCHANGED <<count, of, on, requests, local>>
        /\ \A e \in Dep \ {m.dep} : row'[e] = row[e]
    BY <1>10 DEF HandlePost, LosePost, FinishRow, rows
  <2>. QED  BY <1>0, <1>7, <2>1, <2>2
<1>11. ASSUME NEW p \in Project, Retarget(p) \/ DeleteProject(p) PROVE P
  <2>1. /\ UNCHANGED <<count, of, on, requests, local>>
        /\ \A e \in Dep : row'[e] \in {row[e], "gone"}
    BY <1>11 DEF Retarget, DeleteProject
  <2>. QED  BY <1>0, <1>7, <2>1
<1>12. CASE Crash
  BY <1>12 DEF Crash, RequestAt, LaunchedOnce
<1>13. CASE Restart
  <2>1. \A r \in Req : at[r] = "idle" /\ at'[r] = "idle"
    BY <1>13 DEF Restart, DownIsQuiet, requests
  <2>. QED  BY <2>1 DEF RequestAt, LaunchedOnce
<1>. QED
  BY <1>1, <1>2, <1>3, <1>4, <1>5, <1>6, <1>8, <1>9, <1>10, <1>11, <1>12, <1>13 DEF Next, ReqStep

(* What a step may do to local runs, by kind of step. *)
Launches(q) == /\ at[q] = "launching" /\ node[q] = Master
               /\ local' = [local EXCEPT ![found[q]] = "running"]
               /\ active' = [active EXCEPT ![proj[q]] = found[q]]
               /\ UNCHANGED <<rows, workers, brought, up>>
LEMMA LocalsMove ==
  IInv /\ Next => \/ UNCHANGED <<local, active, up>>
                  \/ \E q \in Req : Launches(q)
                  \/ \E d \in Dep : LocalStep(d)
                  \/ Crash \/ Restart
<1> SUFFICES ASSUME IInv, Next PROVE \/ UNCHANGED <<local, active, up>>
                                     \/ \E q \in Req : Launches(q)
                                     \/ \E d \in Dep : LocalStep(d)
                                     \/ Crash \/ Restart
  OBVIOUS
<1>1. ASSUME NEW q \in Req, LookInMemory(q) \/ ReqStep(q)
      PROVE  UNCHANGED <<local, active, up>> \/ Launches(q)
  BY <1>1 DEF LookInMemory, ReqStep, TakeLock, ReadTarget, Insert, Launch, AnswerReused, StartFails, Launches
<1>2. ASSUME NEW n \in Worker, NextJob(n) \/ JobStep(n) \/ WorkerRestarts(n)
      PROVE  UNCHANGED <<local, active, up>>
  BY <1>2 DEF NextJob, JobStep, AcceptJob, RunJob, JobFails, ReportFails, WorkerRestarts
<1>3. ASSUME NEW m \in Results, HandlePost(m) \/ LosePost(m) PROVE UNCHANGED <<local, active, up>>
  BY <1>3 DEF HandlePost, LosePost
<1>4. ASSUME NEW p \in Project, Retarget(p) \/ DeleteProject(p) PROVE UNCHANGED <<local, active, up>>
  BY <1>4 DEF Retarget, DeleteProject
<1>. QED  BY <1>1, <1>2, <1>3, <1>4 DEF Next

(* A local run acts on a deployment of the master, and records a success   *)
(* only after a complete run.                                              *)
LEMMA LocalsStep == IInv /\ Next => (\A d \in Dep : LocalAt(d))'
<1> SUFFICES ASSUME IInv, Next PROVE \A d \in Dep : LocalAt(d)'  OBVIOUS
<1> USE DEF IInv, TypeOK
<1>1. brought \subseteq brought' /\ \A d \in Dep : d <= count => d <= count' /\ on'[d] = on[d]
  <2>1. brought \subseteq brought'
    BY DEF Next, LookInMemory, ReqStep, TakeLock, ReadTarget, Insert, Launch, AnswerReused, StartFails,
           LocalStep, RunLocal, RecordSuccess, RecordSuccessFails, ReconcileTunnels, RecordFailure,
           NextJob, JobStep, AcceptJob, RunJob, JobFails, ReportFails, WorkerRestarts,
           HandlePost, LosePost, Retarget, DeleteProject, Crash, Restart
  <2>2. ASSUME NEW q \in Req, Insert(q) PROVE \A d \in Dep : d <= count => d <= count' /\ on'[d] = on[d]
    BY <2>2, MaxAssumption DEF Insert, Dep
  <2>. QED  BY <2>1, <2>2, RowsMove DEF Forward
<1>2. ASSUME UNCHANGED local PROVE \A d \in Dep : LocalAt(d)'
  BY <1>1, <1>2 DEF LocalAt
<1>3. ASSUME NEW q \in Req, Launches(q) PROVE \A d \in Dep : LocalAt(d)'
  <2>1. found[q] \in Dep /\ found[q] <= count /\ on[found[q]] = Master
    BY <1>3, MaxAssumption DEF Launches, RequestAt, Dep
  <2>. QED  BY <1>3, <2>1 DEF Launches, rows, LocalAt
<1>4. ASSUME NEW d \in Dep, LocalStep(d) PROVE \A e \in Dep : LocalAt(e)'
  <2>1. /\ \A e \in Dep \ {d} : local'[e] = local[e]
        /\ local[d] # "none"
        /\ local'[d] \in {"recording", "tunnels"} => d \in brought'
    BY <1>4 DEF LocalStep, RunLocal, RecordSuccess, RecordSuccessFails, ReconcileTunnels, RecordFailure,
                Turn, CompleteLocal, LocalAt
  <2>2. local \in [Dep -> {"none", "running", "recording", "tunnels", "failing", "over"}]
    OBVIOUS
  <2>. QED  BY <1>1, <2>1 DEF LocalAt
<1>5. ASSUME Crash \/ Restart PROVE \A d \in Dep : LocalAt(d)'
  BY <1>1, <1>5 DEF Crash, Restart, LocalAt
<1>. QED  BY <1>2, <1>3, <1>4, <1>5, LocalsMove

(* A worker's job and its results concern deployments of that worker; a    *)
(* success is posted only after a complete run.                            *)
LEMMA WorkersStep == IInv /\ Next => (\A n \in Worker : WorkerAt(n))' /\ PostsAt'
<1> DEFINE P == (\A n \in Worker : WorkerAt(n)') /\ PostsAt'
<1> SUFFICES ASSUME IInv, Next PROVE P  OBVIOUS
<1> USE MaxAssumption DEF IInv, TypeOK
<1>1. ASSUME NEW q \in Req, Insert(q) PROVE P
  <2>1. \A d \in Dep : d <= count => d <= count' /\ on'[d] = on[d]
    BY <1>1 DEF Insert, Dep
  <2>2. UNCHANGED <<workers, brought>>
    BY <1>1 DEF Insert
  <2>3. count' \in Nat /\ count \in Nat /\ count <= count' /\ \A d \in 1..count : d \in Dep /\ d \in 1..count'
    BY <1>1 DEF Insert, Dep
  <2>4. \A n \in Worker : WorkerAt(n)'
    BY <2>1, <2>2, <2>3 DEF workers, WorkerAt, Dep
  <2>5. \A m \in posts : m.dep \in Dep
    BY DEF Results
  <2>6. PostsAt'
    BY <2>1, <2>2, <2>5 DEF workers, PostsAt
  <2>. QED  BY <2>4, <2>6
<1>2. ASSUME UNCHANGED <<count, on>>, brought \subseteq brought', work' = work, job' = job, posts' \subseteq posts PROVE P
  BY <1>2 DEF WorkerAt, PostsAt
<1>3. ASSUME NEW n \in Worker, NextJob(n) PROVE P
  <2>1. PICK d \in Oldest(n) : Goes(n, "accepted", d)
    BY <1>3 DEF NextJob
  <2>2. d \in 1..count /\ on[d] = n
    BY <2>1 DEF Oldest, Rows, Dep
  <2>3. UNCHANGED <<count, on, posts, brought>>
    BY <1>3 DEF NextJob, rows
  <2>. QED  BY <2>1, <2>2, <2>3 DEF Goes, WorkerAt, PostsAt
<1>4. ASSUME NEW n \in Worker, JobStep(n) \/ WorkerRestarts(n) PROVE P
  <2>1. /\ UNCHANGED <<count, on>>
        /\ brought \subseteq brought'
        /\ job[n] \in 1..count /\ on[job[n]] = n /\ job[n] <= count
    BY <1>4 DEF JobStep, AcceptJob, RunJob, JobFails, ReportFails, WorkerRestarts, rows, WorkerAt
  <2>2. \E stage \in {"running", "reporting", "failing", "idle"}, j \in {job[n], NoDep} :
           /\ Goes(n, stage, j)
           /\ stage # "idle" => j = job[n]
    BY <1>4 DEF JobStep, AcceptJob, RunJob, JobFails, ReportFails, WorkerRestarts
  <2>3. \A k \in Worker : WorkerAt(k)'
    BY <2>1, <2>2 DEF WorkerAt, Goes
  <2>4. \A m \in posts' \ posts : m.dep = job[n] /\ (m.result = "success" => job[n] \in brought')
    BY <1>4 DEF JobStep, AcceptJob, RunJob, JobFails, ReportFails, WorkerRestarts, Send, AfterFailure
  <2>5. PostsAt'
    BY <2>1, <2>4 DEF PostsAt
  <2>. QED  BY <2>3, <2>5
<1>5. ASSUME NEW m \in Results, HandlePost(m) \/ LosePost(m) PROVE P
  <2>1. UNCHANGED <<count, on, brought>> /\ posts' \subseteq posts
    BY <1>5 DEF HandlePost, LosePost, rows
  <2>2. (UNCHANGED <<work, job>>) \/ \E n \in Worker : Goes(n, "idle", NoDep)
    BY <1>5 DEF HandlePost, LosePost
  <2>. QED  BY <2>1, <2>2 DEF Goes, WorkerAt, PostsAt
<1>6. ASSUME NEW q \in Req, LookInMemory(q) \/ TakeLock(q) \/ ReadTarget(q) \/ Launch(q) \/ AnswerReused(q) \/ StartFails(q)
      PROVE  P
  BY <1>2, <1>6 DEF LookInMemory, TakeLock, ReadTarget, Launch, AnswerReused, StartFails, rows, workers
<1>7. ASSUME NEW d \in Dep, LocalStep(d) PROVE P
  BY <1>2, <1>7 DEF LocalStep, RunLocal, RecordSuccess, RecordSuccessFails, ReconcileTunnels, RecordFailure, rows, workers
<1>8. ASSUME NEW p \in Project, Retarget(p) \/ DeleteProject(p) PROVE P
  BY <1>2, <1>8 DEF Retarget, DeleteProject, workers
<1>9. CASE Crash \/ Restart
  BY <1>2, <1>9 DEF Crash, Restart, rows, workers
<1>. QED  BY <1>1, <1>3, <1>4, <1>5, <1>6, <1>7, <1>8, <1>9 DEF Next, ReqStep

(* A row becomes a success only when its run has been completed.           *)
LEMMA BroughtStep == IInv /\ Next => SuccessWasBrought' /\ DownIsQuiet'
<1> DEFINE P == /\ brought \subseteq brought'
                /\ \A d \in Dep : row'[d] = "success" => row[d] = "success" \/ d \in brought
                /\ DownIsQuiet'
<1> SUFFICES ASSUME IInv, Next PROVE P
  BY DEF IInv, SuccessWasBrought
<1> USE DEF IInv, TypeOK, DownIsQuiet
<1>1. ASSUME NEW q \in Req, LookInMemory(q) \/ TakeLock(q) \/ ReadTarget(q) \/ Launch(q) \/ AnswerReused(q) \/ StartFails(q)
      PROVE  P
  BY <1>1 DEF LookInMemory, TakeLock, ReadTarget, Launch, AnswerReused, StartFails, rows, workers
<1>2. ASSUME NEW q \in Req, Insert(q) PROVE P
  BY <1>2 DEF Insert, workers
<1>3. ASSUME NEW d \in Dep, LocalStep(d) PROVE P
  BY <1>3 DEF LocalStep, RunLocal, RecordSuccess, RecordSuccessFails, ReconcileTunnels, RecordFailure,
              FinishRow, LocalAt, rows, workers
<1>4. ASSUME NEW n \in Worker, NextJob(n) \/ JobStep(n) \/ WorkerRestarts(n) PROVE P
  BY <1>4 DEF NextJob, JobStep, AcceptJob, RunJob, JobFails, ReportFails, WorkerRestarts, Send, rows, requests
<1>5. ASSUME NEW m \in Results, HandlePost(m) \/ LosePost(m) PROVE P
  BY <1>5 DEF HandlePost, LosePost, FinishRow, PostsAt, Results, rows, requests
<1>6. ASSUME NEW p \in Project, Retarget(p) \/ DeleteProject(p) PROVE P
  BY <1>6 DEF Retarget, DeleteProject, workers, requests
<1>7. CASE Crash
  BY <1>7 DEF Crash, rows
<1>8. CASE Restart
  BY <1>8 DEF Restart, Recovered, workers, requests
<1>. QED  BY <1>1, <1>2, <1>3, <1>4, <1>5, <1>6, <1>7, <1>8 DEF Next, ReqStep

(* The row of a local run: only the run itself, a deletion or a restart    *)
(* takes it out of "running".                                              *)
LEMMA OwnRow ==
  ASSUME IInv, Next, NEW d \in Dep, on[d] = Master, ~Restart, ~LocalStep(d), row[d] \in {"running", "gone"}
  PROVE  row'[d] \in {"running", "gone"}
<1> USE DEF IInv, TypeOK
<1>1. ASSUME NEW q \in Req, LookInMemory(q) \/ ReqStep(q) PROVE row'[d] \in {"running", "gone"}
  BY <1>1 DEF LookInMemory, ReqStep, TakeLock, ReadTarget, Insert, Launch, AnswerReused, StartFails, rows
<1>2. ASSUME NEW e \in Dep, LocalStep(e) PROVE row'[d] \in {"running", "gone"}
  BY <1>2 DEF LocalStep, RunLocal, RecordSuccess, RecordSuccessFails, ReconcileTunnels, RecordFailure, FinishRow, rows
<1>3. ASSUME NEW n \in Worker, NextJob(n) \/ JobStep(n) \/ WorkerRestarts(n) PROVE row'[d] \in {"running", "gone"}
  BY <1>3 DEF NextJob, JobStep, AcceptJob, RunJob, JobFails, ReportFails, WorkerRestarts, rows
<1>4. ASSUME NEW m \in Results, HandlePost(m) \/ LosePost(m) PROVE row'[d] \in {"running", "gone"}
  BY <1>4, NodeAssumption DEF HandlePost, LosePost, FinishRow, PostsAt, Results, rows
<1>5. ASSUME NEW p \in Project, Retarget(p) \/ DeleteProject(p) PROVE row'[d] \in {"running", "gone"}
  BY <1>5 DEF Retarget, DeleteProject
<1>6. CASE Crash
  BY <1>6 DEF Crash, rows
<1>. QED  BY <1>1, <1>2, <1>3, <1>4, <1>5, <1>6 DEF Next

(* Every running deployment of the master keeps somebody who finishes it.  *)
LEMMA OwnedStep == IInv /\ Next => RunningIsOwned'
<1> SUFFICES ASSUME IInv, Next, up' PROVE RunningIsOwned'
  BY DEF RunningIsOwned
<1> USE DEF IInv, TypeOK
<1>1. CASE Restart
  <2>1. \A d \in Dep : local'[d] \in {"none", "over"} /\ row'[d] # "running"
    BY <1>1 DEF Restart, Recovered, DownIsQuiet
  <2>. QED  BY <2>1 DEF RunningIsOwned
<1>2. ASSUME NEW q \in Req, Insert(q) PROVE RunningIsOwned'
  <2> USE DEF Insert, Goto
  <2>0. PICK n \in Dep : n = count + 1
    BY <1>2, MaxAssumption DEF Dep
  <2>1. local[n] = "none" /\ at[q] # "launching"
    BY <1>2, <2>0, MaxAssumption DEF LocalAt, Dep
  <2>2. \A d \in Dep : Owned(d) => Owned(d)'
    BY <1>2, <2>1 DEF Owned
  <2>3. Owned(n)'
    <3>1. at'[q] = "launching" /\ found'[q] = n
      BY <1>2, <2>0
    <3>. QED  BY <3>1 DEF Owned
  <2>4. /\ \A d \in Dep : d # n => row'[d] = row[d] /\ on'[d] = on[d]
        /\ UNCHANGED <<local, up>>
    BY <1>2, <2>0
  <2>5. \A d \in Dep : row'[d] = "running" /\ on'[d] = Master => Owned(d)'
    BY <2>2, <2>3, <2>4 DEF RunningIsOwned
  <2>6. \A d \in Dep : local'[d] \in {"running", "recording"} => row'[d] \in {"running", "gone"}
    BY <2>1, <2>4 DEF RunningIsOwned
  <2>. QED  BY <2>5, <2>6 DEF RunningIsOwned
<1>3. ASSUME Forward, ~Restart, up PROVE RunningIsOwned'
  <2>1. ASSUME NEW d \in Dep, row'[d] = "running", on[d] = Master PROVE Owned(d)'
    <3>1. Owned(d) /\ row[d] = "running"
      BY <1>3, <2>1 DEF Forward, RunningIsOwned
    <3>2. CASE local[d] \in {"running", "recording", "failing"} /\ ~LocalStep(d)
      <4>1. local'[d] = local[d] \/ local'[d] = "running"
        <5>1. ASSUME NEW q \in Req, Launches(q) PROVE local'[d] \in {local[d], "running"}
          BY <5>1 DEF Launches
        <5>2. ASSUME NEW e \in Dep, LocalStep(e) PROVE local'[d] = local[d]
          BY <3>2, <5>2 DEF LocalStep, RunLocal, RecordSuccess, RecordSuccessFails, ReconcileTunnels,
                            RecordFailure, Turn, CompleteLocal
        <5>. QED  BY <1>3, <5>1, <5>2, LocalsMove DEF Crash
      <4>. QED  BY <3>2, <4>1 DEF Owned
    <3>3. CASE LocalStep(d)
      <4>1. local[d] \in {"running", "recording", "failing"}
        BY <3>1, <3>3 DEF LocalStep, RunLocal, RecordSuccess, RecordSuccessFails, ReconcileTunnels,
                          RecordFailure, Owned, RequestAt
      <4>2. ~RecordSuccess(d) /\ ~RecordFailure(d)
        BY <2>1, <3>1 DEF RecordSuccess, RecordFailure, FinishRow, Exists
      <4>3. local'[d] \in {"recording", "failing"}
        BY <3>3, <4>1, <4>2 DEF LocalStep, RunLocal, RecordSuccessFails, ReconcileTunnels, Turn
      <4>. QED  BY <4>3 DEF Owned
    <3>4. ASSUME NEW q \in Req, at[q] = "launching", found[q] = d PROVE Owned(d)'
      <4>1. CASE Launch(q)
        BY <2>1, <3>4, <4>1 DEF Launch, RequestAt, Owned
      <4>2. CASE ~Launch(q)
        <5>1. at'[q] = "launching" /\ found'[q] = d
          <6>1. ASSUME NEW r \in Req, LookInMemory(r) \/ ReqStep(r) PROVE <5>1
            BY <3>4, <4>2, <6>1 DEF LookInMemory, ReqStep, TakeLock, ReadTarget, Insert, Launch, AnswerReused,
                                    StartFails, Goto, Answer, Reuse
          <6>2. ASSUME UNCHANGED requests PROVE <5>1
            BY <3>4, <6>2 DEF requests
          <6>3. ASSUME NEW e \in Dep, LocalStep(e) PROVE UNCHANGED requests
            BY <6>3 DEF LocalStep, RunLocal, RecordSuccess, RecordSuccessFails, ReconcileTunnels, RecordFailure
          <6>4. ASSUME NEW n \in Worker, NextJob(n) \/ JobStep(n) \/ WorkerRestarts(n) PROVE UNCHANGED requests
            BY <6>4 DEF NextJob, JobStep, AcceptJob, RunJob, JobFails, ReportFails, WorkerRestarts
          <6>5. ASSUME NEW m \in Results, HandlePost(m) \/ LosePost(m) PROVE UNCHANGED requests
            BY <6>5 DEF HandlePost, LosePost
          <6>6. ASSUME NEW p \in Project, Retarget(p) \/ DeleteProject(p) PROVE UNCHANGED requests
            BY <6>6 DEF Retarget, DeleteProject
          <6>7. ~Crash
            BY DEF Crash
          <6>. QED  BY <1>3, <6>1, <6>2, <6>3, <6>4, <6>5, <6>6, <6>7 DEF Next
        <5>. QED  BY <5>1 DEF Owned
      <4>. QED  BY <4>1, <4>2
    <3>. QED  BY <3>1, <3>2, <3>3, <3>4 DEF Owned
  <2>2. ASSUME NEW d \in Dep, local'[d] \in {"running", "recording"} PROVE row'[d] \in {"running", "gone"}
    <3>1. CASE LocalStep(d)
      BY <1>3, <2>2, <3>1 DEF LocalStep, RunLocal, RecordSuccess, RecordSuccessFails, ReconcileTunnels, RecordFailure,
                       Turn, CompleteLocal, RunningIsOwned, rows
    <3>2. CASE ~LocalStep(d)
      <4>1. row[d] \in {"running", "gone"} /\ on[d] = Master
        <5>1. ASSUME NEW q \in Req, Launches(q), found[q] = d PROVE row[d] \in {"running", "gone"} /\ on[d] = Master
          BY <5>1 DEF Launches, RequestAt
        <5>2. ASSUME local[d] \in {"running", "recording"} PROVE row[d] \in {"running", "gone"} /\ on[d] = Master
          BY <1>3, <5>2 DEF RunningIsOwned, LocalAt
        <5>3. ASSUME NEW q \in Req, Launches(q), found[q] # d PROVE local'[d] = local[d]
          BY <5>3 DEF Launches
        <5>4. ASSUME NEW e \in Dep, LocalStep(e) PROVE local'[d] = local[d]
          BY <3>2, <5>4 DEF LocalStep, RunLocal, RecordSuccess, RecordSuccessFails, ReconcileTunnels,
                            RecordFailure, Turn, CompleteLocal
        <5>. QED  BY <1>3, <2>2, <5>1, <5>2, <5>3, <5>4, LocalsMove DEF Crash
      <4>. QED  BY <1>3, <3>2, <4>1, OwnRow
    <3>. QED  BY <3>1, <3>2
  <2>. QED  BY <1>3, <2>1, <2>2 DEF RunningIsOwned, Forward
<1>4. ~Restart => up
  BY LocalsMove DEF Launches, LocalStep, RunLocal, RecordSuccess, RecordSuccessFails, ReconcileTunnels, RecordFailure, Crash
<1>. QED  BY <1>1, <1>2, <1>3, <1>4, RowsMove

(* The checkout of a project is promised to one deployment at a time: the  *)
(* one that is inserted finds no other running, and one whose row is gone  *)
(* belonged to a project that is gone.                                     *)
LEMMA WorkStep == IInv /\ Next => WorkOnce'
<1> SUFFICES ASSUME IInv, Next PROVE WorkOnce'  OBVIOUS
<1> USE DEF IInv, TypeOK
<1>1. ASSUME NEW q \in Req, Insert(q) PROVE WorkOnce'
  <2> USE DEF Insert, Goto
  <2>1. PICK n \in Dep : n = count + 1
    BY <1>1, MaxAssumption DEF Dep
  <2>2. \A d \in Dep : AtWork(d) => row[d] \in {"running", "gone"} /\ of[d] # proj[q] /\ d # n
    <3>1. up  BY <1>1 DEF DownIsQuiet
    <3>2. ASSUME NEW d \in Dep, AtWork(d) PROVE row[d] \in {"running", "gone"} /\ d # n
      BY <2>1, <3>1, <3>2, MaxAssumption DEF AtWork, RunningIsOwned, RequestAt, Rows, Dep
    <3>3. Running(proj[q]) = {}
      BY <1>1 DEF NoneWhileHeld, HoldsLock
    <3>4. \A d \in Dep : row[d] = "gone" => of[d] # proj[q]
      BY <1>1 DEF Rows
    <3>. QED  BY <3>2, <3>3, <3>4 DEF Running
  <2>3. \A d \in Dep : AtWork(d)' /\ d # n => AtWork(d)
    BY <1>1, <2>1 DEF AtWork
  <2>4. of'[n] = proj[q] /\ \A d \in Dep : d # n => of'[d] = of[d]
    BY <1>1, <2>1
  <2>. QED  BY <2>2, <2>3, <2>4 DEF WorkOnce
<1>2. ASSUME Forward PROVE WorkOnce'
  <2>1. ASSUME NEW d \in Dep, AtWork(d)' PROVE AtWork(d)
    <3>1. ASSUME NEW q \in Req, LookInMemory(q) \/ TakeLock(q) \/ ReadTarget(q) \/ Launch(q) \/ AnswerReused(q) \/ StartFails(q)
          PROVE  AtWork(d)
      BY <2>1, <3>1 DEF LookInMemory, TakeLock, ReadTarget, Launch, AnswerReused, StartFails, Reuse, Goto, Answer, AtWork
    <3>2. ASSUME NEW q \in Req, Insert(q) PROVE AtWork(d)
      BY <1>2, <3>2, MaxAssumption DEF Insert, Forward
    <3>3. ASSUME NEW e \in Dep, LocalStep(e) PROVE AtWork(d)
      BY <2>1, <3>3 DEF LocalStep, RunLocal, RecordSuccess, RecordSuccessFails, ReconcileTunnels, RecordFailure,
                        Turn, CompleteLocal, requests, AtWork
    <3>4. ASSUME UNCHANGED <<requests, local>> PROVE AtWork(d)
      BY <2>1, <3>4 DEF requests, AtWork
    <3>5. ASSUME NEW n \in Worker, NextJob(n) \/ JobStep(n) \/ WorkerRestarts(n) PROVE UNCHANGED <<requests, local>>
      BY <3>5 DEF NextJob, JobStep, AcceptJob, RunJob, JobFails, ReportFails, WorkerRestarts
    <3>6. ASSUME NEW m \in Results, HandlePost(m) \/ LosePost(m) PROVE UNCHANGED <<requests, local>>
      BY <3>6 DEF HandlePost, LosePost
    <3>7. ASSUME NEW p \in Project, Retarget(p) \/ DeleteProject(p) PROVE UNCHANGED <<requests, local>>
      BY <3>7 DEF Retarget, DeleteProject
    <3>8. CASE Crash
      BY <2>1, <3>8 DEF Crash, AtWork
    <3>9. CASE Restart
      BY <3>4, <3>9 DEF Restart
    <3>. QED  BY <3>1, <3>2, <3>3, <3>4, <3>5, <3>6, <3>7, <3>8, <3>9 DEF Next, ReqStep
  <2>. QED  BY <1>2, <2>1 DEF WorkOnce, Forward
<1>. QED  BY <1>1, <1>2, RowsMove

(* An entry of activeDeployments goes with its run, or before it.          *)
LEMMA CacheStep == IInv /\ Next => CacheHasRun'
<1> SUFFICES ASSUME IInv, Next PROVE CacheHasRun'  OBVIOUS
<1> USE DEF IInv, TypeOK
<1>1. ASSUME NEW p \in Project, active[p] # NoDep
      PROVE  /\ active[p] \in Dep /\ of[active[p]] = p /\ of'[active[p]] = p
             /\ local[active[p]] \in {"running", "recording", "tunnels", "failing"}
  <2>1. /\ active[p] \in Dep /\ of[active[p]] = p
        /\ local[active[p]] \in {"running", "recording", "tunnels", "failing"}
    BY <1>1 DEF CacheHasRun
  <2>2. active[p] <= count
    BY <2>1 DEF LocalAt
  <2>3. ASSUME NEW q \in Req, Insert(q) PROVE of'[active[p]] = p
    BY <2>1, <2>2, <2>3, MaxAssumption DEF Insert, Dep
  <2>. QED  BY <2>1, <2>3, RowsMove DEF Forward
<1>2. ASSUME UNCHANGED <<local, active, up>> PROVE CacheHasRun'
  BY <1>1, <1>2 DEF CacheHasRun
<1>3. ASSUME NEW q \in Req, Launches(q) PROVE CacheHasRun'
  <2>1. found[q] \in Dep /\ of[found[q]] = proj[q] /\ proj[q] \in Project
    BY <1>3, MaxAssumption DEF Launches, RequestAt, Dep
  <2>. QED  BY <1>1, <1>3, <2>1 DEF Launches, rows, CacheHasRun
<1>4. ASSUME NEW d \in Dep, LocalStep(d) PROVE CacheHasRun'
  <2>1. of[d] \in Project /\ d <= count
    BY <1>4 DEF LocalStep, RunLocal, RecordSuccess, RecordSuccessFails, ReconcileTunnels, RecordFailure, LocalAt, Rows
  <2>2. UNCHANGED of
    BY <1>4 DEF LocalStep, RunLocal, RecordSuccess, RecordSuccessFails, ReconcileTunnels, RecordFailure, rows
  <2>3. CASE CompleteLocal(d)
    BY <1>1, <2>1, <2>2, <2>3 DEF CompleteLocal, Turn, CacheHasRun
  <2>4. CASE UNCHANGED active /\ \E stage \in {"recording", "tunnels", "failing"} : Turn(d, stage)
    BY <1>1, <2>2, <2>4 DEF Turn, CacheHasRun
  <2>5. CompleteLocal(d) \/ (UNCHANGED active /\ \E stage \in {"recording", "tunnels", "failing"} : Turn(d, stage))
    BY <1>4 DEF LocalStep, RunLocal, RecordSuccess, RecordSuccessFails, ReconcileTunnels, RecordFailure
  <2>. QED  BY <2>3, <2>4, <2>5
<1>5. CASE Crash
  BY <1>5 DEF Crash, CacheHasRun
<1>6. CASE Restart
  BY <1>1, <1>6 DEF Restart, CacheHasRun
<1>. QED  BY <1>2, <1>3, <1>4, <1>5, <1>6, LocalsMove

(* The invariant holds at the start.                                       *)
LEMMA InvInit == Init => IInv
<1> SUFFICES ASSUME Init PROVE IInv  OBVIOUS
<1> USE MaxAssumption DEF Init
<1>1. TypeOK
  BY DEF TypeOK, Dep
<1>2. Rows
  BY DEF Rows, Exists, Dep
<1>3. LockHeldOnce /\ NoneWhileHeld /\ LaunchedOnce /\ \A q \in Req : RequestAt(q)
  BY DEF LockHeldOnce, NoneWhileHeld, LaunchedOnce, RequestAt, HoldsLock
<1>4. (\A d \in Dep : LocalAt(d)) /\ (\A n \in Worker : WorkerAt(n)) /\ PostsAt /\ DownIsQuiet
  BY DEF LocalAt, WorkerAt, PostsAt, DownIsQuiet
<1>5. WorkOnce
  BY DEF WorkOnce, AtWork
<1>6. OneRunning /\ RunningIsOwned /\ SuccessWasBrought /\ CacheHasRun
  BY DEF OneRunning, Running, RunningIsOwned, SuccessWasBrought, CacheHasRun
<1>. QED  BY <1>1, <1>2, <1>3, <1>4, <1>5, <1>6 DEF IInv

(* A stuttering step changes nothing of it.                                *)
LEMMA InvStutter == IInv /\ UNCHANGED vars => IInv'
BY DEF IInv, vars, rows, requests, workers, TypeOK, Rows, Exists, Running, LockHeldOnce, NoneWhileHeld, HoldsLock,
       RequestAt, LaunchedOnce, LocalAt, WorkerAt, PostsAt, DownIsQuiet, WorkOnce, AtWork,
       OneRunning, RunningIsOwned, Owned, SuccessWasBrought, CacheHasRun

(* The inductive invariant holds in every reachable state, for any number  *)
(* of projects, workers, requests and deployments.                         *)
THEOREM Invariant == Spec => []IInv
<1>1. IInv /\ [Next]_vars => IInv'
  <2>1. IInv /\ Next => IInv'
    <3> SUFFICES ASSUME IInv, Next PROVE IInv'  OBVIOUS
    <3>1. TypeOK' /\ Rows'
      BY TypeStep, RowsStep
    <3>2. LockHeldOnce' /\ NoneWhileHeld' /\ OneRunning'
      BY LockStep
    <3>3. (\A q \in Req : RequestAt(q))' /\ LaunchedOnce'
      BY RequestsStep
    <3>4. (\A d \in Dep : LocalAt(d))' /\ (\A n \in Worker : WorkerAt(n))' /\ PostsAt'
      BY LocalsStep, WorkersStep
    <3>5. WorkOnce' /\ DownIsQuiet' /\ RunningIsOwned' /\ SuccessWasBrought' /\ CacheHasRun'
      BY WorkStep, BroughtStep, OwnedStep, CacheStep
    <3>. QED  BY <3>1, <3>2, <3>3, <3>4, <3>5 DEF IInv
  <2>. QED  BY <2>1, InvStutter
<1>. QED  BY <1>1, InvInit, PTL DEF Spec

(* Types of every variable. *)
THEOREM TypeCorrect == Spec => []TypeOK
<1>1. IInv => TypeOK  BY DEF IInv
<1>. QED  BY <1>1, Invariant, PTL

(* A project never has two deployments in progress, by the advisory lock   *)
(* alone: no constraint of the database says so.                           *)
THEOREM OneIsRunning == Spec => []OneRunning
<1>1. IInv => OneRunning  BY DEF IInv
<1>. QED  BY <1>1, Invariant, PTL

(* Two deployments never run in one checkout of the master.                *)
THEOREM OneIsAtWork == Spec => []OneAtWork
<1>1. IInv => OneAtWork  BY DEF IInv, OneAtWork, WorkOnce, AtWork
<1>. QED  BY <1>1, Invariant, PTL

(* No deployment of the master is left running with nobody to finish it.   *)
THEOREM RunningHasOwner == Spec => []RunningIsOwned
<1>1. IInv => RunningIsOwned  BY DEF IInv
<1>. QED  BY <1>1, Invariant, PTL

(* Success is never reported of a deployment that was not brought up.      *)
THEOREM SuccessIsTrue == Spec => []SuccessWasBrought
<1>1. IInv => SuccessWasBrought  BY DEF IInv
<1>. QED  BY <1>1, Invariant, PTL

(* No entry of activeDeployments outlives its run. *)
THEOREM CacheIsLive == Spec => []CacheHasRun
<1>1. IInv => CacheHasRun  BY DEF IInv
<1>. QED  BY <1>1, Invariant, PTL
-----------------------------------------------------------------------------
(* Which deployment is in its project's slot. *)
LEMMA SlotValue ==
  ASSUME OneRunning, NEW p \in Project
  PROVE  /\ Running(p) = {} => SlotOf(p) = NoDep
         /\ \A d \in Dep : d \in Running(p) => SlotOf(p) = d
<1>1. ASSUME NEW d \in Dep, d \in Running(p) PROVE SlotOf(p) = d
  <2>1. Running(p) = {d}
    BY <1>1 DEF OneRunning, Running
  <2>. QED  BY <2>1 DEF SlotOf
<1>. QED  BY <1>1 DEF SlotOf

(* Every step of the code opens one slot, closes some, or stutters.        *)
LEMMA SlotStep == IInv /\ IInv' /\ [Next]_vars => [Slot!Next]_<<[p \in Project |-> SlotOf(p)], 1..count>>
<1> DEFINE slot == [p \in Project |-> SlotOf(p)]
           G == Slot!Next \/ UNCHANGED <<slot, 1..count>>
<1> SUFFICES ASSUME IInv, IInv', [Next]_vars PROVE G  OBVIOUS
<1>0. OneRunning /\ OneRunning' /\ count \in Nat /\ count' \in Nat
  BY MaxAssumption DEF IInv, TypeOK
<1>1. ASSUME NEW q \in Req, Insert(q) PROVE Slot!Next
  <2>1. PICK n \in Dep : n = count + 1
    BY <1>1, MaxAssumption DEF Insert, IInv, TypeOK, Dep
  <2>2. PICK p \in Project : p = proj[q]
    BY <1>1 DEF Insert, IInv, RequestAt
  <2>3. /\ Running(p) = {} /\ n \notin 1..count
        /\ \A r \in Project : Running(r)' = IF r = p THEN {n} ELSE Running(r)
        /\ 1..count' = (1..count) \cup {n}
    BY <1>0, <1>1, <2>1, <2>2 DEF Insert, IInv, TypeOK, RequestAt, NoneWhileHeld, HoldsLock, Running, Rows, Dep
  <2>4. SlotOf(p) = NoDep
    BY <2>3 DEF SlotOf
  <2>5. ASSUME NEW r \in Project PROVE SlotOf(r)' = IF r = p THEN n ELSE SlotOf(r)
    <3>1. CASE r = p
      <4>1. Running(r)' = {n}
        BY <2>3, <3>1
      <4>. QED  BY <3>1, <4>1 DEF SlotOf
    <3>2. CASE r # p
      <4>1. Running(r)' = Running(r)
        BY <2>3, <3>2
      <4>. QED  BY <3>2, <4>1 DEF SlotOf
    <3>. QED  BY <3>1, <3>2
  <2>6. slot' = [slot EXCEPT ![p] = n]
    BY <2>5
  <2>7. Slot!Open(p, n)
    BY <2>3, <2>4, <2>6 DEF Slot!Open
  <2>. QED  BY <2>7 DEF Slot!Next
<1>2. ASSUME Forward PROVE Slot!Next
  <2> DEFINE S == {p \in Project : Running(p)' = {}}
  <2>1. ASSUME NEW p \in Project PROVE SlotOf(p)' = IF p \in S THEN NoDep ELSE SlotOf(p)
    <3>1. CASE Running(p)' = {}
      BY <3>1 DEF SlotOf
    <3>2. CASE Running(p)' # {}
      <4>1. Running(p)' = Running(p)
        BY <1>0, <1>2, <3>2, RunningShrinks DEF OneRunning, Running
      <4>. QED  BY <3>2, <4>1 DEF SlotOf
    <3>. QED  BY <3>1, <3>2
  <2>2. slot' = [p \in Project |-> IF p \in S THEN NoDep ELSE slot[p]]
    BY <2>1
  <2>3. Slot!Close(S)
    BY <1>2, <2>2 DEF Slot!Close, Forward
  <2>4. S \in SUBSET Project
    OBVIOUS
  <2> HIDE DEF S
  <2>. QED  BY <2>3, <2>4 DEF Slot!Next
<1>3. CASE UNCHANGED vars
  BY <1>3 DEF vars, rows, SlotOf, Running
<1>. QED  BY <1>1, <1>2, <1>3, RowsMove

(* Deployments refines DeploymentSlot, for any number of projects.         *)
THEOREM DeploymentsAreSlots == Spec => ImplementsSlot
<1>1. Init => Slot!Init
  BY MaxAssumption DEF Init, Slot!Init, SlotOf, Running
<1>. QED  BY <1>1, SlotStep, Invariant, PTL DEF Spec, ImplementsSlot, Slot!Spec
=============================================================================
