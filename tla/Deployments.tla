---------------------------- MODULE Deployments ----------------------------
(***************************************************************************)
(* The life of deployments: src/server/services/deployments.ts, with the   *)
(* worker process (src/server/worker.ts) that executes those of other      *)
(* machines and the routes it reports to (routes/workers.ts, nodes.ts).    *)
(*                                                                         *)
(* A deployment is a row.  It is started by a request, in a transaction    *)
(* under an advisory lock of its project; executed by the master itself    *)
(* (runLocalDeployment) or by the worker that polls for it; and finished   *)
(* by whoever executes it, or by the next start of the master.  Nothing    *)
(* else ties an executor to its row: no lease, no claim, no token.         *)
(*                                                                         *)
(* posts are the results on their way from a worker to the row: a request  *)
(* may be lost, its answer may be lost, and a handler may go on after the  *)
(* worker has given up on it.  Logs and commit metadata are left out.      *)
(***************************************************************************)
EXTENDS Naturals

CONSTANTS Project,
          Worker, Master,   \* deployment_nodes
          MaxDeployments,   \* a bound on the number of starts
          Req,              \* start requests in progress at the same time
          NoDep, NoNode, NoProject

Dep == 1..MaxDeployments
Node == Worker \cup {Master}

ASSUME MaxAssumption == MaxDeployments \in Nat
ASSUME NodeAssumption == Master \notin Worker /\ NoNode \notin Node
ASSUME ProjectAssumption == NoProject \notin Project
ASSUME NoDepAssumption == NoDep \notin Dep

VARIABLES
  projects, home,        \* rows of projects, their targetNodeId
  count,                 \* deployments inserted so far, in order of startedAt
  row, of, on,           \* deployments: status, projectId, nodeId
  active,                \* activeDeployments
  at, proj, node, found, \* requests: their locals in startDeployment
  local,                 \* runLocalDeployment of each deployment
  work, job,             \* deploymentLoop of each worker
  posts,                 \* results on their way from a worker to its row
  brought,               \* deployments whose containers have been brought up
  up                     \* the master serves requests

rows == <<projects, home, count, row, of, on>>
requests == <<at, proj, node, found>>
workers == <<work, job, posts>>
vars == <<rows, active, requests, local, workers, brought, up>>

Exists(d) == row[d] \in {"running", "success", "failed"}
Running(p) == {d \in Dep : row[d] = "running" /\ of[d] = p}

Init ==
  /\ projects = Project
  /\ home \in [Project -> Node]
  /\ count = 0
  /\ row = [d \in Dep |-> "none"]
  /\ of = [d \in Dep |-> NoProject]
  /\ on = [d \in Dep |-> NoNode]
  /\ active = [p \in Project |-> NoDep]
  /\ at = [q \in Req |-> "idle"]
  /\ proj = [q \in Req |-> NoProject]
  /\ node = [q \in Req |-> NoNode]
  /\ found = [q \in Req |-> NoDep]
  /\ local = [d \in Dep |-> "none"]
  /\ work = [n \in Worker |-> "idle"]
  /\ job = [n \in Worker |-> NoDep]
  /\ posts = {}
  /\ brought = {}
  /\ up = TRUE
-----------------------------------------------------------------------------
(* startDeployment.  Its caller has found the project. *)

Goto(q, place) == at' = [at EXCEPT ![q] = place]

Answer(q) ==
  /\ Goto(q, "idle")
  /\ proj' = [proj EXCEPT ![q] = NoProject]
  /\ node' = [node EXCEPT ![q] = NoNode]
  /\ found' = [found EXCEPT ![q] = NoDep]

(* The answer will be { deployment: d, reused: true }. *)
Reuse(q, d) == Goto(q, "reusing") /\ found' = [found EXCEPT ![q] = d]

LookInMemory(q) ==
  /\ up
  /\ at[q] = "idle"
  /\ \E p \in projects :
       /\ proj' = [proj EXCEPT ![q] = p]
       /\ IF active[p] # NoDep THEN Reuse(q, active[p]) ELSE Goto(q, "locking") /\ UNCHANGED found
  /\ UNCHANGED <<rows, active, node, local, workers, brought, up>>

HoldsLock(q) == at[q] \in {"locked", "inserting"}

LockFree_NoLock(p) == TRUE

(* pg_advisory_xact_lock of the project, held to the end of the transaction *)
LockFree(p) == \A q \in Req : HoldsLock(q) => proj[q] # p

(* The lock is taken and the running deployment looked for. *)
TakeLock(q) ==
  /\ at[q] = "locking"
  /\ LockFree(proj[q])
  /\ \/ \E d \in Running(proj[q]) : Reuse(q, d)
     \/ Running(proj[q]) = {} /\ Goto(q, "locked") /\ UNCHANGED found
  /\ UNCHANGED <<rows, active, proj, node, local, workers, brought, up>>

ReadTarget(q) ==
  /\ at[q] = "locked"
  /\ proj[q] \in projects
  /\ node' = [node EXCEPT ![q] = home[proj[q]]]
  /\ Goto(q, "inserting")
  /\ UNCHANGED <<rows, active, proj, found, local, workers, brought, up>>

(* The row is inserted and the transaction commits. *)
Insert(q) ==
  /\ at[q] = "inserting"
  /\ proj[q] \in projects
  /\ count < MaxDeployments
  /\ LET d == count + 1
     IN  /\ count' = d
         /\ row' = [row EXCEPT ![d] = "running"]
         /\ of' = [of EXCEPT ![d] = proj[q]]
         /\ on' = [on EXCEPT ![d] = node[q]]
         /\ found' = [found EXCEPT ![q] = d]
  /\ Goto(q, "launching")
  /\ UNCHANGED <<projects, home, active, proj, node, local, workers, brought, up>>

(* Out of the transaction: executed here, or left to the worker. *)
Launch(q) ==
  /\ at[q] = "launching"
  /\ IF node[q] = Master
     THEN /\ active' = [active EXCEPT ![proj[q]] = found[q]]
          /\ local' = [local EXCEPT ![found[q]] = "running"]
     ELSE UNCHANGED <<active, local>>
  /\ Answer(q)
  /\ UNCHANGED <<rows, workers, brought, up>>

AnswerReused(q) ==
  /\ at[q] = "reusing"
  /\ Answer(q)
  /\ UNCHANGED <<rows, active, local, workers, brought, up>>

(* The transaction throws: no project, a statement fails, or the model has *)
(* used up Dep.                                                            *)
StartFails(q) ==
  /\ at[q] \in {"locking", "locked", "inserting"}
  /\ Answer(q)
  /\ UNCHANGED <<rows, active, local, workers, brought, up>>
-----------------------------------------------------------------------------
(* runLocalDeployment.  A failure handler that throws itself is an         *)
(* unhandled rejection, and ends the process: see Crash.                   *)

FinishRow(d, result) == row' = IF Exists(d) THEN [row EXCEPT ![d] = result] ELSE row
Turn(d, stage) == local' = [local EXCEPT ![d] = stage]

(* the finally block *)
CompleteLocal(d) == Turn(d, "over") /\ active' = [active EXCEPT ![of[d]] = NoDep]

RunLocal(d) ==
  /\ local[d] = "running"
  /\ \/ Turn(d, "recording") /\ brought' = brought \cup {d}
     \/ Turn(d, "failing") /\ UNCHANGED brought
  /\ UNCHANGED <<rows, active, requests, workers, up>>

RecordSuccess(d) ==
  /\ local[d] = "recording"
  /\ FinishRow(d, "success")
  /\ \/ Turn(d, "tunnels")
     \/ Turn(d, "failing")       \* the read after the update fails
  /\ UNCHANGED <<projects, home, count, of, on, active, requests, workers, brought, up>>

RecordSuccessFails(d) ==
  /\ local[d] = "recording"
  /\ Turn(d, "failing")
  /\ UNCHANGED <<rows, active, requests, workers, brought, up>>

(* reconcileTunnelAssignments is still inside the try block. *)
ReconcileTunnels(d) ==
  /\ local[d] = "tunnels"
  /\ CompleteLocal(d) \/ (Turn(d, "failing") /\ UNCHANGED active)
  /\ UNCHANGED <<rows, requests, workers, brought, up>>

RecordFailure(d) ==
  /\ local[d] = "failing"
  /\ FinishRow(d, "failed")
  /\ CompleteLocal(d)
  /\ UNCHANGED <<projects, home, count, of, on, requests, workers, brought, up>>
-----------------------------------------------------------------------------
(* A worker.  Its deployment loop takes one job at a time. *)

Goes(n, stage, d) == work' = [work EXCEPT ![n] = stage] /\ job' = [job EXCEPT ![n] = d]
Send(n, result) == posts' = IF up THEN posts \cup {[dep |-> job[n], result |-> result]} ELSE posts

Oldest_NotAgain(n) == {d \in Dep \ brought : row[d] = "running" /\ on[d] = n}
Oldest(n) == {d \in Dep : /\ row[d] = "running" /\ on[d] = n
                          /\ \A e \in Dep : row[e] = "running" /\ on[e] = n => d <= e}

(* nextWorkerDeployment reads; nothing marks the row as taken. *)
NextJob(n) ==
  /\ up
  /\ work[n] = "idle"
  /\ \E d \in Oldest(n) : Goes(n, "accepted", d)
  /\ UNCHANGED <<rows, active, requests, local, posts, brought, up>>

AcceptJob(n) ==
  /\ work[n] = "accepted"
  /\ up
  /\ Exists(job[n])
  /\ Goes(n, "running", job[n])
  /\ UNCHANGED <<rows, active, requests, local, posts, brought, up>>

(* runProjectDeployment returns after a last log, and the success is posted. *)
RunJob(n) ==
  /\ work[n] = "running"
  /\ up
  /\ Exists(job[n])
  /\ brought' = brought \cup {job[n]}
  /\ Send(n, "success")
  /\ Goes(n, "reporting", job[n])
  /\ UNCHANGED <<rows, active, requests, local, up>>

AfterFailure_Success == "success"
AfterFailure == "failed"

(* A log request, a command or the report itself throws: runJob posts the  *)
(* failure instead.                                                        *)
JobFails(n) ==
  /\ work[n] \in {"accepted", "running", "reporting"}
  /\ Send(n, AfterFailure)
  /\ Goes(n, "failing", job[n])
  /\ UNCHANGED <<rows, active, requests, local, brought, up>>

(* The failure could not be reported; the error is swallowed. *)
ReportFails(n) ==
  /\ work[n] = "failing"
  /\ Goes(n, "idle", NoDep)
  /\ UNCHANGED <<rows, active, requests, local, posts, brought, up>>

(* The worker process ends and is started again.  SIGTERM cancels a job,   *)
(* and its failure is posted before the process exits.                     *)
WorkerRestarts(n) ==
  /\ work[n] # "idle"
  /\ \/ UNCHANGED posts
     \/ work[n] \in {"accepted", "running"} /\ Send(n, AfterFailure)
  /\ Goes(n, "idle", NoDep)
  /\ UNCHANGED <<rows, active, requests, local, brought, up>>

Awaits(n, m) == job[n] = m.dep /\ work[n] = IF m.result = "success" THEN "reporting" ELSE "failing"

(* PATCH /api/workers/deployments/:id; the worker may not see the answer.  *)
HandlePost(m) ==
  /\ up
  /\ m \in posts
  /\ posts' = posts \ {m}
  /\ FinishRow(m.dep, m.result)
  /\ \/ UNCHANGED <<work, job>>
     \/ \E n \in Worker : Awaits(n, m) /\ Exists(m.dep) /\ Goes(n, "idle", NoDep)
  /\ UNCHANGED <<projects, home, count, of, on, active, requests, local, brought, up>>

LosePost(m) ==
  /\ m \in posts
  /\ posts' = posts \ {m}
  /\ UNCHANGED <<rows, active, requests, local, work, job, brought, up>>
-----------------------------------------------------------------------------
(* The surroundings *)

(* updateProject: the target node may change at any time. *)
Retarget(p) ==
  /\ up
  /\ p \in projects
  /\ \E n \in Node \ {home[p]} : home' = [home EXCEPT ![p] = n]
  /\ UNCHANGED <<projects, count, row, of, on, active, requests, local, workers, brought, up>>

(* deleteProject does not look at deployments; ON DELETE CASCADE. *)
DeleteProject(p) ==
  /\ up
  /\ p \in projects
  /\ projects' = projects \ {p}
  /\ row' = [d \in Dep |-> IF of[d] = p /\ Exists(d) THEN "gone" ELSE row[d]]
  /\ UNCHANGED <<home, count, of, on, active, requests, local, workers, brought, up>>

Crash ==
  /\ up
  /\ up' = FALSE
  /\ active' = [p \in Project |-> NoDep]
  /\ at' = [q \in Req |-> "idle"]
  /\ proj' = [q \in Req |-> NoProject]
  /\ node' = [q \in Req |-> NoNode]
  /\ found' = [q \in Req |-> NoDep]
  /\ local' = [d \in Dep |-> IF local[d] = "none" THEN "none" ELSE "over"]
  /\ posts' = {}
  /\ UNCHANGED <<rows, work, job, brought>>

Recovered_WorkersOnly(d) == IF row[d] = "running" /\ on[d] # Master THEN "failed" ELSE row[d]
Recovered(d) == IF row[d] = "running" THEN "failed" ELSE row[d]

(* recoverInterruptedDeployments is one statement, before listen(). *)
Restart ==
  /\ ~up
  /\ row' = [d \in Dep |-> Recovered(d)]
  /\ up' = TRUE
  /\ UNCHANGED <<projects, home, count, of, on, active, requests, local, workers, brought>>
-----------------------------------------------------------------------------
ReqStep(q) ==
  \/ TakeLock(q) \/ ReadTarget(q) \/ Insert(q) \/ Launch(q) \/ AnswerReused(q) \/ StartFails(q)
LocalStep(d) ==
  \/ RunLocal(d) \/ RecordSuccess(d) \/ RecordSuccessFails(d) \/ ReconcileTunnels(d) \/ RecordFailure(d)
JobStep(n) == AcceptJob(n) \/ RunJob(n) \/ JobFails(n) \/ ReportFails(n)

Results == [dep : Dep, result : {"success", "failed"}]

Next ==
  \/ \E q \in Req : LookInMemory(q) \/ ReqStep(q)
  \/ \E d \in Dep : LocalStep(d)
  \/ \E n \in Worker : NextJob(n) \/ JobStep(n) \/ WorkerRestarts(n)
  \/ \E m \in Results : HandlePost(m) \/ LosePost(m)
  \/ \E p \in Project : Retarget(p) \/ DeleteProject(p)
  \/ Crash \/ Restart

Spec == Init /\ [][Next]_vars

(* The lock is served in order, hence strong fairness of TakeLock.  A      *)
(* command is cut off by its timeout; a worker polls for ever, and neither *)
(* its restarts nor the network fail it at the same place for ever; a dead *)
(* master is started again (restart: unless-stopped).                      *)
Fairness ==
  /\ \A q \in Req : SF_vars(TakeLock(q)) /\ WF_vars(ReqStep(q) /\ at[q] # "locking")
  /\ \A d \in Dep : WF_vars(LocalStep(d))
  /\ \A n \in Worker : /\ WF_vars(NextJob(n)) /\ WF_vars(JobStep(n))
                       /\ SF_vars(RunJob(n) \/ JobFails(n))
  /\ \A m \in Results : SF_vars(HandlePost(m))
  /\ WF_vars(Restart)

FairSpec == Spec /\ Fairness
-----------------------------------------------------------------------------
(* Types. *)
TypeOK ==
  /\ projects \subseteq Project
  /\ home \in [Project -> Node]
  /\ count \in 0..MaxDeployments
  /\ row \in [Dep -> {"none", "running", "success", "failed", "gone"}]
  /\ of \in [Dep -> Project \cup {NoProject}]
  /\ on \in [Dep -> Node \cup {NoNode}]
  /\ active \in [Project -> Dep \cup {NoDep}]
  /\ at \in [Req -> {"idle", "locking", "locked", "inserting", "launching", "reusing"}]
  /\ proj \in [Req -> Project \cup {NoProject}]
  /\ node \in [Req -> Node \cup {NoNode}]
  /\ found \in [Req -> Dep \cup {NoDep}]
  /\ local \in [Dep -> {"none", "running", "recording", "tunnels", "failing", "over"}]
  /\ work \in [Worker -> {"idle", "accepted", "running", "reporting", "failing"}]
  /\ job \in [Worker -> Dep \cup {NoDep}]
  /\ posts \subseteq Results
  /\ brought \subseteq Dep
  /\ up \in BOOLEAN

(* A project has at most one deployment in progress: there is no unique    *)
(* index, only the advisory lock around the look and the insert            *)
(* (startDeployment), against every way in which a row is finished late.   *)
OneRunning == \A p \in Project : \A d, e \in Running(p) : d = e

(* The master never runs two deployments in the checkout of one project,   *)
(* although activeDeployments forgets entries early: the finally block of  *)
(* one deployment may delete the entry of the next.                        *)
OneAtWork == \A d, e \in Dep : local[d] = "running" /\ local[e] = "running" /\ d # e => of[d] # of[e]

(* No row of the master is left running with nobody to finish it, which    *)
(* would refuse the project every later deployment; and what the master    *)
(* executes still holds its project's place, or was deleted with it.       *)
Owned(d) == local[d] \in {"running", "recording", "failing"}
            \/ \E q \in Req : at[q] = "launching" /\ found[q] = d
RunningIsOwned ==
  up => \A d \in Dep : /\ row[d] = "running" /\ on[d] = Master => Owned(d)
                       /\ local[d] \in {"running", "recording"} => row[d] \in {"running", "gone"}

(* A deployment that says success has had a complete run, whatever was     *)
(* lost, repeated, late or interrupted on the way (worker.ts, runJob).     *)
SuccessWasBrought == \A d \in Dep : row[d] = "success" => d \in brought

(* An entry of activeDeployments belongs to a run in progress: a leaked    *)
(* one would answer every later start of the project without deploying.    *)
CacheHasRun ==
  \A p \in Project : active[p] # NoDep => /\ of[active[p]] = p
                                          /\ local[active[p]] \in {"running", "recording", "tunnels", "failing"}

(* The client and the MCP server tell whoever got reused: true that the    *)
(* deployment "is already running" (src/client/App.tsx:1064 and            *)
(* src/server/mcp/registry.ts:328).                                        *)
ReusedIsRunning ==
  [][\A q \in Req : at[q] # "reusing" /\ at'[q] = "reusing" => row[found'[q]] = "running"]_vars

(* startDeployment and everything that finishes a deployment implement one *)
(* slot per project, which no deployment enters twice.                     *)
SlotOf(p) == IF Running(p) = {} THEN NoDep ELSE CHOOSE d \in Running(p) : TRUE
Slot == INSTANCE DeploymentSlot WITH slot <- [p \in Project |-> SlotOf(p)], spent <- 1..count
ImplementsSlot == Slot!Spec

(* The inductive invariant behind the proofs: what each request, local run *)
(* and worker may count on about the rows it refers to.                    *)
Rows == \A d \in Dep : /\ row[d] = "none" <=> d > count
                       /\ d <= count => of[d] \in Project /\ on[d] \in Node
                       /\ Exists(d) => of[d] \in projects
                       /\ row[d] = "gone" => of[d] \notin projects

LockHeldOnce == \A q, r \in Req : HoldsLock(q) /\ HoldsLock(r) /\ proj[q] = proj[r] => q = r

(* The holder of the lock has seen that nothing runs, and it stays so. *)
NoneWhileHeld == \A q \in Req : HoldsLock(q) => Running(proj[q]) = {}

RequestAt(q) ==
  /\ at[q] # "idle" => proj[q] \in Project
  /\ at[q] \in {"inserting", "launching"} => node[q] \in Node
  /\ at[q] = "launching" => LET d == found[q]
                            IN  /\ d \in 1..count /\ of[d] = proj[q] /\ on[d] = node[q]
                                /\ local[d] = "none"
                                /\ node[q] = Master => row[d] \in {"running", "gone"}

LaunchedOnce == \A q, r \in Req : at[q] = "launching" /\ at[r] = "launching" /\ found[q] = found[r] => q = r

LocalAt(d) ==
  /\ local[d] # "none" => d <= count /\ on[d] = Master
  /\ local[d] \in {"recording", "tunnels"} => d \in brought

WorkerAt(n) == work[n] # "idle" => job[n] \in 1..count /\ on[job[n]] = n

PostsAt == \A m \in posts : /\ m.dep <= count /\ on[m.dep] \in Worker
                            /\ m.result = "success" => m.dep \in brought

(* In the checkout of its project, or about to be. *)
AtWork(d) == local[d] = "running" \/ \E q \in Req : at[q] = "launching" /\ node[q] = Master /\ found[q] = d
WorkOnce == \A d, e \in Dep : AtWork(d) /\ AtWork(e) /\ of[d] = of[e] => d = e

(* A dead master has no requests, no runs and no results in flight. *)
DownIsQuiet ==
  ~up => /\ posts = {}
         /\ \A q \in Req : at[q] = "idle"
         /\ \A d \in Dep : local[d] \in {"none", "over"}

IInv ==
  /\ TypeOK /\ Rows
  /\ LockHeldOnce /\ NoneWhileHeld
  /\ \A q \in Req : RequestAt(q)
  /\ LaunchedOnce
  /\ \A d \in Dep : LocalAt(d)
  /\ \A n \in Worker : WorkerAt(n)
  /\ PostsAt /\ WorkOnce /\ DownIsQuiet
  /\ OneRunning /\ RunningIsOwned /\ SuccessWasBrought /\ CacheHasRun

(* A deployment in progress ends: its executor finishes it, a restart of   *)
(* the master does, or its project is deleted.                             *)
RunningEnds == \A d \in Dep : row[d] = "running" ~> row[d] # "running"
=============================================================================
