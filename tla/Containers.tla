---------------------------- MODULE Containers ----------------------------
(***************************************************************************)
(* The list of containers and the log stream of one: services/docker.ts,   *)
(* project-runtime.ts and routes/containers.ts.                            *)
(*                                                                         *)
(* What Docker holds is a version, raised by every action on a container.  *)
(* listContainers keeps what it read for five seconds, shares a read in    *)
(* progress between callers, and is invalidated when an action succeeds;   *)
(* one that fails may have taken effect in part, and throws before that.   *)
(***************************************************************************)
EXTENDS Naturals, FiniteSets

CONSTANTS Lister, Action,        \* calls of listContainers, actions, at a time
          MaxWorld, MaxReads, MaxRevision, MaxChunks   \* bounds: actions, reads, invalidations, log chunks

ASSUME ContainersAssumption == MaxWorld \in Nat /\ MaxReads \in Nat /\ MaxRevision \in Nat /\ MaxChunks \in Nat

VARIABLES
  world,     \* version of what Docker holds
  returned,  \* the newest version whose action has succeeded
  cached,    \* containerCache: 0 is null, otherwise 1 + the version; containerCacheTime is in fresh
  fresh,     \* whether it is less than five seconds old
  revision,  \* containerCacheRevision
  shared,    \* containerReadRequest: the id of a read, or 0
  reads,     \* the reads begun
  listers,   \* the calls, and what each awaits or got
  actions,   \* actions in progress
  logs       \* the log stream

containersVars == <<world, returned, cached, fresh, revision, shared, reads, listers, actions, logs>>
cacheVars == <<world, returned, cached, fresh, revision, shared, reads, listers, actions>>

NoRead == [st |-> "unused", rev |-> 0, value |-> 0]
NoLister == [st |-> "idle", read |-> 0, value |-> 0, floor |-> 0]
NoLogs == [st |-> "off", child |-> "none", left |-> 0, held |-> 0, paused |-> FALSE, client |-> FALSE]

ContainersInit ==
  /\ world = 0 /\ returned = 0
  /\ cached = 0 /\ fresh = FALSE /\ revision = 0 /\ shared = 0
  /\ reads = [i \in 1..MaxReads |-> NoRead]
  /\ listers = [l \in Lister |-> NoLister]
  /\ actions = [a \in Action |-> 0]
  /\ logs = NoLogs

Newer(a, b) == IF a > b THEN a ELSE b
-----------------------------------------------------------------------------
(* stopContainer, startContainer, restartContainer, runProjectCompose, cleanupDocker: the docker *)
(* command takes effect, as a whole or in part, and then exits.                                  *)
Act(a) ==
  /\ actions[a] = 0 /\ world < MaxWorld
  /\ world' = world + 1
  /\ actions' = [actions EXCEPT ![a] = world + 1]
  /\ UNCHANGED <<returned, cached, fresh, revision, shared, reads, listers, logs>>

(* invalidateContainerCache *)
Invalidate == cached' = 0 /\ fresh' = FALSE /\ revision' = revision + 1

ActReturns(a) ==
  /\ actions[a] # 0 /\ revision < MaxRevision
  /\ actions' = [actions EXCEPT ![a] = 0]
  /\ returned' = Newer(returned, actions[a])
  /\ Invalidate
  /\ UNCHANGED <<world, shared, reads, listers, logs>>

(* The command exited with an error, after it did something: nothing is invalidated. *)
ActFails(a) ==
  /\ actions[a] # 0
  /\ actions' = [actions EXCEPT ![a] = 0]
  /\ UNCHANGED <<world, returned, cached, fresh, revision, shared, reads, listers, logs>>

Expire == fresh /\ fresh' = FALSE /\ UNCHANGED <<world, returned, cached, revision, shared, reads, listers, actions, logs>>

(* listContainers: from the cache, from the read in progress, or from a new read *)
Current == cached # 0 /\ fresh
Shares(i) == i # 0 /\ reads[i].rev = revision
NewReads == {i \in 1..MaxReads : reads[i].st = "unused" /\ \A j \in 1..(i - 1) : reads[j].st # "unused"}
AnswerLister(l, v) == listers' = [listers EXCEPT ![l] = [NoLister EXCEPT !.st = "answered", !.value = v, !.floor = returned]]
StartRead(i) == [NoRead EXCEPT !.st = "ps", !.rev = revision]

CallList(l) ==
  /\ listers[l].st # "waiting"
  /\ \/ /\ Current
        /\ AnswerLister(l, cached - 1)
        /\ UNCHANGED <<shared, reads>>
     \/ /\ ~Current /\ Shares(shared)
        /\ listers' = [listers EXCEPT ![l] = [NoLister EXCEPT !.st = "waiting", !.read = shared]]
        /\ UNCHANGED <<shared, reads>>
     \/ /\ ~Current /\ ~Shares(shared)
        /\ \E i \in NewReads :
             /\ reads' = [reads EXCEPT ![i] = StartRead(i)]
             /\ shared' = i
             /\ listers' = [listers EXCEPT ![l] = [NoLister EXCEPT !.st = "waiting", !.read = i]]
  /\ UNCHANGED <<world, returned, cached, fresh, revision, actions, logs>>

(* The promise of a read settles: its callers go on at once, and finally() forgets it. *)
Forget(i) == shared' = IF shared = i THEN 0 ELSE shared
Waiting(i) == {l \in Lister : listers[l].st = "waiting" /\ listers[l].read = i}
Resolve(i, v) ==
  /\ listers' = [l \in Lister |-> IF l \in Waiting(i) THEN [NoLister EXCEPT !.st = "answered", !.value = v, !.floor = returned]
                                  ELSE listers[l]]
  /\ Forget(i)

(* docker ps has looked, or failed *)
Ps(i) ==
  /\ reads[i].st = "ps"
  /\ \/ /\ reads' = [reads EXCEPT ![i] = [@ EXCEPT !.st = "stats", !.value = world]]
        /\ UNCHANGED <<shared, listers>>
     \/ /\ reads' = [reads EXCEPT ![i].st = "done"]
        /\ listers' = [l \in Lister |-> IF l \in Waiting(i) THEN NoLister ELSE listers[l]]
        /\ Forget(i)
  /\ UNCHANGED <<world, returned, cached, fresh, revision, actions, logs>>

(* docker stats has answered: the result is kept, or the function calls itself, and who waited *)
(* for this read waits for what that call awaits.                                              *)
Outdated_Never(i) == FALSE
Outdated(i) == reads[i].rev # revision
Waits(i, j) == listers' = [l \in Lister |-> IF l \in Waiting(i) THEN [listers[l] EXCEPT !.read = j] ELSE listers[l]]
Done(i) == [reads EXCEPT ![i].st = "done"]

Stats(i) ==
  /\ reads[i].st = "stats"
  /\ \/ /\ ~Outdated(i)
        /\ cached' = reads[i].value + 1 /\ fresh' = TRUE
        /\ reads' = Done(i) /\ Resolve(i, reads[i].value)
     \/ /\ Outdated(i) /\ Current
        /\ reads' = Done(i) /\ Resolve(i, cached - 1)
        /\ UNCHANGED <<cached, fresh>>
     \/ /\ Outdated(i) /\ ~Current /\ Shares(shared)
        /\ reads' = Done(i) /\ Waits(i, shared)
        /\ UNCHANGED <<cached, fresh, shared>>
     \/ /\ Outdated(i) /\ ~Current /\ ~Shares(shared)
        /\ \E j \in NewReads : /\ reads' = [Done(i) EXCEPT ![j] = StartRead(j)]
                               /\ Waits(i, j) /\ shared' = j
        /\ UNCHANGED <<cached, fresh>>
  /\ UNCHANGED <<world, returned, revision, actions, logs>>
-----------------------------------------------------------------------------
(* GET /api/containers/:id/logs/stream: docker logs --follow *)
OpenLogs ==
  /\ logs.st = "off"
  /\ logs' = [NoLogs EXCEPT !.st = "open", !.child = "on", !.left = MaxChunks, !.client = TRUE]
  /\ UNCHANGED cacheVars

(* sendChunk: a write that fills the buffer pauses the child's output. *)
LogChunk ==
  /\ logs.st = "open" /\ ~logs.paused /\ logs.left > 0
  /\ \E full \in BOOLEAN : logs' = [logs EXCEPT !.left = @ - 1, !.held = @ + 1, !.paused = full]
  /\ UNCHANGED cacheVars

(* The browser reads; "drain" once nothing is held. *)
Resumed_Never(p) == p
Resumed(p) == FALSE

LogRead ==
  /\ logs.client /\ logs.held > 0
  /\ logs' = [logs EXCEPT !.held = @ - 1, !.paused = IF logs.held = 1 THEN Resumed(@) ELSE @]
  /\ UNCHANGED cacheVars

(* The container stops: no more output.  "close" comes once its output has been read. *)
LogChildExits ==
  /\ logs.child = "on" /\ logs' = [logs EXCEPT !.child = "exited"]
  /\ UNCHANGED cacheVars

LogEnds ==
  /\ logs.st = "open" /\ logs.child = "exited" /\ logs.left = 0 /\ ~logs.paused
  /\ logs' = [logs EXCEPT !.st = "ended", !.child = "none"]
  /\ UNCHANGED cacheVars

(* cleanup: the browser has gone, or the authorization was revoked *)
KillsChild(c) == IF c = "on" THEN "killed" ELSE c
LogCleanup ==
  /\ logs.st = "open"
  /\ logs' = [logs EXCEPT !.st = "ended", !.child = KillsChild(@), !.paused = TRUE, !.client = FALSE]
  /\ UNCHANGED cacheVars

LogOver == logs.st = "ended" /\ logs' = NoLogs /\ UNCHANGED cacheVars

ContainersNext ==
  \/ \E a \in Action : Act(a) \/ ActReturns(a) \/ ActFails(a)
  \/ \E l \in Lister : CallList(l)
  \/ \E i \in 1..MaxReads : Ps(i) \/ Stats(i)
  \/ Expire
  \/ OpenLogs \/ LogChunk \/ LogRead \/ LogChildExits \/ LogEnds \/ LogCleanup \/ LogOver

ContainersSpec == ContainersInit /\ [][ContainersNext]_containersVars

(* Commands end, output is handed on, a browser that stays reads. *)
ContainersFairness ==
  /\ WF_containersVars(LogChunk) /\ WF_containersVars(LogRead) /\ WF_containersVars(LogEnds)
  /\ \A i \in 1..MaxReads : WF_containersVars(Ps(i) \/ Stats(i))
-----------------------------------------------------------------------------
ReadState == [st : {"unused", "ps", "stats", "done"}, rev : 0..MaxRevision, value : 0..MaxWorld]
ListerState == [st : {"idle", "waiting", "answered"}, read : 0..MaxReads, value : 0..MaxWorld, floor : 0..MaxWorld]
LogState == [st : {"off", "open", "ended"}, child : {"none", "on", "exited", "killed"},
             left : 0..MaxChunks, held : 0..MaxChunks, paused : BOOLEAN, client : BOOLEAN]

ContainersTypeOK ==
  /\ world \in 0..MaxWorld /\ returned \in 0..MaxWorld /\ cached \in 0..(MaxWorld + 1)
  /\ fresh \in BOOLEAN /\ revision \in 0..MaxRevision /\ shared \in 0..MaxReads
  /\ reads \in [1..MaxReads -> ReadState]
  /\ listers \in [Lister -> ListerState]
  /\ actions \in [Action -> 0..MaxWorld]
  /\ logs \in LogState

(* A list of containers never predates an action that had answered success *)
(* when the list was handed out, through whichever cache or shared read it *)
(* came.  Of an action that failed it may show nothing until the cache is  *)
(* five seconds old, though the action took effect in part                 *)
(* (docker.ts:84-150, 183-208; project-runtime.ts:21-30).                  *)
ListIsCurrent == \A l \in Lister : listers[l].st = "answered" => listers[l].value >= listers[l].floor

(* A log stream whose container stopped ends, unless the page closes first. *)
LogStreamEnds == logs.st = "open" /\ logs.child = "exited" ~> logs.st # "open"
=============================================================================
