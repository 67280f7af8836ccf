-------------------------- MODULE DeploymentOutput --------------------------
(***************************************************************************)
(* What one deployment prints, from the child process to the reader:       *)
(* runCommand (services/commands.ts), the steps and the buffered log       *)
(* writer of services/deployment-runner.ts, appendDeploymentLog and        *)
(* finishDeployment (services/deployments.ts), called directly by the      *)
(* master or posted by a worker (worker.ts, routes/workers.ts), and the    *)
(* event stream of routes/deployments.ts.                                  *)
(*                                                                         *)
(* Everything printed is an item, numbered in the order in which it was    *)
(* printed; Gap stands for the two notices that say output was left out.   *)
(* An update on the stream carries the row; its status is all that is kept *)
(* of it here.                                                             *)
(* The lines the runner itself logs between two commands go the way of a   *)
(* command's header and are left out, as is a deletion of the row.         *)
(***************************************************************************)
EXTENDS Integers, SequencesExt

CONSTANTS Reader,
          MaxItems,     \* a bound on what is printed
          MaxPending,   \* MAX_PENDING_LOG_CHARS, in items: a notice and an item at least
          MaxLog,       \* config.deploymentLogMaxChars, in items: a notice, an item, a failure at least
          InOrder       \* the master learns of updates of one row in their order

ASSUME OutputAssumption ==
  /\ MaxItems \in Nat \ {0} /\ MaxPending \in Nat /\ MaxPending >= 2 /\ MaxLog \in Nat /\ MaxLog >= 3
  /\ InOrder \in BOOLEAN

VARIABLES
  remote,               \* a worker executes the deployment
  step, place, signalled, \* runProjectDeployment, its caller, callbacks.signal
  prog, pipe, printed,  \* the child process of runCommand, its unread output
  pending, drains, failure,   \* createBufferedLogWriter
  calls,                \* appendLog and finish calls that have not returned
  row,                  \* deployments: status and logs
  rd                    \* the readers' streams

runner == <<remote, step, place, signalled>>
child == <<prog, pipe, printed>>
buffer == <<pending, drains, failure>>
outputVars == <<runner, child, buffer, calls, row, rd>>

Gap == 0
Failure == -1   \* "Deployment failed: ..."
NoProc == [st |-> "none", sig |-> "none", late |-> FALSE, ok |-> TRUE]
NoReader == [st |-> "off", snap |-> "none", pend |-> "none", full |-> FALSE, shown |-> "none"]

LastOf(s, n) == SubSeq(s, Len(s) - n + 1, Len(s))
Limited(s, n) == IF Len(s) > n THEN <<Gap>> \o LastOf(s, n - 1) ELSE s

(* The steps of a deployment; "compose" stands for the environment file,   *)
(* the compose file and the check of its ports, and runs no command.       *)
Plan == <<"source", "compose", "up">>

OutputInit ==
  /\ remote \in BOOLEAN
  /\ step = 1 /\ place = "off" /\ signalled = FALSE
  /\ prog = NoProc /\ pipe = << >> /\ printed = 0
  /\ pending = << >> /\ drains = 0 /\ failure = FALSE
  /\ calls = {}
  /\ row = [status |-> "running", log |-> << >>]
  /\ rd = [r \in Reader |-> NoReader]
-----------------------------------------------------------------------------
(* appendLog and finish: a direct call on the master, a request of a worker. *)

Calling(by, adds, sets) ==
  {[by |-> by, adds |-> adds, sets |-> sets, st |-> "sent", snap |-> "none"]}

Place(p) == place' = p

(* A step may run several commands. *)
NextSteps == {step + 1} \cup (IF printed < MaxItems THEN {step} ELSE {})

(* What follows the statement the runner awaited. *)
Continue(ok) ==
  CASE place = "header" -> Place(IF ok THEN "spawn" ELSE "failed") /\ UNCHANGED step
    [] place = "newline" -> IF ok /\ prog.ok THEN Place("step") /\ step' \in NextSteps
                                             ELSE Place("failed") /\ UNCHANGED step
    [] place = "finish" -> Place(IF ~ok THEN "failed" ELSE IF remote THEN "over" ELSE "reconcile")
                           /\ UNCHANGED step
    [] place = "report" -> Place(IF ok \/ remote THEN "unmarked" ELSE "dying") /\ UNCHANGED step
    [] place = "mark" -> Place(IF ok \/ remote THEN "over" ELSE "dying") /\ UNCHANGED step

(* The end of one round of drain(), and the finally block behind it. *)
DrainEnds(ok, others) ==
  /\ failure' = (failure \/ ~ok)
  /\ IF ok /\ pending # << >>
       THEN pending' = << >> /\ calls' = others \cup Calling("writer", pending, "none")
            /\ UNCHANGED drains
       ELSE drains' = drains - 1 /\ calls' = others /\ UNCHANGED pending

(* The promise of a call settles; others are the calls still under way. *)
SettleCall(c, ok, others) ==
  IF c.by = "runner"
    THEN Continue(ok) /\ calls' = others /\ UNCHANGED buffer
    ELSE DrainEnds(ok, others) /\ UNCHANGED <<step, place>>

(* appendDeploymentLog's UPDATE ... RETURNING, or that of finishDeployment. *)
(* Two calls use two connections, whose answers may overtake each other.    *)
Update(c) ==
  /\ c.st = "sent"
  /\ InOrder => \A other \in calls : other.st # "stored"
  /\ row' = [status |-> IF c.sets = "none" THEN row.status ELSE c.sets,
             log |-> Limited(row.log \o c.adds, MaxLog)]
  /\ calls' = (calls \ {c}) \cup {[c EXCEPT !.st = "stored", !.snap = row'.status]}
  /\ UNCHANGED <<runner, child, buffer, rd>>

Running(e) == e = "running"

Delivered_NoBuffer(s, e, slow) ==
  IF s.st # "ready" THEN s
  ELSE [s EXCEPT !.shown = e, !.full = slow /\ Running(e), !.st = IF Running(e) THEN "ready" ELSE "ended"]

(* deliver: an update reaches one stream, whose socket may be full after it. *)
Delivered(s, e, slow) ==
  CASE s.st \in {"off", "ended"} -> s
    [] s.st \in {"reading", "read"} \/ (s.st = "ready" /\ s.full) -> [s EXCEPT !.pend = e]
    [] s.st = "ready" /\ ~s.full -> [s EXCEPT !.shown = e, !.full = slow /\ Running(e),
                                              !.pend = IF Running(e) THEN @ ELSE "none",
                                              !.st = IF Running(e) THEN "ready" ELSE "ended"]

(* The handler has its answer: the bus tells the streams, the caller is told. *)
PublishUpdate(c) ==
  /\ c.st = "stored"
  /\ LET event == IF c.sets = "none" THEN c.snap ELSE row.status
     IN  \E slow \in SUBSET Reader :
           rd' = [r \in Reader |-> Delivered(rd[r], event, r \in slow)]
  /\ calls' = (calls \ {c}) \cup (IF c.by = "nobody" THEN {}
                                  ELSE {[c EXCEPT !.st = "published", !.snap = "none"]})
  /\ UNCHANGED <<runner, child, buffer, row>>

Returned(c) ==
  /\ c.st = "published"
  /\ SettleCall(c, TRUE, calls \ {c})
  /\ UNCHANGED <<remote, signalled, child, row, rd>>

(* The statement fails, or the request or its answer is lost. *)
Lost(c) ==
  /\ c.by # "nobody"
  /\ c.st = "sent" \/ (remote /\ c.st = "published")
  /\ SettleCall(c, FALSE, calls \ {c})
  /\ UNCHANGED <<remote, signalled, child, row, rd>>

(* requestWorkerJson times out; the handler goes on. *)
GivenUp(c) ==
  /\ remote
  /\ c.by # "nobody"
  /\ c.st \in {"sent", "stored"}
  /\ SettleCall(c, FALSE, (calls \ {c}) \cup {[c EXCEPT !.by = "nobody"]})
  /\ UNCHANGED <<remote, signalled, child, row, rd>>
-----------------------------------------------------------------------------
(* The steps of runProjectDeployment and its caller. *)

(* A line the runner logs, as long as the bound lets it have a number. *)
Line == IF printed < MaxItems THEN <<printed + 1>> ELSE << >>
Prints == printed' = printed + Len(Line)

Await(p, adds, sets) ==
  /\ Place(p)
  /\ calls' = calls \cup Calling("runner", adds, sets)
  /\ UNCHANGED <<remote, step, signalled, pipe, buffer, row, rd>>

Stay == UNCHANGED <<remote, signalled, child, buffer, calls, row, rd>>

(* The deployment begins; a step may throw before it runs a command: the     *)
(* signal, a taken port, a missing file.                                     *)
Launch == place = "off" /\ Place("step") /\ UNCHANGED step /\ Stay

StepFails == place = "step" /\ Place("failed") /\ UNCHANGED step /\ Stay

StepSkips ==
  /\ place = "step"
  /\ step < Len(Plan)
  /\ ~signalled
  /\ step' = step + 1
  /\ UNCHANGED place
  /\ Stay

(* runLogged logs its command line. *)
RunLogged ==
  /\ place = "step"
  /\ step <= Len(Plan)
  /\ Plan[step] # "compose"
  /\ ~signalled
  /\ Await("header", Line, "none")
  /\ Prints
  /\ prog' = NoProc

FinishSuccess ==
  /\ place = "step"
  /\ step > Len(Plan)
  /\ Await("finish", << >>, "success")
  /\ UNCHANGED <<prog, printed>>

(* reconcileTunnelAssignments, after the end of a local deployment *)
Reconcile ==
  /\ place = "reconcile"
  /\ place' \in {"over", "failed"}
  /\ UNCHANGED step
  /\ Stay

(* The catch block; a worker that shuts down reports no message. *)
ReportFailure ==
  /\ place = "failed"
  /\ ~signalled
  /\ Await("report", <<Failure>>, "none")
  /\ UNCHANGED <<prog, printed>>

MarkFailed ==
  /\ place = "unmarked" \/ (place = "failed" /\ signalled)
  /\ Await("mark", << >>, "failed")
  /\ UNCHANGED <<prog, printed>>

(* A failure handler of the master throws: the process ends, and its sockets. *)
ProcessEnds ==
  /\ place = "dying"
  /\ Place("over")
  /\ calls' = {}
  /\ rd' = [r \in Reader |-> [rd[r] EXCEPT !.st = "ended", !.pend = "none", !.snap = "none"]]
  /\ UNCHANGED <<remote, step, signalled, child, buffer, row>>
-----------------------------------------------------------------------------
(* runCommand, and the writer its output goes to. *)

(* write(): the newest output is kept; a drain is started when there is none. *)
Write(items) ==
  IF drains > 0
    THEN pending' = Limited(pending \o items, MaxPending) /\ UNCHANGED <<calls, drains, failure>>
    ELSE IF failure \/ items = << >> THEN UNCHANGED <<calls, buffer>>
    ELSE /\ calls' = calls \cup Calling("writer", items, "none")
         /\ drains' = 1
         /\ UNCHANGED <<pending, failure>>

SpawnCommand ==
  /\ place = "spawn"
  /\ Place("command")
  /\ prog' = [NoProc EXCEPT !.st = "running", !.sig = IF signalled THEN "term" ELSE "none"]
  /\ pending' = << >> /\ drains' = 0 /\ failure' = FALSE
  /\ UNCHANGED <<remote, step, signalled, pipe, printed, calls, row, rd>>

(* The program cannot be started: its error is its only output. *)
SpawnFails ==
  /\ place = "command"
  /\ prog = [NoProc EXCEPT !.st = "running"]
  /\ pipe = << >> /\ drains = 0
  /\ Place("flush")
  /\ prog' = [NoProc EXCEPT !.ok = FALSE]
  /\ Prints
  /\ Write(Line)
  /\ UNCHANGED <<remote, step, signalled, pipe, row, rd>>

ChildPrints ==
  /\ prog.st = "running"
  /\ printed < MaxItems
  /\ printed' = printed + 1
  /\ pipe' = Append(pipe, printed + 1)
  /\ UNCHANGED <<runner, prog, buffer, calls, row, rd>>

ChildExits ==
  /\ prog.st = "running"
  /\ \E code \in IF prog.sig = "kill" THEN {FALSE} ELSE BOOLEAN :
       prog' = [prog EXCEPT !.st = "exited", !.ok = code]
  /\ UNCHANGED <<runner, pipe, printed, buffer, calls, row, rd>>

(* "data": the whole chunk goes to the writer. *)
Collect ==
  /\ pipe # << >>
  /\ pipe' = Tail(pipe)
  /\ Write(<<Head(pipe)>>)
  /\ UNCHANGED <<runner, prog, printed, row, rd>>

PipesClosed_OnExit == prog.st = "exited"

(* "close" comes when the process has ended and its pipes are read out. *)
PipesClosed == prog.st = "exited" /\ pipe = << >>

CommandEnds ==
  /\ place = "command"
  /\ PipesClosed
  /\ Place("flush")
  /\ prog' = [NoProc EXCEPT !.ok = prog.ok /\ ~prog.late]
  /\ UNCHANGED <<remote, step, signalled, pipe, printed, buffer, calls, row, rd>>

Term == IF prog.sig = "kill" THEN "kill" ELSE "term"

Timeout ==
  /\ place = "command"
  /\ ~prog.late
  /\ prog' = [prog EXCEPT !.late = TRUE, !.sig = Term]
  /\ UNCHANGED <<runner, pipe, printed, buffer, calls, row, rd>>

(* A worker is told to stop: callbacks.signal is aborted. *)
Abort ==
  /\ remote
  /\ ~signalled
  /\ signalled' = TRUE
  /\ prog' = IF place = "command" THEN [prog EXCEPT !.sig = Term] ELSE prog
  /\ UNCHANGED <<remote, step, place, pipe, printed, buffer, calls, row, rd>>


(* Five seconds after SIGTERM. *)
Kill ==
  /\ place = "command"
  /\ prog.sig = "term"
  /\ prog' = [prog EXCEPT !.sig = "kill"]
  /\ UNCHANGED <<runner, pipe, printed, buffer, calls, row, rd>>

(* flush(), then throwIfAborted and the newline. *)
Flush ==
  /\ place = "flush"
  /\ drains = 0
  /\ IF failure \/ signalled
       THEN Place("failed") /\ UNCHANGED <<remote, step, signalled, child, buffer, calls, row, rd>>
       ELSE Await("newline", Line, "none") /\ Prints /\ UNCHANGED prog
-----------------------------------------------------------------------------
(* The event stream of one reader. *)

Unsubscribed(s) == [s EXCEPT !.st = "ended", !.pend = "none", !.snap = "none"]

OpenStream(r) ==
  /\ rd[r].st = "off"
  /\ rd' = [rd EXCEPT ![r].st = "reading"]
  /\ UNCHANGED <<runner, child, buffer, calls, row>>

ReadRow(r) ==
  /\ rd[r].st = "reading"
  /\ rd' = [rd EXCEPT ![r] = [@ EXCEPT !.st = "read", !.snap = row.status]]
  /\ UNCHANGED <<runner, child, buffer, calls, row>>

Flushed(s, slow) == IF s.pend = "none" \/ s.st # "ready" THEN s
                    ELSE Delivered([s EXCEPT !.pend = "none"], s.pend, slow)

(* The snapshot is delivered, then the newest update that came meanwhile. *)
SnapshotReady(r) ==
  /\ rd[r].st = "read"
  /\ \E first, second \in BOOLEAN :
       LET s == Delivered([rd[r] EXCEPT !.st = "ready", !.snap = "none"], rd[r].snap, first)
       IN  rd' = [rd EXCEPT ![r] = Flushed(s, second)]
  /\ UNCHANGED <<runner, child, buffer, calls, row>>

(* "drain": the reader has caught up. *)
FlushPending(r) ==
  /\ rd[r].st = "ready"
  /\ rd[r].full
  /\ \E slow \in BOOLEAN : rd' = [rd EXCEPT ![r] = Flushed([@ EXCEPT !.full = FALSE], slow)]
  /\ UNCHANGED <<runner, child, buffer, calls, row>>

(* The reader goes away, or the authorization guard ends the stream. *)
StreamEnds(r) ==
  /\ rd[r].st \in {"reading", "read", "ready"}
  /\ rd' = [rd EXCEPT ![r] = Unsubscribed(@)]
  /\ UNCHANGED <<runner, child, buffer, calls, row>>
-----------------------------------------------------------------------------
Streams == \E r \in Reader : OpenStream(r) \/ ReadRow(r) \/ SnapshotReady(r) \/ FlushPending(r) \/ StreamEnds(r)
Calls == \E c \in calls : Update(c) \/ PublishUpdate(c) \/ Returned(c) \/ Lost(c) \/ GivenUp(c)
Steps == StepFails \/ StepSkips \/ RunLogged \/ FinishSuccess \/ Reconcile \/ ReportFailure
           \/ MarkFailed \/ ProcessEnds
Command == SpawnCommand \/ SpawnFails \/ ChildPrints \/ ChildExits \/ Collect \/ CommandEnds
             \/ Timeout \/ Abort \/ Kill \/ Flush

(* The deployment is over and nobody follows it any more. *)
AllQuiet ==
  /\ place = "over" /\ calls = {}
  /\ \A r \in Reader : rd[r].st = "ended"
  /\ UNCHANGED outputVars

OutputNext == Launch \/ Streams \/ Calls \/ Steps \/ Command \/ AllQuiet

(* The event loops of master and worker run what is ready, timers fire, a   *)
(* process that got SIGKILL ends, and a reader that stays reads.            *)
OutputFairness ==
  /\ WF_outputVars(Steps)
  /\ WF_outputVars(\E c \in calls : Update(c) \/ PublishUpdate(c) \/ Returned(c))
  /\ WF_outputVars(SpawnCommand) /\ WF_outputVars(Collect) /\ WF_outputVars(CommandEnds)
  /\ WF_outputVars(Timeout) /\ WF_outputVars(Kill) /\ WF_outputVars(Flush)
  /\ WF_outputVars(prog.sig = "kill" /\ ChildExits)
  /\ \A r \in Reader : WF_outputVars(ReadRow(r)) /\ WF_outputVars(SnapshotReady(r))
                      /\ WF_outputVars(FlushPending(r))

OutputSpec == OutputInit /\ [][OutputNext]_outputVars /\ OutputFairness
-----------------------------------------------------------------------------
Statuses == {"none", "running", "success", "failed"}

RunnerPlace == {"off", "step", "header", "spawn", "command", "flush", "newline", "finish", "reconcile",
                "failed", "report", "unmarked", "mark", "dying", "over"}

ChildProcess == [st : {"none", "running", "exited"}, sig : {"none", "term", "kill"}, late : BOOLEAN, ok : BOOLEAN]

LogCall == [by : {"runner", "writer", "nobody"}, adds : Seq(Int), sets : {"none", "success", "failed"},
            st : {"sent", "stored", "published"}, snap : Statuses]

LogReader == [st : {"off", "reading", "read", "ready", "ended"}, snap : Statuses, pend : Statuses,
              full : BOOLEAN, shown : Statuses]

(* The types of the variables. *)
OutputTypeOK ==
  /\ remote \in BOOLEAN /\ signalled \in BOOLEAN
  /\ step \in 1..(Len(Plan) + 1) /\ place \in RunnerPlace
  /\ prog \in ChildProcess /\ pipe \in Seq(1..MaxItems) /\ printed \in 0..MaxItems
  /\ pending \in Seq(0..MaxItems) /\ drains \in {0, 1} /\ failure \in BOOLEAN
  /\ calls \subseteq LogCall
  /\ row \in [status : Statuses \ {"none"}, log : Seq(Int)]
  /\ rd \in [Reader -> LogReader]

(* The message of the catch block comes after all output.                  *)
Output(log) == IF log # << >> /\ Last(log) = Failure THEN Front(log) ELSE log

(* A deployment that is recorded as a success has its whole output in its  *)
(* log: everything its commands printed, in the order in which it was      *)
(* printed, with a notice wherever something was left out, to the last     *)
(* item - whatever the pace of the process, the writer and the database    *)
(* (runCommand settles on "close", flush, appendDeploymentLog).            *)
SuccessHasWholeLog ==
  row.status = "success" =>
    LET out == Output(row.log)
    IN  /\ out # << >> /\ out[Len(out)] = printed
        /\ \A i \in 1..Len(out) : out[i] # Gap =>
             IF i = 1 THEN out[i] = 1
             ELSE out[i] = out[i - 1] + 1
                  \/ (out[i - 1] = Gap /\ \A j \in 1..(i - 1) : out[j] < out[i])

(* Every deployment comes to its end, also when a command hangs or its     *)
(* output cannot be stored (timeout, SIGTERM, SIGKILL, the catch block).   *)
RunnerEnds == place = "step" ~> place = "over"

(* A reader who stays connected to the log of a deployment that has ended  *)
(* is told so, wherever between subscription, snapshot and updates the end *)
(* fell, and however slow the connection (GET .../logs/stream).            *)
ReadersEnd ==
  \A r \in Reader :
    (rd[r].st \in {"reading", "read", "ready"} /\ row.status # "running") ~> (rd[r].st = "ended")

(* Both: a deployment ends, and whoever reads its log learns of the end.   *)
OutputEnds == RunnerEnds /\ ReadersEnd

=============================================================================
