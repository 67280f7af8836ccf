----------------------------- MODULE RunnerStop -----------------------------
(***************************************************************************)
(* How a run with an API key comes to a stop: the tool loop of             *)
(* executeAgentTools (services/agent-provider-runner.ts), AgentWorkspace   *)
(* (services/agent-tools.ts), the handle with its stop (createActiveAgent- *)
(* Run, stopAgentTask, drainActiveAgentRuns of services/agent-tasks.ts)    *)
(* and the shutdown of the server (index.ts).                              *)
(*                                                                         *)
(* A run goes from a request in admission through the preparation of its   *)
(* worktree and its workspace to turns of the model, each of which calls   *)
(* tools; a tool is run_command, which starts a process group, or works on *)
(* files.  AgentTasks has the rows, the worktree and the automation.       *)
(*                                                                         *)
(* runCommand settles when its child has exited and nobody holds the       *)
(* child's output any more (the event "close"), which is not the end of    *)
(* the group: who let go of the output lives on, and who left the group    *)
(* and holds the output outlives SIGKILL.                                  *)
(***************************************************************************)
EXTENDS Integers

CONSTANTS Runner, MaxTools   \* the runs, and a bound on the tools of one run

ASSUME RunnerAssumption == MaxTools \in Nat

VARIABLES
  body,      \* executeAgentRun, for each run
  aborted,   \* controller.signal
  stopper,   \* stopPromise
  ws,        \* its AgentWorkspace
  proc,      \* activeCommand, what lives of its process group, and what left the group
  tools,     \* calls of execute, and processes that were started after an abort
  srv        \* the server's shutdown, and the runs it waits for

runnerVars == <<body, aborted, stopper, ws, proc, tools, srv>>

(* launchPromise, cleanupPromise, this.started, and whether stop is registered. *)
NoWorkspace == [launch |-> "no", cleanup |-> "no", started |-> FALSE, hooked |-> FALSE]

(* A command that has settled, or is under way, or was sent SIGTERM or SIGKILL; those who live and   *)
(* hold its output, or live and have let go of it, in its group and outside of it.                   *)
Hold == {"none", "quiet", "holds"}
ToolProcess == [st : {"none", "alive", "term", "kill"}, group : Hold, left : Hold]
NoCommand == [st |-> "none", group |-> "none", left |-> "none"]

RunnerInit ==
  /\ body = [r \in Runner |-> "off"]
  /\ aborted = [r \in Runner |-> FALSE]
  /\ stopper = [r \in Runner |-> "no"]
  /\ ws = [r \in Runner |-> NoWorkspace]
  /\ proc = [r \in Runner |-> NoCommand]
  /\ tools = [r \in Runner |-> [called |-> 0, late |-> 0]]
  /\ srv = [st |-> "up", waits |-> {}, late |-> FALSE]

Up == srv.st # "gone"
Goto(r, b) == body' = [body EXCEPT ![r] = b]
Keep == UNCHANGED <<aborted, stopper, ws, proc, tools, srv>>

(* The handle is in activeRuns. *)
Active(r) == body[r] \notin {"off", "admission", "over"}

(* Where the body goes on if the signal is not aborted, and else to its end. *)
Unless(r, b) == Goto(r, IF aborted[r] THEN "cleanup" ELSE b)
-----------------------------------------------------------------------------
Request(r) ==
  /\ srv.st = "up" /\ body[r] = "off"
  /\ Goto(r, "admission") /\ Keep

(* Admission registers the handle, or refuses. *)
Register(r) ==
  /\ body[r] = "admission"
  /\ body' \in {[body EXCEPT ![r] = b] : b \in {"prepare", "over"}}
  /\ Keep

(* The worktree is ready; the workspace is made, stop registered, start begun. *)
Prepared(r) ==
  /\ body[r] = "prepare"
  /\ IF aborted[r] THEN Goto(r, "terminal") /\ UNCHANGED ws
     ELSE /\ Goto(r, "launch")
          /\ ws' = [ws EXCEPT ![r] = [@ EXCEPT !.hooked = TRUE, !.launch = "pending"]]
  /\ UNCHANGED <<aborted, stopper, proc, tools, srv>>

PrepareFails(r) == body[r] = "prepare" /\ Goto(r, "terminal") /\ Keep

(* The home directory is there, or the worktree is not a directory. *)
Launched(r) ==
  /\ body[r] = "launch" /\ ws[r].launch = "pending"
  /\ \E ok \in BOOLEAN :
       LET up == ok /\ ~aborted[r]
       IN  /\ ws' = [ws EXCEPT ![r] = [@ EXCEPT !.launch = "settled", !.started = up]]
           /\ Goto(r, IF up THEN "turn" ELSE "cleanup")
  /\ UNCHANGED <<aborted, stopper, proc, tools, srv>>

(* The model answers with calls, has nothing more to do, or fails. *)
Turn(r) ==
  /\ body[r] = "turn"
  /\ \E more \in BOOLEAN : IF more /\ tools[r].called < MaxTools THEN Unless(r, "call") ELSE Goto(r, "cleanup")
  /\ Keep

(* executeAgentTools looks at the signal before a call and after its event. *)
MayCall(r) == ~aborted[r]

(* The call is recorded and executed: a command waits for its path, a tool   *)
(* that works on files is done, or the workspace has stopped.                *)
CallTool(r) ==
  /\ body[r] = "call"
  /\ IF ~MayCall(r) THEN Goto(r, "cleanup") /\ UNCHANGED tools
     ELSE /\ tools' = [tools EXCEPT ![r].called = @ + 1]
          /\ \E command \in BOOLEAN : Goto(r, IF command /\ ws[r].started THEN "path" ELSE "result")
  /\ UNCHANGED <<aborted, stopper, ws, proc, srv>>

(* runCommand, which may not find its program; a signal that is aborted already terminates at once.  *)
(* What an earlier command left behind is not followed any further.                                  *)
Spawn(r) ==
  /\ body[r] = "path"
  /\ Goto(r, "command")
  /\ \E group \in {"none", "holds"} :
       proc' = [proc EXCEPT ![r] = [st |-> IF aborted[r] THEN "term" ELSE "alive", group |-> group, left |-> "none"]]
  /\ tools' = [tools EXCEPT ![r].late = IF aborted[r] THEN @ + 1 ELSE @]
  /\ UNCHANGED <<aborted, stopper, ws, srv>>

(* The processes themselves: they end, let go of the output (an exit, a redirection), and a member   *)
(* of the group may start one that leaves it (setsid), holding the output or not.                    *)
HoldsLess == [none |-> {"none"}, quiet |-> {"none", "quiet"}, holds |-> Hold]
ProcessesGoOn(r) ==
  /\ \/ \E group \in HoldsLess[proc[r].group] : proc' = [proc EXCEPT ![r].group = group]
     \/ \E left \in HoldsLess[proc[r].left] : proc' = [proc EXCEPT ![r].left = left]
     \/ \E left \in HoldsLess[proc[r].group] : proc' = [proc EXCEPT ![r].left = left]
  /\ UNCHANGED <<body, aborted, stopper, ws, tools, srv>>

(* 'close', or 'error': the child is gone and its output closed.  Nothing is killed any more. *)
CommandSettles(r) ==
  /\ proc[r].st # "none" /\ proc[r].group # "holds" /\ proc[r].left # "holds"
  /\ proc' = [proc EXCEPT ![r].st = "none"]
  /\ Goto(r, "result")
  /\ UNCHANGED <<aborted, stopper, ws, tools, srv>>

Next_Signal_NoKill == [alive |-> "term", term |-> "term"]

(* The time limit: SIGTERM to the group, and SIGKILL five seconds later, which nobody in it survives *)
Next_Signal == [alive |-> "term", term |-> "kill"]
Signal(r) ==
  /\ proc[r].st \in {"alive", "term"}
  /\ LET st == Next_Signal[proc[r].st]
     IN  proc' = [proc EXCEPT ![r] = [st |-> st, group |-> IF st = "kill" THEN "none" ELSE proc[r].group,
                                      left |-> proc[r].left]]
  /\ UNCHANGED <<body, aborted, stopper, ws, tools, srv>>

(* The result is recorded; the same answer may hold another call. *)
Result(r) ==
  /\ body[r] = "result"
  /\ \E more \in BOOLEAN : Unless(r, IF more /\ tools[r].called < MaxTools THEN "call" ELSE "turn")
  /\ Keep
-----------------------------------------------------------------------------
(* AgentWorkspace.stop, once for all callers: the launch, then the command   *)
(* that is active at that moment, then the home directory.                   *)

StartCleanup(w) == IF w.cleanup = "no" THEN [w EXCEPT !.cleanup = "launch"] ELSE w

AwaitLaunch(r) ==
  /\ ws[r].cleanup = "launch" /\ ws[r].launch # "pending"
  /\ ws' = [ws EXCEPT ![r].cleanup = "command"]
  /\ UNCHANGED <<body, aborted, stopper, proc, tools, srv>>

AwaitCommand_Skipped(r) == TRUE
AwaitCommand(r) == proc[r].st = "none"

RemoveHome(r) ==
  /\ ws[r].cleanup = "command" /\ AwaitCommand(r)
  /\ ws' = [ws EXCEPT ![r] = [@ EXCEPT !.cleanup = "done", !.started = FALSE]]
  /\ UNCHANGED <<body, aborted, stopper, proc, tools, srv>>

(* The finally block of the run calls it too, and waits. *)
Cleanup(r) ==
  /\ body[r] = "cleanup" /\ ws[r].cleanup = "no"
  /\ ws' = [ws EXCEPT ![r] = StartCleanup(@)]
  /\ UNCHANGED <<body, aborted, stopper, proc, tools, srv>>

Cleaned(r) == body[r] = "cleanup" /\ ws[r].cleanup = "done" /\ Goto(r, "terminal") /\ Keep

(* The rows are terminal, the last events out, the handle is dropped. *)
Complete(r) == body[r] = "terminal" /\ Goto(r, "over") /\ Keep
-----------------------------------------------------------------------------
(* handle.stop: abort, then what is registered now; called again it is the   *)
(* same promise.                                                             *)
Stopped(R) ==
  LET new == {r \in R : stopper[r] = "no"}
  IN  /\ aborted' = [r \in Runner |-> aborted[r] \/ r \in new]
      /\ ws' = [r \in Runner |-> IF r \in new /\ ws[r].hooked THEN StartCleanup(ws[r]) ELSE ws[r]]
      /\ stopper' = [r \in Runner |-> IF r \notin new THEN stopper[r]
                                      ELSE IF ws[r].hooked THEN "waits" ELSE "done"]

Stop(r) ==
  /\ Active(r) /\ stopper[r] = "no"
  /\ Stopped({r})
  /\ UNCHANGED <<body, proc, tools, srv>>

StopAnswered(r) ==
  /\ stopper[r] = "waits" /\ ws[r].cleanup = "done"
  /\ stopper' = [stopper EXCEPT ![r] = "done"]
  /\ UNCHANGED <<body, aborted, ws, proc, tools, srv>>

(* agentRunTimeoutMs: the signal alone. *)
TimeLimit(r) ==
  /\ Active(r) /\ ~aborted[r]
  /\ aborted' = [aborted EXCEPT ![r] = TRUE]
  /\ UNCHANGED <<body, stopper, ws, proc, tools, srv>>

(* runCommand listens to the signal. *)
AbortReaches(r) ==
  /\ aborted[r] /\ proc[r].st = "alive"
  /\ proc' = [proc EXCEPT ![r].st = "term"]
  /\ UNCHANGED <<body, aborted, stopper, ws, tools, srv>>
-----------------------------------------------------------------------------
(* shutdown: no new requests; the runs that are active now are stopped and   *)
(* awaited, for a time; then the requests that are still open, for a time.   *)

Shutdown ==
  /\ srv.st = "up"
  /\ LET now == {r \in Runner : Active(r)}
     IN  srv' = [srv EXCEPT !.st = "drain", !.waits = now] /\ Stopped(now)
  /\ UNCHANGED <<body, proc, tools>>

Drained_Stopped == \A r \in srv.waits : stopper[r] = "done"
Drained == \A r \in srv.waits : stopper[r] = "done" /\ body[r] = "over"

EndDrain ==
  /\ srv.st = "drain"
  /\ \E late \in BOOLEAN : (late \/ Drained) /\ srv' = [srv EXCEPT !.st = "close", !.late = late]
  /\ UNCHANGED <<body, aborted, stopper, ws, proc, tools>>

(* pool.end and process.exit *)
Exit ==
  /\ srv.st = "close"
  /\ srv' = [srv EXCEPT !.st = "gone"]
  /\ UNCHANGED <<body, aborted, stopper, ws, proc, tools>>
-----------------------------------------------------------------------------
BodySteps(r) ==
  \/ Register(r) \/ Prepared(r) \/ Launched(r) \/ Turn(r) \/ CallTool(r) \/ Spawn(r) \/ Result(r)
  \/ CommandSettles(r) \/ Cleanup(r) \/ Cleaned(r) \/ Complete(r)
WorkspaceSteps(r) == AwaitLaunch(r) \/ RemoveHome(r) \/ StopAnswered(r) \/ AbortReaches(r)

Lives(r) == Request(r) \/ BodySteps(r) \/ PrepareFails(r) \/ ProcessesGoOn(r) \/ Signal(r)
              \/ WorkspaceSteps(r) \/ Stop(r) \/ TimeLimit(r)

RunnerNext ==
  \/ Up /\ (\E r \in Runner : Lives(r))
  \/ Shutdown \/ EndDrain \/ Exit
  \/ UNCHANGED runnerVars   \* every run is over, or the process is

(* The event loop, the timers, the time limit of a model's answer.  Nothing  *)
(* is assumed of the processes.                                              *)
RunnerFairness ==
  /\ \A r \in Runner :
       /\ WF_runnerVars(Up /\ BodySteps(r)) /\ WF_runnerVars(Up /\ WorkspaceSteps(r))
       /\ WF_runnerVars(Up /\ aborted[r] /\ Signal(r))
  /\ WF_runnerVars(EndDrain) /\ WF_runnerVars(Exit)

RunnerSpec == RunnerInit /\ [][RunnerNext]_runnerVars /\ RunnerFairness
-----------------------------------------------------------------------------
(* The types of the variables. *)
Workspace == [launch : {"no", "pending", "settled"}, cleanup : {"no", "launch", "command", "done"},
              started : BOOLEAN, hooked : BOOLEAN]

RunnerTypeOK ==
  /\ body \in [Runner -> {"off", "admission", "prepare", "launch", "turn", "call", "path", "command",
                          "result", "cleanup", "terminal", "over"}]
  /\ aborted \in [Runner -> BOOLEAN]
  /\ stopper \in [Runner -> {"no", "waits", "done"}]
  /\ ws \in [Runner -> Workspace]
  /\ proc \in [Runner -> ToolProcess]
  /\ tools \in [Runner -> [called : 0..MaxTools, late : Nat]]
  /\ srv \in [st : {"up", "drain", "close", "gone"}, waits : SUBSET Runner, late : BOOLEAN]

(* A run that is being recorded as ended, or whose handle is dropped, has no *)
(* command under way and no process that holds a command's output; a run     *)
(* that was stopped starts at most the one command that was past its checks; *)
(* unless there is such a one, the answer to the stop comes after the last   *)
(* command - in whatever order stop, time limit, launch, tools and their     *)
(* ends fall.  A process that redirected its output may live on: nothing     *)
(* waits for it (commands.ts:106-111, agent-tools.ts:133-142).               *)
Quiet(c) == c.st = "none" /\ c.group # "holds" /\ c.left # "holds"
EndedIsQuiet ==
  \A r \in Runner : /\ body[r] \in {"terminal", "over"} => Quiet(proc[r])
                    /\ tools[r].late <= 1
                    /\ (stopper[r] = "done" /\ ws[r].hooked /\ tools[r].late = 0) => Quiet(proc[r])

(* A shutdown that was not cut short by its time limit leaves none of the    *)
(* runs it stopped: each is recorded as ended, and no command of it is under *)
(* way (agent-tasks.ts:726-745).                                             *)
ShutdownWaits ==
  srv.st \in {"close", "gone"} /\ ~srv.late => \A r \in srv.waits : body[r] = "over" /\ Quiet(proc[r])

(* A run that was stopped or ran out of time ends, whatever its command      *)
(* does, unless the process ends first, or a process that left the command's *)
(* group, so that SIGKILL does not reach it, holds the output open           *)
(* (commands.ts:81-111).                                                     *)
StoppedRunEnds ==
  \A r \in Runner : (aborted[r] /\ Active(r)) ~> (body[r] = "over" \/ ~Up \/ proc[r].left = "holds")
=============================================================================
