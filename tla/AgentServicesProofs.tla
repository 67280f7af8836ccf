------------------------- MODULE AgentServicesProofs ------------------------
(***************************************************************************)
(* The safety of what the coding agent needs: how a run and its tools      *)
(* stop, the homes with copied Codex credentials, the status of its sign-  *)
(* in, the providers and their models, and the events of a run on their    *)
(* way to a browser. Each has an invariant, which holds at first and which *)
(* every action keeps, and the property that follows from it.              *)
(***************************************************************************)
EXTENDS RunnerStop, CodexHomes, CodexSignIn, AiProviders, AgentStream,
        FiniteSetTheorems, SequenceTheorems, TLAPS
-----------------------------------------------------------------------------
(* RunnerStop *)

(* How far a run, its workspace, its process and its stop may be apart.    *)
RunnerAt(r) ==
  /\ proc[r].st # "none" <=> body[r] = "command"
  /\ proc[r].st = "none" => Quiet(proc[r])
  /\ body[r] = "call" => tools[r].called < MaxTools
  /\ tools[r].late \in {0, 1}
  /\ tools[r].late = 1 => aborted[r] /\ body[r] \in {"command", "result", "cleanup", "terminal", "over"}
  /\ aborted[r] => body[r] \notin {"off", "admission"}
  /\ ws[r].cleanup # "no" => aborted[r] \/ body[r] \in {"cleanup", "terminal", "over"}
  /\ (ws[r].cleanup = "done" /\ tools[r].late = 0) => proc[r].st = "none"
  /\ stopper[r] # "no" => aborted[r]
  /\ stopper[r] = "waits" => ws[r].hooked
  /\ (stopper[r] = "done" /\ ws[r].hooked) => ws[r].cleanup = "done"

RunnerInv ==
  /\ RunnerTypeOK
  /\ \A r \in Runner : RunnerAt(r)
  /\ ShutdownWaits

(* Nothing has been started: the invariant holds at first. *)
LEMMA RunnerInvInit == RunnerInit => RunnerInv
BY RunnerAssumption DEF Workspace, RunnerInit, RunnerInv, RunnerTypeOK, RunnerAt, ShutdownWaits, NoWorkspace,
                        ToolProcess, Hold, NoCommand, Quiet

(* What the processes of a command may do keeps its type, and opens no output. *)
LEMMA ProcessesSteps ==
  ASSUME proc \in [Runner -> ToolProcess], NEW r \in Runner, ProcessesGoOn(r)
  PROVE  /\ proc' \in [Runner -> ToolProcess]
         /\ \A q \in Runner : proc'[q].st = proc[q].st /\ (Quiet(proc[q]) => Quiet(proc'[q]))
         /\ UNCHANGED <<body, aborted, stopper, ws, tools, srv>>
<1>1. proc[r] \in ToolProcess /\ proc[r].group \in Hold /\ proc[r].left \in Hold
  BY DEF ToolProcess
<1>2. \A h \in Hold : HoldsLess[h] \subseteq Hold /\ (h # "holds" => "holds" \notin HoldsLess[h])
  BY DEF HoldsLess, Hold
<1>3. PICK c \in ToolProcess : /\ proc' = [proc EXCEPT ![r] = c]
                           /\ c.st = proc[r].st /\ (Quiet(proc[r]) => Quiet(c))
  <2>1. CASE \E group \in HoldsLess[proc[r].group] : proc' = [proc EXCEPT ![r].group = group]
    <3>1. PICK group \in HoldsLess[proc[r].group] : proc' = [proc EXCEPT ![r].group = group]
      BY <2>1
    <3> DEFINE c == [proc[r] EXCEPT !.group = group]
    <3>2. c \in ToolProcess /\ c.st = proc[r].st /\ c.group = group /\ c.left = proc[r].left
      BY <1>1, <1>2 DEF ToolProcess
    <3>3. proc' = [proc EXCEPT ![r] = c]
      BY <3>1
    <3> HIDE DEF c
    <3> QED
      BY <1>1, <1>2, <3>2, <3>3 DEF Quiet
  <2>2. CASE \E rest \in HoldsLess[proc[r].left] \cup HoldsLess[proc[r].group] : proc' = [proc EXCEPT ![r].left = rest]
    <3>1. PICK rest \in HoldsLess[proc[r].left] \cup HoldsLess[proc[r].group] : proc' = [proc EXCEPT ![r].left = rest]
      BY <2>2
    <3> DEFINE c == [proc[r] EXCEPT !.left = rest]
    <3>2. c \in ToolProcess /\ c.st = proc[r].st /\ c.group = proc[r].group /\ c.left = rest
      BY <1>1, <1>2 DEF ToolProcess
    <3>3. proc' = [proc EXCEPT ![r] = c]
      BY <3>1
    <3> HIDE DEF c
    <3> QED
      BY <1>1, <1>2, <3>2, <3>3 DEF Quiet
  <2> QED
    BY <2>1, <2>2 DEF ProcessesGoOn
<1> QED
  BY <1>3 DEF ProcessesGoOn

(* A signal, an abort, a start and the end of a command: what becomes of the command. *)
LEMMA CommandSteps ==
  ASSUME proc \in [Runner -> ToolProcess], NEW r \in Runner
  PROVE  /\ Signal(r) => /\ proc' \in [Runner -> ToolProcess] /\ proc[r].st # "none" /\ proc'[r].st # "none"
                         /\ \A q \in Runner : q # r => proc'[q] = proc[q]
         /\ AbortReaches(r) => /\ proc' \in [Runner -> ToolProcess] /\ proc[r].st # "none" /\ proc'[r].st # "none"
                               /\ \A q \in Runner : q # r => proc'[q] = proc[q]
         /\ Spawn(r) => /\ proc' \in [Runner -> ToolProcess] /\ proc'[r].st # "none"
                        /\ \A q \in Runner : q # r => proc'[q] = proc[q]
         /\ CommandSettles(r) => /\ proc' \in [Runner -> ToolProcess] /\ proc'[r].st = "none" /\ Quiet(proc'[r])
                          /\ \A q \in Runner : q # r => proc'[q] = proc[q]
<1>0. proc[r] \in ToolProcess /\ proc[r].group \in Hold /\ proc[r].left \in Hold
  BY DEF ToolProcess
<1>1. ASSUME NEW c \in ToolProcess, proc' = [proc EXCEPT ![r] = c]
      PROVE  proc' \in [Runner -> ToolProcess] /\ proc'[r] = c /\ \A q \in Runner : q # r => proc'[q] = proc[q]
  BY <1>1
<1>2. ASSUME Signal(r)
      PROVE  \E c \in ToolProcess : proc' = [proc EXCEPT ![r] = c] /\ c.st # "none" /\ proc[r].st # "none"
  <2> DEFINE st == Next_Signal[proc[r].st]
             c == [st |-> st, group |-> IF st = "kill" THEN "none" ELSE proc[r].group, left |-> proc[r].left]
  <2>1. st \in {"term", "kill"} /\ proc[r].st # "none" /\ proc' = [proc EXCEPT ![r] = c]
    BY <1>2 DEF Signal, Next_Signal
  <2> HIDE DEF st
  <2>2. c \in ToolProcess /\ c.st = st
    BY <1>0, <2>1 DEF ToolProcess, Hold
  <2> QED
    BY <2>1, <2>2
<1>3. ASSUME AbortReaches(r)
      PROVE  \E c \in ToolProcess : proc' = [proc EXCEPT ![r] = c] /\ c.st # "none" /\ proc[r].st # "none"
  <2> DEFINE c == [proc[r] EXCEPT !.st = "term"]
  <2>1. c \in ToolProcess /\ c.st = "term"
    BY <1>0 DEF ToolProcess
  <2>2. proc' = [proc EXCEPT ![r] = c] /\ proc[r].st # "none"
    BY <1>3 DEF AbortReaches
  <2> HIDE DEF c
  <2> QED
    BY <2>1, <2>2
<1>4. ASSUME Spawn(r) PROVE \E c \in ToolProcess : proc' = [proc EXCEPT ![r] = c] /\ c.st # "none"
  <2>1. PICK group \in {"none", "holds"} :
          proc' = [proc EXCEPT ![r] = [st |-> IF aborted[r] THEN "term"
            ELSE "alive", group |-> group, left |-> "none"]]
    BY <1>4 DEF Spawn
  <2> DEFINE c == [st |-> IF aborted[r] THEN "term" ELSE "alive", group |-> group, left |-> "none"]
  <2>2. c \in ToolProcess /\ c.st # "none"
    BY DEF ToolProcess, Hold
  <2>3. proc' = [proc EXCEPT ![r] = c]
    BY <2>1
  <2> HIDE DEF c
  <2> QED
    BY <2>2, <2>3
<1>5. ASSUME CommandSettles(r) PROVE \E c \in ToolProcess : proc' = [proc EXCEPT ![r] = c] /\ c.st = "none"
               /\ Quiet(c)
  <2> DEFINE c == [proc[r] EXCEPT !.st = "none"]
  <2>1. c \in ToolProcess /\ c.st = "none" /\ c.group = proc[r].group /\ c.left = proc[r].left
    BY <1>0 DEF ToolProcess
  <2>2. proc' = [proc EXCEPT ![r] = c] /\ proc[r].group # "holds" /\ proc[r].left # "holds"
    BY <1>5 DEF CommandSettles
  <2> HIDE DEF c
  <2> QED
    BY <2>1, <2>2 DEF Quiet
<1> QED
  BY <1>1, <1>2, <1>3, <1>4, <1>5

(* A step of one run keeps the types. *)
LEMMA RunnerTypeLives ==
  ASSUME RunnerTypeOK, NEW r \in Runner, Lives(r), body[r] = "call" => tools[r].called < MaxTools
  PROVE  RunnerTypeOK'
<1> USE DEF Goto, Keep, Unless, Active
<1>0. /\ ws \in [Runner -> Workspace]
      /\ tools \in [Runner -> [called : 0..MaxTools, late : Nat]]
      /\ body[r] = "call" => tools[r].called < MaxTools
  BY DEF RunnerTypeOK
<1>1. CASE Request(r)
  BY <1>1 DEF RunnerTypeOK, Request
<1>2. CASE Register(r)
  BY <1>2 DEF RunnerTypeOK, Register
<1>3. CASE Prepared(r)
  <2>1. ws' \in [Runner -> Workspace]
    <3>1. ws' \in {ws, [ws EXCEPT ![r] = [@ EXCEPT !.hooked = TRUE, !.launch = "pending"]]}
      BY <1>3 DEF Prepared
    <3>2. [ws EXCEPT ![r] = [@ EXCEPT !.hooked = TRUE, !.launch = "pending"]] \in [Runner -> Workspace]
      BY <1>0 DEF Workspace
    <3>. QED  BY <1>0, <3>1, <3>2
  <2>. QED  BY <2>1, <1>3 DEF RunnerTypeOK, Prepared
<1>4. CASE PrepareFails(r)
  BY <1>4 DEF RunnerTypeOK, PrepareFails
<1>5. CASE Launched(r)
  <2>1. ws' \in [Runner -> Workspace]
    <3>1. PICK up \in BOOLEAN : ws' = [ws EXCEPT ![r] = [@ EXCEPT !.launch = "settled", !.started = up]]
      BY <1>5 DEF Launched
    <3>. QED  BY <1>0, <3>1 DEF Workspace
  <2>. QED  BY <2>1, <1>5 DEF RunnerTypeOK, Launched
<1>6. CASE Turn(r)
  BY <1>6 DEF RunnerTypeOK, Turn
<1>7. CASE CallTool(r)
  <2>1. tools' \in [Runner -> [called : 0..MaxTools, late : Nat]]
    BY <1>0, <1>7, RunnerAssumption DEF CallTool
  <2>. QED  BY <2>1, <1>7 DEF RunnerTypeOK, CallTool
<1>8. CASE Spawn(r)
  <2>1. proc' \in [Runner -> ToolProcess]
    BY <1>8, CommandSteps DEF RunnerTypeOK
  <2>. QED  BY <2>1, <1>8 DEF RunnerTypeOK, Spawn
<1>9. CASE CommandSettles(r)
  <2>1. proc' \in [Runner -> ToolProcess]
    BY <1>9, CommandSteps DEF RunnerTypeOK
  <2>. QED  BY <2>1, <1>9 DEF RunnerTypeOK, CommandSettles
<1>10. CASE Signal(r)
  <2>1. proc' \in [Runner -> ToolProcess]
    BY <1>10, CommandSteps DEF RunnerTypeOK
  <2>. QED  BY <2>1, <1>10 DEF RunnerTypeOK, Signal
<1>21. CASE ProcessesGoOn(r)
  BY <1>21, ProcessesSteps DEF RunnerTypeOK
<1>11. CASE Result(r)
  BY <1>11 DEF RunnerTypeOK, Result
<1>12. CASE AwaitLaunch(r)
  <2>1. ws' \in [Runner -> Workspace]
    BY <1>0, <1>12 DEF AwaitLaunch, Workspace
  <2>. QED  BY <2>1, <1>12 DEF RunnerTypeOK, AwaitLaunch
<1>13. CASE RemoveHome(r)
  <2>1. ws' \in [Runner -> Workspace]
    BY <1>0, <1>13 DEF RemoveHome, AwaitCommand, Workspace
  <2>. QED  BY <2>1, <1>13 DEF RunnerTypeOK, RemoveHome, AwaitCommand
<1>14. CASE Cleanup(r)
  <2>1. ws' \in [Runner -> Workspace]
    BY <1>0, <1>14 DEF Cleanup, StartCleanup, Workspace
  <2>. QED  BY <2>1, <1>14 DEF RunnerTypeOK, Cleanup, StartCleanup
<1>15. CASE Cleaned(r)
  BY <1>15 DEF RunnerTypeOK, Cleaned
<1>16. CASE Complete(r)
  BY <1>16 DEF RunnerTypeOK, Complete
<1>17. CASE Stop(r)
  <2>1. ws' \in [Runner -> Workspace]
    BY <1>0, <1>17 DEF Stop, Stopped, StartCleanup, Workspace
  <2>. QED  BY <2>1, <1>17 DEF RunnerTypeOK, Stop, Stopped, StartCleanup
<1>18. CASE StopAnswered(r)
  BY <1>18 DEF RunnerTypeOK, StopAnswered
<1>19. CASE TimeLimit(r)
  BY <1>19 DEF RunnerTypeOK, TimeLimit
<1>20. CASE AbortReaches(r)
  <2>1. proc' \in [Runner -> ToolProcess]
    BY <1>20, CommandSteps DEF RunnerTypeOK
  <2>. QED  BY <2>1, <1>20 DEF RunnerTypeOK, AbortReaches
<1>. QED
  BY <1>1, <1>2, <1>3, <1>4, <1>5, <1>6, <1>7, <1>8, <1>9, <1>10, <1>11, <1>12,
     <1>13, <1>14, <1>15, <1>16, <1>17, <1>18, <1>19, <1>20, <1>21 DEF Lives, BodySteps, WorkspaceSteps

(* A step of one run keeps what is known of every run. *)
LEMMA RunnerLives ==
  ASSUME RunnerTypeOK, NEW r \in Runner, Lives(r), RunnerAt(r), NEW q \in Runner, RunnerAt(q)
  PROVE  RunnerAt(q)'
<1> USE RunnerAssumption DEF RunnerTypeOK, Workspace, RunnerAt, Goto, Keep, Unless, Active
<1>1. CASE Request(r)
  BY <1>1 DEF Request
<1>2. CASE Register(r)
  BY <1>2 DEF Register
<1>3. CASE Prepared(r)
  <2>1. /\ body[r] = "prepare" /\ UNCHANGED <<aborted, stopper, proc, tools, srv>>
        /\ \/ UNCHANGED ws /\ body' = [body EXCEPT ![r] = "terminal"]
           \/ /\ ~aborted[r] /\ ws' = [ws EXCEPT ![r] = [ws[r] EXCEPT !.hooked = TRUE, !.launch = "pending"]]
              /\ body' = [body EXCEPT ![r] = "launch"]
    BY <1>3 DEF Prepared
  <2>2. LET v == [ws[r] EXCEPT !.hooked = TRUE, !.launch = "pending"] IN v.hooked = TRUE /\ v.cleanup = ws[r].cleanup
    <3>1. ws[r] \in Workspace
      OBVIOUS
    <3>. QED  BY <3>1 DEF Workspace
  <2>3. /\ ws'[q].cleanup = ws[q].cleanup /\ (q # r => ws'[q] = ws[q])
        /\ ws'[q] = ws[q] \/ (ws'[q].hooked /\ ~aborted[q])
    BY <2>1, <2>2
  <2> HIDE DEF Workspace
  <2>4. DOMAIN body = Runner
    OBVIOUS
  <2> HIDE DEF RunnerTypeOK
  <2>. QED  BY <2>1, <2>3, <2>4
<1>4. CASE PrepareFails(r)
  BY <1>4 DEF PrepareFails
<1>5. CASE Launched(r)
  BY <1>5 DEF Launched
<1>6. CASE Turn(r)
  BY <1>6 DEF Turn
<1>7. CASE CallTool(r)
  BY <1>7 DEF CallTool, MayCall
<1>c. proc \in [Runner -> ToolProcess]
  OBVIOUS
<1>8. CASE Spawn(r)
  <2>1. /\ proc'[r].st # "none" /\ \A p \in Runner : p # r => proc'[p] = proc[p]
        /\ body[r] = "path" /\ body' = [body EXCEPT ![r] = "command"]
        /\ tools' = [tools EXCEPT ![r].late = IF aborted[r] THEN @ + 1 ELSE @]
        /\ UNCHANGED <<aborted, stopper, ws, srv>>
    BY <1>8, <1>c, CommandSteps DEF Spawn
  <2>. QED  BY <2>1
<1>9. CASE CommandSettles(r)
  <2>1. /\ proc'[r].st = "none" /\ Quiet(proc'[r]) /\ \A p \in Runner : p # r => proc'[p] = proc[p]
        /\ proc[r].st # "none" /\ body' = [body EXCEPT ![r] = "result"]
        /\ UNCHANGED <<aborted, stopper, ws, tools, srv>>
    BY <1>9, <1>c, CommandSteps DEF CommandSettles
  <2>. QED  BY <2>1
<1>10. CASE Signal(r)
  <2>1. /\ proc[r].st # "none" /\ proc'[r].st # "none" /\ \A p \in Runner : p # r => proc'[p] = proc[p]
        /\ UNCHANGED <<body, aborted, stopper, ws, tools, srv>>
    BY <1>10, <1>c, CommandSteps DEF Signal
  <2>. QED  BY <2>1
<1>21. CASE ProcessesGoOn(r)
  <2>1. /\ \A p \in Runner : proc'[p].st = proc[p].st /\ (Quiet(proc[p]) => Quiet(proc'[p]))
        /\ UNCHANGED <<body, aborted, stopper, ws, tools, srv>>
    BY <1>21, <1>c, ProcessesSteps
  <2>. QED  BY <2>1
<1>11. CASE Result(r)
  BY <1>11 DEF Result
<1>12. CASE AwaitLaunch(r)
  BY <1>12 DEF AwaitLaunch
<1>13. CASE RemoveHome(r)
  BY <1>13 DEF RemoveHome, AwaitCommand
<1>14. CASE Cleanup(r)
  BY <1>14 DEF Cleanup, StartCleanup
<1>15. CASE Cleaned(r)
  BY <1>15 DEF Cleaned
<1>16. CASE Complete(r)
  BY <1>16 DEF Complete
<1>17. CASE Stop(r)
  <2>a. Active(r) /\ stopper[r] = "no" /\ UNCHANGED <<body, proc, tools, srv>>
    BY <1>17 DEF Stop
  <2>b. {p \in {r} : stopper[p] = "no"} = {r}
    BY <2>a
  <2>c. /\ aborted' = [p \in Runner |-> aborted[p] \/ p \in {r}]
        /\ ws' = [p \in Runner |-> IF p \in {r} /\ ws[p].hooked THEN StartCleanup(ws[p]) ELSE ws[p]]
        /\ stopper' = [p \in Runner |-> IF p \notin {r} THEN stopper[p]
                                         ELSE IF ws[p].hooked THEN "waits" ELSE "done"]
    BY <1>17, <2>b, Zenon DEF Stop, Stopped
  <2>1. /\ q = r => /\ aborted'[q] /\ stopper'[q] = (IF ws[q].hooked THEN "waits" ELSE "done")
                    /\ ws'[q] = IF ws[q].hooked THEN StartCleanup(ws[q]) ELSE ws[q]
        /\ q # r => /\ aborted'[q] = (aborted[q] \/ FALSE) /\ stopper'[q] = stopper[q] /\ ws'[q] = ws[q]
    BY <2>c
  <2>2. /\ StartCleanup(ws[q]).hooked = ws[q].hooked
        /\ StartCleanup(ws[q]).cleanup = IF ws[q].cleanup = "no" THEN "launch" ELSE ws[q].cleanup
    BY DEF StartCleanup
  <2>. QED  BY <2>a, <2>1, <2>2
<1>18. CASE StopAnswered(r)
  BY <1>18 DEF StopAnswered
<1>19. CASE TimeLimit(r)
  BY <1>19 DEF TimeLimit
<1>20. CASE AbortReaches(r)
  <2>1. /\ proc[r].st # "none" /\ proc'[r].st # "none" /\ \A p \in Runner : p # r => proc'[p] = proc[p]
        /\ UNCHANGED <<body, aborted, stopper, ws, tools, srv>>
    BY <1>20, <1>c, CommandSteps DEF AbortReaches
  <2>. QED  BY <2>1
<1>. QED
  BY <1>1, <1>2, <1>3, <1>4, <1>5, <1>6, <1>7, <1>8, <1>9, <1>10, <1>11, <1>12,
     <1>13, <1>14, <1>15, <1>16, <1>17, <1>18, <1>19, <1>20, <1>21 DEF Lives, BodySteps, WorkspaceSteps

(* What ended stays ended. *)
LEMMA RunnerWaits ==
  ASSUME RunnerInv, NEW r \in Runner, Lives(r), \A q \in Runner : RunnerAt(q)'
  PROVE  ShutdownWaits'
<1>1. RunnerTypeOK /\ ShutdownWaits /\ RunnerAt(r)
  BY DEF RunnerInv
<1>2. srv' = srv /\ \A q \in Runner : body[q] = "over" => body'[q] = "over"
  <2> USE <1>1 DEF RunnerTypeOK, Goto, Keep, Unless
  <2>1. CASE Request(r) \/ Register(r) \/ Prepared(r) \/ PrepareFails(r) \/ Launched(r) \/ Turn(r)
    BY <2>1 DEF Request, Register, Prepared, PrepareFails, Launched, Turn
  <2>2. CASE CallTool(r) \/ Spawn(r) \/ ProcessesGoOn(r) \/ Signal(r) \/ Result(r) \/ AwaitLaunch(r) \/ RemoveHome(r)
    BY <2>2 DEF CallTool, Spawn, ProcessesGoOn, Signal, Result, AwaitLaunch, RemoveHome
  <2>3. CASE CommandSettles(r)
    BY <2>3 DEF CommandSettles, RunnerAt
  <2>4. CASE Cleanup(r) \/ Cleaned(r) \/ Complete(r) \/ Stop(r) \/ StopAnswered(r) \/ TimeLimit(r) \/ AbortReaches(r)
    BY <2>4 DEF Cleanup, Cleaned, Complete, Stop, StopAnswered, TimeLimit, AbortReaches
  <2>. QED
    BY <2>1, <2>2, <2>3, <2>4 DEF Lives, BodySteps, WorkspaceSteps
<1>3. \A q \in Runner : body'[q] = "over" => Quiet(proc'[q])
  BY DEF RunnerAt
<1>4. srv.waits \subseteq Runner
  BY <1>1 DEF RunnerTypeOK
<1>. QED
  BY <1>1, <1>2, <1>3, <1>4 DEF ShutdownWaits

(* Every step of a run, of its process, of a stop and of the shutdown keeps the invariant. *)
LEMMA RunnerStep == RunnerInv /\ [RunnerNext]_runnerVars => RunnerInv'
<1> SUFFICES ASSUME RunnerInv, [RunnerNext]_runnerVars PROVE RunnerInv'
  OBVIOUS
<1>1. ASSUME NEW r \in Runner, Lives(r) PROVE RunnerInv'
  <2>1. RunnerTypeOK /\ RunnerAt(r) /\ \A q \in Runner : RunnerAt(q)
    BY DEF RunnerInv
  <2>2. RunnerTypeOK'
    BY <1>1, <2>1, RunnerTypeLives DEF RunnerAt
  <2>3. \A q \in Runner : RunnerAt(q)'
    BY <1>1, <2>1, RunnerLives
  <2>. QED  BY <1>1, <2>2, <2>3, RunnerWaits DEF RunnerInv
<1>2. CASE Shutdown
  <2>1. RunnerTypeOK'
    <3>1. ws \in [Runner -> Workspace]
      BY DEF RunnerInv, RunnerTypeOK
    <3>2. ws' \in [Runner -> Workspace]
      BY <1>2, <3>1 DEF Shutdown, Stopped, StartCleanup, Workspace
    <3>. QED  BY <1>2, <3>2 DEF Shutdown, Stopped, RunnerInv, RunnerTypeOK
  <2>2. \A r \in Runner : RunnerAt(r)'
    <3> SUFFICES ASSUME NEW r \in Runner PROVE RunnerAt(r)'
      OBVIOUS
    <3>1. RunnerTypeOK /\ RunnerAt(r)
      BY DEF RunnerInv
    <3>2. /\ UNCHANGED <<body, proc, tools>>
          /\ \/ aborted'[r] = aborted[r] /\ stopper'[r] = stopper[r] /\ ws'[r] = ws[r]
             \/ /\ Active(r) /\ stopper[r] = "no" /\ aborted'[r]
                /\ stopper'[r] = (IF ws[r].hooked THEN "waits" ELSE "done")
                /\ ws'[r] = IF ws[r].hooked THEN StartCleanup(ws[r]) ELSE ws[r]
      BY <1>2, <3>1 DEF Shutdown, Stopped, RunnerTypeOK
    <3>3. /\ StartCleanup(ws[r]).hooked = ws[r].hooked
          /\ StartCleanup(ws[r]).cleanup = (IF ws[r].cleanup = "no" THEN "launch" ELSE ws[r].cleanup)
      BY <3>1 DEF StartCleanup, RunnerTypeOK, Workspace
    <3>. QED  BY <3>1, <3>2, <3>3 DEF RunnerAt, Active, RunnerTypeOK
  <2>3. ShutdownWaits'
    BY <1>2 DEF Shutdown, RunnerInv, RunnerTypeOK, ShutdownWaits
  <2>. QED  BY <2>1, <2>2, <2>3 DEF RunnerInv
<1>3. CASE EndDrain
  BY <1>3 DEF EndDrain, Drained, RunnerInv, RunnerTypeOK, RunnerAt, ShutdownWaits
<1>4. CASE Exit
  BY <1>4 DEF Exit, RunnerInv, RunnerTypeOK, RunnerAt, ShutdownWaits
<1>5. CASE UNCHANGED runnerVars
  BY <1>5 DEF runnerVars, RunnerInv, RunnerTypeOK, RunnerAt, ShutdownWaits
<1>. QED  BY <1>1, <1>2, <1>3, <1>4, <1>5 DEF RunnerNext

(* The invariant of the runs, their stops and their commands holds in every state. *)
THEOREM RunnerInvariant == RunnerSpec => []RunnerInv
BY RunnerInvInit, RunnerStep, PTL DEF RunnerSpec

(* Once a run is recorded as ended no command of it is under way and nobody holds the output of one; *)
(* the answer to a stop comes after the last command, unless one was past its checks already         *)
(* (agent-tools.ts:133-142, commands.ts:106-111).                                                    *)
THEOREM EndedRunsAreQuiet == RunnerSpec => []EndedIsQuiet
<1>1. RunnerInv => EndedIsQuiet
  <2> SUFFICES ASSUME RunnerInv, NEW r \in Runner
               PROVE  /\ body[r] \in {"terminal", "over"} => Quiet(proc[r])
                      /\ tools[r].late <= 1
                      /\ (stopper[r] = "done" /\ ws[r].hooked /\ tools[r].late = 0) => Quiet(proc[r])
    BY DEF EndedIsQuiet
  <2>1. RunnerAt(r)
    BY DEF RunnerInv
  <2>. QED  BY <2>1 DEF RunnerAt
<1>. QED  BY <1>1, RunnerInvariant, PTL

(* A shutdown that its time limit did not cut short leaves every run it stopped recorded as ended, with *)
(* no command under way (drainActiveAgentRuns, agent-tasks.ts:726-745).                                 *)
THEOREM ShutdownsWait == RunnerSpec => []ShutdownWaits
<1>1. RunnerInv => ShutdownWaits
  BY DEF RunnerInv
<1>. QED  BY <1>1, RunnerInvariant, PTL

-----------------------------------------------------------------------------
(* CodexHomes *)

(* A copy that is as new as the account's file was made from it, or a process has refreshed it since. *)
CopyIsOfAccount(t) ==
  signedAuth # NoAuth /\ signedAuth.time <= homes[t].auth.time => homes[t].auth.who = signedAuth.who
    \/ homes[t].crossed

(* While a home is prepared, and when the run starts, the copy that it will use is of an account that *)
(* was signed in meanwhile.                                                                           *)
RunFits(t) ==
  /\ codexRuns[t].at # "idle" => homes[t].exists
  /\ Preparing(t) /\ signedAuth # NoAuth => signedAuth.who \in codexRuns[t].allowed
  /\ codexRuns[t].at = "compare" /\ homes[t].auth # NoAuth /\ codexRuns[t].time <= homes[t].auth.time =>
       homes[t].auth.who \in codexRuns[t].allowed \/ homes[t].crossed
  /\ codexRuns[t].at = "thread" => homes[t].auth.who \in codexRuns[t].allowed \cup {"nobody"} \/ homes[t].crossed
  /\ codexRuns[t].at = "running" => homes[t].imported
  /\ codexRuns[t].at = "running" => codexRuns[t].uses \in codexRuns[t].allowed \cup {"nobody"} \/ homes[t].crossed

(* Files are as old as their writing; a file is in a home, and a thread that has turns was imported. *)
HomeFits(t) ==
  /\ homes[t].auth.time <= clock
  /\ homes[t].auth # NoAuth => homes[t].exists
  /\ ~homes[t].imported => homes[t].told = 0
  /\ homes[t].turns = homes[t].told

(* Where the sign-out has been, no copy is left that a process has not written since. *)
SignOutFits(t) ==
  signedAuth = NoAuth /\ (signedOut.at = "none" \/ (signedOut.at = "clear" /\ t \notin signedOut.left)) =>
     homes[t].auth = NoAuth \/ homes[t].late

HomesAt(t) == CopyIsOfAccount(t) /\ RunFits(t) /\ HomeFits(t) /\ SignOutFits(t)
AccountFits == signedAuth.time <= clock /\ (signedAuth # NoAuth => signedAuth.who # "nobody" /\ signedAuth.time > 0)
HomesInv == HomesTypeOK /\ AccountFits /\ \A t \in HomeTask : HomesAt(t)

(* The records of a file, a home and a run that are not there. *)
LEMMA NoFileTypes ==
  NoAuth \in AuthFile /\ NoHome \in TaskHome /\ NoCodexRun \in CodexRun
<1>1. NoAuth \in AuthFile
  BY HomesAssumption DEF NoAuth, AuthFile
<1>2. NoHome \in TaskHome
  BY <1>1, HomesAssumption DEF NoHome, TaskHome
<1>. QED  BY <1>1, <1>2, HomesAssumption DEF NoCodexRun, CodexRun

(* Before anybody signs in there is no file anywhere. *)
LEMMA HomesInvInit == HomesInit => HomesInv
<1> SUFFICES ASSUME HomesInit PROVE HomesInv
  OBVIOUS
<1>1. HomesTypeOK
  BY NoFileTypes, HomesAssumption DEF HomesInit, HomesTypeOK
<1>2. ASSUME NEW t \in HomeTask PROVE HomesAt(t)
  BY DEF HomesInit, HomesAt, CopyIsOfAccount, RunFits, HomeFits, SignOutFits, Preparing, NoCodexRun, NoHome, NoAuth
<1>. QED  BY <1>1, <1>2 DEF HomesInv, HomesInit, NoAuth, AccountFits

(* A step keeps the types. *)
LEMMA HomesTypes ==
  ASSUME HomesTypeOK, [HomesNext]_homesVars, \A t \in HomeTask : HomeFits(t)
  PROVE  HomesTypeOK'
<1>0. /\ clock \in 0..MaxTime /\ signedAuth \in AuthFile
      /\ signedOut \in [at : {"none", "list", "clear"}, left : SUBSET HomeTask]
      /\ homes \in [HomeTask -> TaskHome]
      /\ codexRuns \in [HomeTask -> CodexRun]
      /\ NoAuth \in AuthFile /\ NoCodexRun \in CodexRun
  BY NoFileTypes DEF HomesTypeOK
<1>a. clock < MaxTime => clock + 1 \in 0..MaxTime
  BY <1>0, HomesAssumption
<1>b. ASSUME NEW t \in HomeTask, NEW r \in CodexRun, RunGoes(t, r) PROVE codexRuns' \in [HomeTask -> CodexRun]
  BY <1>0, <1>b DEF RunGoes
<1>c. ASSUME NEW t \in HomeTask PROVE codexRuns[t] \in CodexRun /\ homes[t] \in TaskHome
  BY <1>0
<1>1. ASSUME NEW a \in Account, SignIn(a) PROVE HomesTypeOK'
  <2>1. signedAuth' \in AuthFile /\ clock' \in 0..MaxTime
    BY <1>a, <1>1 DEF SignIn, Written, AuthFile
  <2>2. ASSUME NEW t \in HomeTask
        PROVE  [codexRuns[t] EXCEPT !.allowed = IF Preparing(t) THEN @ \cup {a} ELSE @] \in CodexRun
    BY <1>c DEF CodexRun
  <2>. QED  BY <1>0, <1>1, <2>1, <2>2 DEF SignIn, HomesTypeOK
<1>2. CASE SignOut
  <2>1. ASSUME NEW t \in HomeTask PROVE [homes[t] EXCEPT !.late = FALSE] \in TaskHome
    BY <1>c DEF TaskHome
  <2>. QED  BY <1>0, <1>2, <2>1 DEF SignOut, HomesTypeOK
<1>3. CASE ReadHomes
  BY <1>0, <1>3 DEF ReadHomes, HomesTypeOK
<1>4. CASE SignOutLost
  <2>1. ASSUME NEW t \in HomeTask PROVE [homes[t] EXCEPT !.late = TRUE] \in TaskHome
    BY <1>c DEF TaskHome
  <2>. QED  BY <1>0, <1>4, <2>1 DEF SignOutLost, HomesTypeOK
<1>5. CASE SignedOut
  BY <1>0, <1>5 DEF SignedOut, HomesTypeOK
<1>6. ASSUME NEW t \in HomeTask, clearCodexTaskAuthentication(t) PROVE HomesTypeOK'
  <2>1. WithoutAuth(homes[t]) \in TaskHome
    BY <1>0, <1>c DEF WithoutAuth, TaskHome
  <2>2. [signedOut EXCEPT !.left = @ \ {t}] \in [at : {"none", "list", "clear"}, left : SUBSET HomeTask]
    BY <1>0
  <2>. QED  BY <1>0, <1>6, <2>1, <2>2 DEF clearCodexTaskAuthentication, HomesTypeOK
<1>7. ASSUME NEW t \in HomeTask, MakeHome(t) PROVE HomesTypeOK'
  <2>1. [NoCodexRun EXCEPT !.at = "stat", !.allowed = {signedAuth.who}] \in CodexRun
    BY <1>0 DEF CodexRun, AuthFile
  <2>2. homes' \in [HomeTask -> TaskHome]
    BY <1>0, <1>7 DEF MakeHome, TaskHome
  <2>. QED  BY <1>0, <1>7, <1>b, <2>1, <2>2 DEF MakeHome, HomesTypeOK
<1>8. ASSUME NEW t \in HomeTask, StatAccount(t) PROVE HomesTypeOK'
  <2>1. [codexRuns[t] EXCEPT !.at = "compare", !.time = signedAuth.time] \in CodexRun
    BY <1>0, <1>c DEF CodexRun, AuthFile
  <2>. QED  BY <1>0, <1>8, <1>b, <2>1 DEF StatAccount, HomesTypeOK
<1>9. ASSUME NEW t \in HomeTask, StatCopy(t) PROVE HomesTypeOK'
  <2>1. \A stage \in {"copy", "thread"} : [codexRuns[t] EXCEPT !.at = stage] \in CodexRun
    BY <1>c DEF CodexRun
  <2>. QED  BY <1>0, <1>9, <1>b, <2>1 DEF StatCopy, HomesTypeOK
<1>10. ASSUME NEW t \in HomeTask, CopyAuth(t) PROVE HomesTypeOK'
  <2>1. CASE signedAuth = NoAuth
    BY <1>0, <1>10, <1>b, <2>1 DEF CopyAuth, HomesTypeOK
  <2>2. CASE signedAuth # NoAuth
    <3>1. [codexRuns[t] EXCEPT !.at = "thread"] \in CodexRun
      BY <1>c DEF CodexRun
    <3>2. clock + 1 \in 0..MaxTime /\ [who |-> signedAuth.who, time |-> clock + 1] \in AuthFile
      BY <1>0, <1>a, <1>10, <2>2 DEF CopyAuth, AuthFile
    <3>3. homes' \in [HomeTask -> TaskHome]
      <4>1. [homes[t] EXCEPT !.auth = [who |-> signedAuth.who, time |-> clock + 1], !.crossed = FALSE] \in TaskHome
        BY <1>c, <3>2 DEF TaskHome
      <4>. QED  BY <1>0, <1>10, <2>2, <4>1 DEF CopyAuth
    <3>. QED  BY <1>0, <1>10, <1>b, <2>2, <3>1, <3>2, <3>3 DEF CopyAuth, HomesTypeOK
  <2>. QED  BY <2>1, <2>2
<1>11. ASSUME NEW t \in HomeTask, copyLegacyThread(t) PROVE HomesTypeOK'
  <2>1. homes[t].auth.who \in Account \cup {"nobody"} /\ 0 \in 0..MaxTurns
    BY <1>c, HomesAssumption DEF TaskHome, AuthFile
  <2>2. [codexRuns[t] EXCEPT !.at = "running", !.uses = homes[t].auth.who] \in CodexRun
    BY <1>c, <2>1 DEF CodexRun
  <2>3. [homes[t] EXCEPT !.imported = TRUE, !.turns = 0] \in TaskHome
    BY <1>c, <2>1 DEF TaskHome
  <2>4. codexRuns' \in [HomeTask -> CodexRun]
    BY <1>0, <1>b, <1>11, <2>2 DEF copyLegacyThread
  <2>5. homes' \in [HomeTask -> TaskHome]
    BY <1>0, <1>c, <1>11, <2>3 DEF copyLegacyThread
  <2>. QED  BY <1>0, <1>11, <2>4, <2>5 DEF copyLegacyThread, HomesTypeOK
<1>12. ASSUME NEW t \in HomeTask, Abort(t) PROVE HomesTypeOK'
  <2>1. [codexRuns[t] EXCEPT !.aborted = TRUE] \in CodexRun
    BY <1>c DEF CodexRun
  <2>. QED  BY <1>0, <1>12, <1>b, <2>1 DEF Abort, HomesTypeOK
<1>13. ASSUME NEW t \in HomeTask, Refresh(t) PROVE HomesTypeOK'
  <2>1. [who |-> codexRuns[t].uses, time |-> clock + 1] \in AuthFile
    BY <1>a, <1>c, <1>13 DEF Refresh, AuthFile, CodexRun
  <2>2. ASSUME NEW x \in BOOLEAN
        PROVE  [homes[t] EXCEPT !.auth = [who |-> codexRuns[t].uses, time |-> clock + 1], !.late = TRUE,
                !.crossed = x] \in TaskHome
    BY <1>c, <2>1 DEF TaskHome
  <2>3. homes' \in [HomeTask -> TaskHome]
    <3>1. (homes[t].crossed \/ signedAuth.who \notin {"nobody", codexRuns[t].uses}) \in BOOLEAN
      OBVIOUS
    <3>. QED  BY <1>0, <1>13, <2>2, <3>1 DEF Refresh
  <2>4. clock' \in 0..MaxTime
    BY <1>a, <1>13 DEF Refresh
  <2>. QED  BY <1>0, <1>13, <2>3, <2>4 DEF Refresh, HomesTypeOK
<1>14. ASSUME NEW t \in HomeTask, RunEnds(t) PROVE HomesTypeOK'
  <2>1. homes' \in [HomeTask -> TaskHome]
    <3>1. CASE UNCHANGED homes
      BY <1>0, <3>1
    <3>2. CASE homes' # homes
      <4>1. /\ homes' = [homes EXCEPT ![t] = [homes[t] EXCEPT !.turns = homes[t].turns + 1,
                                              !.told = homes[t].told + 1]]
            /\ homes[t].turns < MaxTurns
        BY <1>14, <3>2 DEF RunEnds
      <4>2. homes[t].turns + 1 \in 0..MaxTurns /\ homes[t].told + 1 \in 0..MaxTurns
        BY <1>c, <4>1, HomesAssumption DEF TaskHome, HomeFits
      <4>3. [homes[t] EXCEPT !.turns = homes[t].turns + 1, !.told = homes[t].told + 1] \in TaskHome
        BY <1>c, <4>2 DEF TaskHome
      <4>. QED  BY <1>0, <4>1, <4>3
    <3>. QED  BY <3>1, <3>2
  <2>. QED  BY <1>0, <1>14, <1>b, <2>1 DEF RunEnds, HomesTypeOK
<1>15. CASE UNCHANGED homesVars
  BY <1>15 DEF homesVars, HomesTypeOK
<1>. QED
  BY <1>1, <1>2, <1>3, <1>4, <1>5, <1>6, <1>7, <1>8, <1>9, <1>10, <1>11, <1>12, <1>13, <1>14, <1>15 DEF HomesNext

(* A step keeps what is known of a home and of its run. *)
LEMMA HomesKept ==
  ASSUME HomesInv, HomesNext, NEW q \in HomeTask
  PROVE  HomesAt(q)'
<1>0. /\ clock \in Nat /\ signedAuth \in AuthFile /\ AccountFits
      /\ homes \in [HomeTask -> TaskHome]
      /\ codexRuns \in [HomeTask -> CodexRun]
      /\ HomesAt(q)
  BY DEF HomesInv, HomesTypeOK
<1>t. signedAuth.time \in Nat /\ homes[q].auth.time \in Nat /\ homes[q].auth \in AuthFile /\ codexRuns[q].time \in Nat
  BY <1>0 DEF AuthFile, TaskHome, CodexRun
<1>h. \A t \in HomeTask : homes[t] \in TaskHome /\ codexRuns[t] \in CodexRun
  BY <1>0
<1> USE DEF AccountFits, HomesAt, CopyIsOfAccount, RunFits, HomeFits, SignOutFits, Preparing, RunGoes
<1>1. ASSUME NEW a \in Account, SignIn(a) PROVE HomesAt(q)'
  <2>1. /\ signedAuth' # NoAuth /\ signedAuth'.who = a /\ signedAuth'.time = clock + 1 /\ clock' = clock + 1
        /\ UNCHANGED <<signedOut, homes>>
    BY <1>1, <1>0, HomesAssumption DEF SignIn, Written, NoAuth
  <2>2. /\ codexRuns'[q].at = codexRuns[q].at /\ codexRuns'[q].time = codexRuns[q].time
             /\ codexRuns'[q].uses = codexRuns[q].uses
        /\ codexRuns'[q].allowed = IF Preparing(q) THEN codexRuns[q].allowed \cup {a} ELSE codexRuns[q].allowed
    BY <1>1, <1>h DEF SignIn, CodexRun
  <2>. QED  BY <1>0, <1>t, <2>1, <2>2
<1>2. CASE SignOut
  <2>1. /\ signedAuth' = NoAuth /\ signedOut'.at = "list" /\ UNCHANGED <<clock, codexRuns>>
        /\ homes'[q] = [homes[q] EXCEPT !.late = FALSE]
    BY <1>2 DEF SignOut
  <2>2. LET h == [homes[q] EXCEPT !.late = FALSE]
        IN  h.auth = homes[q].auth /\ h.exists = homes[q].exists /\ h.imported = homes[q].imported
            /\ h.told = homes[q].told /\ h.turns = homes[q].turns /\ h.crossed = homes[q].crossed
    BY <1>h DEF TaskHome
  <2>. QED  BY <1>0, <1>t, <2>1, <2>2
<1>3. CASE ReadHomes
  <2>1. signedOut' = [at |-> "clear", left |-> {t \in HomeTask : homes[t].exists}]
          /\ UNCHANGED <<clock, signedAuth, homes, codexRuns>>
    BY <1>3 DEF ReadHomes
  <2>. QED  BY <1>0, <2>1
<1>4. CASE SignOutLost
  <2>1. /\ UNCHANGED <<clock, signedAuth, codexRuns>>
        /\ homes'[q] = [homes[q] EXCEPT !.late = TRUE]
    BY <1>4 DEF SignOutLost
  <2>2. LET h == [homes[q] EXCEPT !.late = TRUE]
        IN  h.auth = homes[q].auth /\ h.exists = homes[q].exists /\ h.imported = homes[q].imported
            /\ h.told = homes[q].told /\ h.turns = homes[q].turns /\ h.crossed = homes[q].crossed /\ h.late
    BY <1>h DEF TaskHome
  <2>. QED  BY <1>0, <1>t, <2>1, <2>2
<1>5. CASE SignedOut
  <2>1. /\ signedOut.at = "clear" /\ signedOut.left = {} /\ UNCHANGED <<clock, signedAuth, homes, codexRuns>>
    BY <1>5 DEF SignedOut
  <2>. QED  BY <1>0, <2>1
<1>6. ASSUME NEW t \in HomeTask, clearCodexTaskAuthentication(t) PROVE HomesAt(q)'
  <2>1. /\ signedOut.at = "clear" /\ signedOut'.at = "clear" /\ signedOut'.left = signedOut.left \ {t}
        /\ UNCHANGED <<clock, signedAuth, codexRuns>>
        /\ homes'[q] = IF q = t THEN [homes[q] EXCEPT !.auth = NoAuth] ELSE homes[q]
    BY <1>6, <1>0 DEF clearCodexTaskAuthentication, WithoutAuth, HomesInv, HomesTypeOK
  <2>2. LET h == [homes[q] EXCEPT !.auth = NoAuth]
        IN  h.auth = NoAuth /\ h.exists = homes[q].exists /\ h.imported = homes[q].imported
            /\ h.told = homes[q].told /\ h.turns = homes[q].turns /\ h.crossed = homes[q].crossed
                 /\ h.late = homes[q].late
    BY <1>h DEF TaskHome
  <2>3. NoAuth.time = 0 /\ NoAuth.who = "nobody"
    BY DEF NoAuth
  <2>. QED  BY <1>0, <1>t, <2>1, <2>2, <2>3
<1>7. ASSUME NEW t \in HomeTask, MakeHome(t) PROVE HomesAt(q)'
  <2>1. /\ UNCHANGED <<clock, signedAuth, signedOut>> /\ codexRuns[t].at = "idle"
        /\ codexRuns'[q] = IF q = t THEN [NoCodexRun EXCEPT !.at = "stat",
                                          !.allowed = {signedAuth.who}] ELSE codexRuns[q]
        /\ homes'[q] = IF q = t THEN [homes[q] EXCEPT !.exists = TRUE] ELSE homes[q]
    BY <1>7, <1>0 DEF MakeHome
  <2>2. LET h == [homes[q] EXCEPT !.exists = TRUE]
        IN  h.auth = homes[q].auth /\ h.exists /\ h.imported = homes[q].imported
            /\ h.told = homes[q].told /\ h.turns = homes[q].turns /\ h.crossed = homes[q].crossed
                 /\ h.late = homes[q].late
    BY <1>h DEF TaskHome
  <2>3. LET r == [NoCodexRun EXCEPT !.at = "stat", !.allowed = {signedAuth.who}]
        IN  r.at = "stat" /\ r.allowed = {signedAuth.who}
    BY DEF NoCodexRun
  <2>. QED  BY <1>0, <1>t, <2>1, <2>2, <2>3
<1>8. ASSUME NEW t \in HomeTask, StatAccount(t) PROVE HomesAt(q)'
  <2>1. /\ UNCHANGED <<clock, signedAuth, signedOut, homes>> /\ codexRuns[t].at = "stat"
        /\ codexRuns'[q] = IF q # t THEN codexRuns[q] ELSE IF signedAuth = NoAuth THEN NoCodexRun
                           ELSE [codexRuns[q] EXCEPT !.at = "compare", !.time = signedAuth.time]
    BY <1>8, <1>0 DEF StatAccount
  <2>2. LET r == [codexRuns[q] EXCEPT !.at = "compare", !.time = signedAuth.time]
        IN  r.at = "compare" /\ r.time = signedAuth.time /\ r.allowed = codexRuns[q].allowed
          /\ r.uses = codexRuns[q].uses
    BY <1>h DEF CodexRun
  <2>3. NoCodexRun.at = "idle"
    BY DEF NoCodexRun
  <2>. QED  BY <1>0, <1>t, <2>1, <2>2, <2>3
<1>9. ASSUME NEW t \in HomeTask, StatCopy(t) PROVE HomesAt(q)'
  <2>1. /\ UNCHANGED <<clock, signedAuth, signedOut, homes>> /\ codexRuns[t].at = "compare"
        /\ codexRuns'[q] = IF q # t THEN codexRuns[q]
                           ELSE [codexRuns[q] EXCEPT !.at = IF NeedsCopy(codexRuns[q].time, homes[q].auth)
                             THEN "copy" ELSE "thread"]
    BY <1>9, <1>0 DEF StatCopy
  <2>2. \A stage : LET r == [codexRuns[q] EXCEPT !.at = stage]
                IN  r.at = stage /\ r.time = codexRuns[q].time /\ r.allowed = codexRuns[q].allowed
                  /\ r.uses = codexRuns[q].uses
    BY <1>h DEF CodexRun
  <2>. QED  BY <1>0, <1>t, <2>1, <2>2 DEF NeedsCopy
<1>10. ASSUME NEW t \in HomeTask, CopyAuth(t) PROVE HomesAt(q)'
  <2>1. CASE signedAuth = NoAuth
    <3>1. /\ UNCHANGED <<clock, signedAuth, signedOut, homes>>
          /\ codexRuns'[q] = IF q # t THEN codexRuns[q] ELSE NoCodexRun
      BY <1>10, <1>0, <2>1 DEF CopyAuth
    <3>2. NoCodexRun.at = "idle"
      BY DEF NoCodexRun
    <3>. QED  BY <1>0, <3>1, <3>2
  <2>2. CASE signedAuth # NoAuth
    <3>1. /\ UNCHANGED <<signedAuth, signedOut>> /\ clock' = clock + 1 /\ codexRuns[t].at = "copy"
          /\ codexRuns'[q] = IF q # t THEN codexRuns[q] ELSE [codexRuns[q] EXCEPT !.at = "thread"]
          /\ homes'[q] = IF q # t THEN homes[q]
                         ELSE [homes[q] EXCEPT !.auth = [who |-> signedAuth.who, time |-> clock + 1],
                               !.crossed = FALSE]
      BY <1>10, <1>0, <2>2 DEF CopyAuth
    <3>2. LET h == [homes[q] EXCEPT !.auth = [who |-> signedAuth.who, time |-> clock + 1], !.crossed = FALSE]
          IN  h.auth.who = signedAuth.who /\ h.auth.time = clock + 1 /\ h.exists = homes[q].exists
            /\ h.imported = homes[q].imported
              /\ h.told = homes[q].told /\ h.turns = homes[q].turns
      BY <1>h DEF TaskHome
    <3>3. LET r == [codexRuns[q] EXCEPT !.at = "thread"]
          IN  r.at = "thread" /\ r.allowed = codexRuns[q].allowed
      BY <1>h DEF CodexRun
    <3>. QED  BY <1>0, <1>t, <2>2, <3>1, <3>2, <3>3
  <2>. QED  BY <2>1, <2>2
<1>11. ASSUME NEW t \in HomeTask, copyLegacyThread(t) PROVE HomesAt(q)'
  <2>1. /\ UNCHANGED <<clock, signedAuth, signedOut>> /\ codexRuns[t].at = "thread"
        /\ codexRuns'[q] = IF q # t THEN codexRuns[q] ELSE IF codexRuns[q].aborted THEN NoCodexRun
                           ELSE [codexRuns[q] EXCEPT !.at = "running", !.uses = homes[q].auth.who]
        /\ homes'[q] = IF q = t /\ ~homes[q].imported THEN [homes[q] EXCEPT !.imported = TRUE,
                                                            !.turns = 0] ELSE homes[q]
    BY <1>11, <1>0 DEF copyLegacyThread, Imports
  <2>2. LET h == [homes[q] EXCEPT !.imported = TRUE, !.turns = 0]
        IN  h.auth = homes[q].auth /\ h.exists = homes[q].exists /\ h.imported
            /\ h.told = homes[q].told /\ h.turns = 0 /\ h.crossed = homes[q].crossed /\ h.late = homes[q].late
    BY <1>h DEF TaskHome
  <2>3. LET r == [codexRuns[q] EXCEPT !.at = "running", !.uses = homes[q].auth.who]
        IN  r.at = "running" /\ r.allowed = codexRuns[q].allowed /\ r.uses = homes[q].auth.who
    BY <1>h DEF CodexRun
  <2>4. NoCodexRun.at = "idle"
    BY DEF NoCodexRun
  <2>. QED  BY <1>0, <1>t, <2>1, <2>2, <2>3, <2>4
<1>12. ASSUME NEW t \in HomeTask, Abort(t) PROVE HomesAt(q)'
  <2>1. /\ UNCHANGED <<clock, signedAuth, signedOut, homes>>
        /\ codexRuns'[q] = IF q # t THEN codexRuns[q] ELSE [codexRuns[q] EXCEPT !.aborted = TRUE]
    BY <1>12, <1>0 DEF Abort
  <2>2. LET r == [codexRuns[q] EXCEPT !.aborted = TRUE]
        IN  r.at = codexRuns[q].at /\ r.time = codexRuns[q].time /\ r.allowed = codexRuns[q].allowed
          /\ r.uses = codexRuns[q].uses
    BY <1>h DEF CodexRun
  <2>. QED  BY <1>0, <1>t, <2>1, <2>2
<1>13. ASSUME NEW t \in HomeTask, Refresh(t) PROVE HomesAt(q)'
  <2> DEFINE c == homes[q].crossed \/ signedAuth.who \notin {"nobody", codexRuns[q].uses}
  <2>1. /\ UNCHANGED <<signedAuth, signedOut, codexRuns>> /\ clock' = clock + 1 /\ codexRuns[t].at = "running"
        /\ homes'[q] = IF q # t THEN homes[q]
                       ELSE [homes[q] EXCEPT !.auth = [who |-> codexRuns[q].uses, time |-> clock + 1], !.late = TRUE,
                             !.crossed = c]
    BY <1>13, <1>0 DEF Refresh
  <2>2. LET h == [homes[q] EXCEPT !.auth = [who |-> codexRuns[q].uses, time |-> clock + 1], !.late = TRUE,
                  !.crossed = c]
        IN  h.auth.who = codexRuns[q].uses /\ h.auth.time = clock + 1 /\ h.exists = homes[q].exists
          /\ h.imported = homes[q].imported
            /\ h.told = homes[q].told /\ h.turns = homes[q].turns /\ h.late /\ h.crossed = c
    BY <1>h DEF TaskHome
  <2>3. (homes[q].crossed => c) /\ (signedAuth.who \notin {"nobody", codexRuns[q].uses} => c)
    OBVIOUS
  <2> HIDE DEF c
  <2>. QED  BY <1>0, <1>t, <2>1, <2>2, <2>3
<1>14. ASSUME NEW t \in HomeTask, RunEnds(t) PROVE HomesAt(q)'
  <2>1. /\ UNCHANGED <<clock, signedAuth, signedOut>> /\ codexRuns[t].at = "running"
        /\ codexRuns'[q] = IF q # t THEN codexRuns[q] ELSE NoCodexRun
        /\ \/ homes'[q] = homes[q]
           \/ q = t /\ homes'[q] = [homes[q] EXCEPT !.turns = homes[q].turns + 1, !.told = homes[q].told + 1]
    BY <1>14, <1>0 DEF RunEnds
  <2>2. LET h == [homes[q] EXCEPT !.turns = homes[q].turns + 1, !.told = homes[q].told + 1]
        IN  h.auth = homes[q].auth /\ h.exists = homes[q].exists /\ h.imported = homes[q].imported
          /\ h.late = homes[q].late
            /\ h.told = homes[q].told + 1 /\ h.turns = homes[q].turns + 1 /\ h.crossed = homes[q].crossed
    BY <1>h DEF TaskHome
  <2>3. NoCodexRun.at = "idle"
    BY DEF NoCodexRun
  <2>4. CASE homes'[q] = homes[q]
    BY <1>0, <1>t, <2>1, <2>3, <2>4
  <2>5. CASE homes'[q] # homes[q]
    <3>1. /\ q = t /\ codexRuns'[q] = NoCodexRun /\ UNCHANGED <<clock, signedAuth, signedOut>>
          /\ homes'[q].auth = homes[q].auth /\ homes'[q].exists = homes[q].exists
          /\ homes'[q].imported = homes[q].imported /\ homes'[q].late = homes[q].late
          /\ homes'[q].told = homes[q].told + 1 /\ homes'[q].turns = homes[q].turns + 1
          /\ homes'[q].crossed = homes[q].crossed
      BY <2>1, <2>2, <2>5
    <3>2. homes[q].told \in Nat /\ homes[q].turns \in Nat
      BY <1>h DEF TaskHome
    <3>. QED  BY <1>0, <1>t, <2>1, <2>3, <3>1, <3>2
  <2>. QED  BY <2>4, <2>5
<1>. QED
  BY <1>1, <1>2, <1>3, <1>4, <1>5, <1>6, <1>7, <1>8, <1>9, <1>10, <1>11, <1>12, <1>13, <1>14 DEF HomesNext

(* Every step of a run, of the sign-out and of Codex itself keeps the invariant. *)
LEMMA HomesInvStep == HomesInv /\ [HomesNext]_homesVars => HomesInv'
<1> SUFFICES ASSUME HomesInv, [HomesNext]_homesVars PROVE HomesInv'
  OBVIOUS
<1>1. HomesTypeOK'
  BY HomesTypes DEF HomesInv, HomesAt
<1>2. CASE HomesNext
  <2>1. AccountFits'
    <3>1. clock \in Nat /\ signedAuth.time \in Nat
      BY DEF HomesInv, HomesTypeOK, AuthFile
    <3>2. CASE \E a \in Account : SignIn(a)
      BY <3>1, <3>2, HomesAssumption DEF SignIn, Written, AccountFits
    <3>3. CASE signedAuth' = NoAuth /\ UNCHANGED clock
      BY <3>1, <3>3 DEF AccountFits, NoAuth
    <3>4. CASE UNCHANGED signedAuth /\ clock' \in {clock, clock + 1}
      BY <3>1, <3>4 DEF AccountFits, HomesInv
    <3>. QED
      BY <1>2, <3>2, <3>3, <3>4 DEF HomesNext, SignOut, ReadHomes, SignOutLost, SignedOut,
         clearCodexTaskAuthentication,
         MakeHome, StatAccount, StatCopy, CopyAuth, copyLegacyThread, Abort, Refresh, RunEnds
  <2>. QED  BY <1>1, <1>2, <2>1, HomesKept DEF HomesInv
<1>3. CASE UNCHANGED homesVars
  BY <1>1, <1>3 DEF homesVars, HomesInv, AccountFits, HomesAt, CopyIsOfAccount, RunFits, HomeFits, SignOutFits,
     Preparing
<1>. QED  BY <1>2, <1>3

(* The invariant of the homes of the tasks holds in every state of CodexHomes. *)
THEOREM HomesInvariant == HomesSpec => []HomesInv
BY HomesInvInit, HomesInvStep, PTL DEF HomesSpec

(* A run works with the account that was signed in while it was prepared, no home keeps credentials *)
(* after a sign-out, and no thread loses a turn.                                                     *)
THEOREM CodexHomesAreSound == HomesSpec => []CodexHomesSound
<1>1. HomesInv => CodexHomesSound
  BY DEF HomesInv, HomesAt, CodexHomesSound, RunUsesAccount, CopiesForgotten, TurnsAreKept, RunFits, HomeFits,
     SignOutFits
<1>. QED  BY <1>1, HomesInvariant, PTL

-----------------------------------------------------------------------------
(* CodexSignIn *)

(* What is kept, and what a read of the present revision has found, is something the account has been *)
(* since the service last knew of every change.                                                       *)
CacheFits == codexCache # "none" => codexCache \in possible
AskFits(i) ==
  /\ asks[i].rev <= codexRev
  /\ asks[i].at = "handled" /\ asks[i].rev = codexRev => asks[i].value \in possible

(* Whoever waits may be told any of that. *)
AskerFits(a) ==
  /\ askers[a].at = "waiting" => possible \subseteq askers[a].allowed
  /\ askers[a].at = "told" => askers[a].value \in askers[a].allowed

CodexInv ==
  /\ CodexTypeOK
  /\ notices <= changes /\ account \in possible /\ CacheFits
  /\ \A i \in 1..MaxAsks : AskFits(i)
  /\ \A a \in Asker : AskerFits(a)

(* The service has asked nothing and nobody is signed in. *)
LEMMA CodexInvInit == CodexInit => CodexInv
<1> SUFFICES ASSUME CodexInit PROVE CodexInv
  OBVIOUS
<1>1. NoAsk \in AccountAsk /\ NoAsker \in StatusCall
  BY CodexAssumption DEF NoAsk, NoAsker, AccountAsk, StatusCall, Connected
<1>0. 0 \in 0..MaxChanges /\ 0 \in 0..MaxCacheRevision /\ 0 \in 0..MaxAsks
  BY CodexAssumption
<1>2. CodexTypeOK
  BY <1>1, <1>0 DEF CodexInit, CodexTypeOK, Connected
<1>. QED  BY <1>2 DEF CodexInv, CodexInit, CacheFits, AskFits, AskerFits, NoAsk, NoAsker

(* Requests and calls that are made are of their types. *)
LEMMA AskTypes ==
  ASSUME CodexTypeOK
  PROVE  /\ \A i \in 1..MaxAsks : asks[i] \in AccountAsk /\ [asks[i] EXCEPT !.at = "done"] \in AccountAsk
         /\ [NoAsk EXCEPT !.at = "sent", !.rev = codexRev] \in AccountAsk
         /\ \A i \in 1..MaxAsks : Sent(i) \in [1..MaxAsks -> AccountAsk]
<1>1. \A i \in 1..MaxAsks : asks[i] \in AccountAsk /\ [asks[i] EXCEPT !.at = "done"] \in AccountAsk
  BY DEF CodexTypeOK, AccountAsk
<1>2. [NoAsk EXCEPT !.at = "sent", !.rev = codexRev] \in AccountAsk
  BY CodexAssumption DEF CodexTypeOK, AccountAsk, NoAsk, Connected
<1>. QED  BY <1>1, <1>2 DEF Sent, CodexTypeOK

(* The records a call of the sign-in status can be. *)
LEMMA CallTypes ==
  ASSUME CodexTypeOK
  PROVE  /\ NoAsker \in StatusCall /\ \A a \in Asker : askers[a] \in StatusCall
         /\ \A v \in Connected, p \in SUBSET Connected : Told(v, p) \in StatusCall
         /\ \A i \in 0..MaxAsks, p \in SUBSET Connected : AwaitsAsk(i, p) \in StatusCall
         /\ \A a \in Asker, i \in 0..MaxAsks : [askers[a] EXCEPT !.ask = i] \in StatusCall
         /\ \A a \in Asker, v \in Connected : [askers[a] EXCEPT !.allowed = @ \cup {v}] \in StatusCall
<1>1. NoAsker \in StatusCall
  BY CodexAssumption DEF NoAsker, StatusCall, Connected
<1>2. \A a \in Asker : askers[a] \in StatusCall
  BY DEF CodexTypeOK
<1>3. \A v \in Connected, p \in SUBSET Connected : Told(v, p) \in StatusCall
  BY <1>1 DEF Told, StatusCall
<1>4. \A i \in 0..MaxAsks, p \in SUBSET Connected : AwaitsAsk(i, p) \in StatusCall
  BY <1>1 DEF AwaitsAsk, StatusCall
<1>5. \A a \in Asker, i \in 0..MaxAsks : [askers[a] EXCEPT !.ask = i] \in StatusCall
  BY <1>2 DEF StatusCall
<1>6. \A a \in Asker, v \in Connected : [askers[a] EXCEPT !.allowed = @ \cup {v}] \in StatusCall
  BY <1>2 DEF StatusCall
<1>. QED  BY <1>1, <1>2, <1>3, <1>4, <1>5, <1>6

(* A step keeps the types. *)
LEMMA CodexTypes ==
  ASSUME CodexTypeOK, notices <= changes, [CodexNext]_codexVars
  PROVE  CodexTypeOK' /\ notices' <= changes'
<1>0. /\ child \in BOOLEAN /\ login \in BOOLEAN /\ account \in Connected /\ possible \in SUBSET Connected
      /\ changes \in 0..MaxChanges /\ notices \in 0..MaxChanges /\ codexRev \in 0..MaxCacheRevision
      /\ codexCache \in {"none"} \cup Connected /\ sharedAsk \in 0..MaxAsks
      /\ asks \in [1..MaxAsks -> AccountAsk]
      /\ askers \in [Asker -> StatusCall]
      /\ session \in {"none", "login", "logout", "logout handled", "clear"}
  BY DEF CodexTypeOK
<1>n. /\ codexRev \in Nat /\ (codexRev < MaxCacheRevision => codexRev + 1 \in 0..MaxCacheRevision)
      /\ changes \in Nat /\ (changes < MaxChanges => changes + 1 \in 0..MaxChanges)
      /\ notices \in Nat /\ (notices > 0 => notices - 1 \in 0..MaxChanges /\ notices - 1 <= changes)
      /\ notices <= changes + 1 /\ notices + 1 <= changes + 1
           /\ (changes < MaxChanges => notices + 1 \in 0..MaxChanges)
  <2>1. codexRev \in 0..MaxCacheRevision /\ changes \in 0..MaxChanges /\ notices \in 0..MaxChanges
    BY <1>0
  <2>. QED  BY <2>1, CodexAssumption
<1>a. ASSUME Invalidated PROVE codexCache' \in {"none"} \cup Connected /\ codexRev' \in 0..MaxCacheRevision
  BY <1>n, <1>a DEF Invalidated, NextCacheRevision
<1>b. ASSUME NEW n, NEW s, Knows(n, s) PROVE possible' \in SUBSET Connected
  BY <1>0, <1>b DEF Knows
<1>c. ASSUME NEW v \in Connected, Changes(v)
      PROVE  /\ account' \in Connected /\ possible' \in SUBSET Connected /\ askers' \in [Asker -> StatusCall]
             /\ changes' \in 0..MaxChanges /\ changes' = changes + 1
  <2>1. askers' \in [Asker -> StatusCall]
    BY <1>0, <1>c, CallTypes DEF Changes
  <2>. QED  BY <1>0, <1>n, <1>c, <2>1 DEF Changes
<1>d. ASSUME NEW i \in 1..MaxAsks PROVE [asks EXCEPT ![i].at = "done"] \in [1..MaxAsks -> AccountAsk]
               /\ ForgetsAsk(i) \in 0..MaxAsks
  <2>1. 0 \in 0..MaxAsks
    BY CodexAssumption
  <2>2. [asks[i] EXCEPT !.at = "done"] \in AccountAsk
    BY AskTypes
  <2>. QED  BY <1>0, <2>1, <2>2 DEF ForgetsAsk
<1>e. 0 \in 0..MaxAsks /\ 0 \in 0..MaxChanges /\ \A i \in 1..MaxAsks : i \in 0..MaxAsks
  BY CodexAssumption
<1>1. CASE ChildExits
  <2>1. asks' \in [1..MaxAsks -> AccountAsk]
    BY <1>0, <1>1, AskTypes DEF ChildExits
  <2>2. askers' \in [Asker -> StatusCall]
    BY <1>0, <1>1, CallTypes DEF ChildExits
  <2>3. notices' \in 0..MaxChanges /\ notices' <= changes' /\ changes' = changes /\ sharedAsk' \in 0..MaxAsks
    BY <1>n, <1>1, <1>e DEF ChildExits
  <2>. QED  BY <1>0, <1>1, <1>a, <2>1, <2>2, <2>3 DEF ChildExits, CodexTypeOK
<1>2. CASE NoticeArrives
  <2>1. notices' \in 0..MaxChanges /\ notices' <= changes'
    BY <1>n, <1>2 DEF NoticeArrives
  <2>. QED  BY <1>0, <1>2, <1>a, <1>b, <2>1 DEF NoticeArrives, CodexTypeOK
<1>3. CASE AccountChanges
  <2>1. PICK v \in Connected : Changes(v)
    BY <1>3 DEF AccountChanges
  <2>2. notices' \in 0..MaxChanges /\ notices' <= changes'
    BY <1>n, <1>3, <1>c, <2>1 DEF AccountChanges, Changes
  <2>. QED  BY <1>0, <1>3, <1>c, <2>1, <2>2 DEF AccountChanges, CodexTypeOK
<1>4. CASE CacheExpires
  BY <1>0, <1>4 DEF CacheExpires, CodexTypeOK
<1>5. ASSUME NEW a \in Asker, AskStatus(a) PROVE CodexTypeOK' /\ notices' <= changes'
  <2>1. codexCache # "none" => Told(codexCache, possible) \in StatusCall
    BY <1>0, CallTypes
  <2>2. askers' \in [Asker -> StatusCall] /\ asks' \in [1..MaxAsks -> AccountAsk] /\ sharedAsk' \in 0..MaxAsks
          /\ child' \in BOOLEAN
    <3>1. CASE codexCache # "none" \/ MaySend(sharedAsk)
      BY <1>0, <1>5, <2>1, <3>1, CallTypes DEF AskStatus
    <3>2. CASE codexCache = "none" /\ ~MaySend(sharedAsk)
      <4>1. PICK i \in FreeAsks : asks' = Sent(i) /\ sharedAsk' = i
                   /\ askers' = [askers EXCEPT ![a] = AwaitsAsk(i, possible)]
        BY <1>5, <3>2 DEF AskStatus
      <4>2. i \in 1..MaxAsks
        BY DEF FreeAsks
      <4>. QED  BY <1>0, <1>5, <1>e, <3>2, <4>1, <4>2, AskTypes, CallTypes DEF AskStatus, Spawned
    <3>. QED  BY <3>1, <3>2
  <2>. QED  BY <1>0, <1>5, <2>2 DEF AskStatus, CodexTypeOK
<1>6. ASSUME NEW i \in 1..MaxAsks, HandlesAsk(i) PROVE CodexTypeOK' /\ notices' <= changes'
  <2>1. [asks[i] EXCEPT !.at = "handled", !.value = account] \in AccountAsk
    BY <1>0, AskTypes DEF AccountAsk
  <2>. QED  BY <1>0, <1>6, <2>1 DEF HandlesAsk, CodexTypeOK
<1>7. ASSUME NEW i \in 1..MaxAsks, AskAnswered(i) PROVE CodexTypeOK' /\ notices' <= changes'
  <2>1. asks[i].value \in Connected
    BY <1>0 DEF AccountAsk
  <2>2. \A a \in Asker : askers[a].allowed \in SUBSET Connected
    BY <1>0 DEF StatusCall
  <2>3. /\ codexCache' \in {"none"} \cup Connected /\ sharedAsk' \in 0..MaxAsks
        /\ asks' \in [1..MaxAsks -> AccountAsk] /\ askers' \in [Asker -> StatusCall]
    <3>1. CASE ~AskOutdated(i)
      <4>1. \A a \in Asker : Told(asks[i].value, askers[a].allowed) \in StatusCall /\ askers[a] \in StatusCall
        BY <2>1, <2>2, CallTypes
      <4>. QED  BY <1>0, <1>7, <1>d, <2>1, <3>1, <4>1 DEF AskAnswered
    <3>2. CASE AskOutdated(i) /\ Pending(i) = {}
      BY <1>0, <1>7, <1>d, <3>2 DEF AskAnswered
    <3>3. CASE AskOutdated(i) /\ Pending(i) # {} /\ codexCache # "none"
      <4>1. \A a \in Asker : Told(codexCache, askers[a].allowed) \in StatusCall /\ askers[a] \in StatusCall
        BY <1>0, <2>2, <3>3, CallTypes
      <4>. QED  BY <1>0, <1>7, <1>d, <3>3, <4>1 DEF AskAnswered
    <3>4. CASE AskOutdated(i) /\ Pending(i) # {} /\ codexCache = "none"
      <4>1. PICK j \in (IF MaySend(sharedAsk) THEN {sharedAsk} ELSE FreeAsks) :
              /\ asks' = [(IF MaySend(sharedAsk) THEN asks ELSE Sent(j)) EXCEPT ![i].at = "done"]
              /\ sharedAsk' = j
              /\ askers' = [a \in Asker |-> IF a \in Pending(i) THEN [askers[a] EXCEPT !.ask = j] ELSE askers[a]]
        BY <1>7, <3>4 DEF AskAnswered
      <4>2. j \in 0..MaxAsks /\ (~MaySend(sharedAsk) => j \in 1..MaxAsks)
        BY <1>0, <1>e DEF FreeAsks
      <4>3. (IF MaySend(sharedAsk) THEN asks ELSE Sent(j)) \in [1..MaxAsks -> AccountAsk]
        BY <1>0, <4>2, AskTypes
      <4>4. \A f \in [1..MaxAsks -> AccountAsk] : [f EXCEPT ![i].at = "done"] \in [1..MaxAsks -> AccountAsk]
        <5>1. \A x \in AccountAsk : [x EXCEPT !.at = "done"] \in AccountAsk
          BY DEF AccountAsk
        <5>. QED  BY <5>1
      <4>5. asks' \in [1..MaxAsks -> AccountAsk]
        BY <4>1, <4>3, <4>4
      <4>. QED  BY <1>0, <1>7, <3>4, <4>1, <4>2, <4>5, CallTypes DEF AskAnswered
    <3>. QED  BY <3>1, <3>2, <3>3, <3>4
  <2>. QED  BY <1>0, <1>7, <2>3 DEF AskAnswered, CodexTypeOK
<1>8. ASSUME NEW i \in 1..MaxAsks, AskTimesOut(i) PROVE CodexTypeOK' /\ notices' <= changes'
  <2>1. askers' \in [Asker -> StatusCall]
    BY <1>0, <1>8, CallTypes DEF AskTimesOut
  <2>. QED  BY <1>0, <1>8, <1>d, <2>1 DEF AskTimesOut, CodexTypeOK
<1>9. CASE StartLogin \/ LoginStarted \/ CancelLogin
  <2>1. CASE StartLogin
    BY <1>0, <2>1 DEF StartLogin, SessionGoes, Spawned, CodexTypeOK
  <2>2. CASE LoginStarted
    BY <1>0, <1>a, <1>b, <2>2 DEF LoginStarted, SessionGoes, CodexTypeOK
  <2>3. CASE CancelLogin
    BY <1>0, <2>3 DEF CancelLogin, Spawned, CodexTypeOK
  <2>. QED  BY <1>9, <2>1, <2>2, <2>3
<1>10. CASE HandlesLogout
  <2>1. CASE account = "yes"
    <3>1. "no" \in Connected /\ Changes("no")
      BY <1>10, <2>1 DEF HandlesLogout, Connected
    <3>2. notices' <= changes'
      BY <1>n, <1>10, <1>c, <3>1 DEF HandlesLogout
    <3>. QED  BY <1>0, <1>10, <1>c, <3>1, <3>2 DEF HandlesLogout, CodexTypeOK
  <2>2. CASE account # "yes"
    BY <1>0, <1>10, <2>2 DEF HandlesLogout, CodexTypeOK
  <2>. QED  BY <2>1, <2>2
<1>11. CASE StartLogout \/ LogoutAnswered \/ LogoutTimesOut \/ LogoutEnds
  <2>1. CASE StartLogout
    BY <1>0, <1>a, <2>1 DEF StartLogout, SessionGoes, Spawned, CodexTypeOK
  <2>2. CASE LogoutAnswered \/ LogoutTimesOut
    BY <1>0, <2>2 DEF LogoutAnswered, LogoutTimesOut, SessionGoes, CodexTypeOK
  <2>3. CASE LogoutEnds
    BY <1>0, <1>a, <1>b, <2>3 DEF LogoutEnds, InvalidatedAfter, SessionGoes, CodexTypeOK
  <2>. QED  BY <1>11, <2>1, <2>2, <2>3
<1>12. CASE UNCHANGED codexVars
  BY <1>12 DEF codexVars, CodexTypeOK
<1>. QED  BY <1>1, <1>2, <1>3, <1>4, <1>5, <1>6, <1>7, <1>8, <1>9, <1>10, <1>11, <1>12 DEF CodexNext

(* The cache is emptied and the revision passes: what was kept or read before is of no account, and   *)
(* those who wait may still be told what they could be told.                                          *)
LEMMA InvalidationFits ==
  ASSUME CodexInv, Invalidated, possible' = possible \/ possible' = {account}, UNCHANGED account
  PROVE  /\ account' \in possible' /\ CacheFits'
         /\ \A i \in 1..MaxAsks : asks'[i] = asks[i] => AskFits(i)'
         /\ \A a \in Asker : askers'[a] = askers[a] => AskerFits(a)'
<1>1. account' \in possible' /\ possible' \subseteq possible /\ codexCache' = "none"
  BY DEF CodexInv, Invalidated
<1>2. ASSUME NEW i \in 1..MaxAsks, asks'[i] = asks[i] PROVE AskFits(i)'
  <2>1. asks[i].rev \in Nat /\ codexRev \in Nat /\ asks[i].rev <= codexRev /\ codexRev' = codexRev + 1
    <3>1. asks[i].rev \in 0..MaxCacheRevision /\ codexRev \in 0..MaxCacheRevision
      BY DEF CodexInv, CodexTypeOK, AccountAsk
    <3>. QED  BY <3>1, CodexAssumption DEF CodexInv, AskFits, Invalidated, NextCacheRevision
  <2>2. asks[i].rev < codexRev'
    BY <2>1
  <2>. QED  BY <1>2, <2>1, <2>2 DEF AskFits
<1>3. ASSUME NEW a \in Asker, askers'[a] = askers[a] PROVE AskerFits(a)'
  BY <1>1, <1>3 DEF CodexInv, AskerFits
<1>. QED  BY <1>1, <1>2, <1>3 DEF CacheFits

(* The account changes: the change is among what may be told from now on. *)
LEMMA ChangeFits ==
  ASSUME CodexInv, NEW v \in Connected, Changes(v), UNCHANGED <<codexCache, codexRev, asks>>
  PROVE  account' \in possible' /\ CacheFits' /\ (\A i \in 1..MaxAsks : AskFits(i)')
           /\ (\A a \in Asker : AskerFits(a)')
<1>1. account' \in possible' /\ CacheFits'
  BY DEF CodexInv, CacheFits, Changes
<1>2. \A i \in 1..MaxAsks : AskFits(i)'
  BY DEF CodexInv, AskFits, Changes
<1>3. ASSUME NEW a \in Asker PROVE AskerFits(a)'
  <2>1. askers'[a] = IF askers[a].at = "waiting" THEN [askers[a] EXCEPT !.allowed = @ \cup {v}] ELSE askers[a]
    BY DEF Changes
  <2>2. LET h == [askers[a] EXCEPT !.allowed = @ \cup {v}]
        IN  h.at = askers[a].at /\ h.value = askers[a].value /\ h.allowed = askers[a].allowed \cup {v}
    BY DEF CodexInv, CodexTypeOK, StatusCall
  <2>3. AskerFits(a) /\ possible' = possible \cup {v}
    BY DEF CodexInv, Changes
  <2>. QED  BY <2>1, <2>2, <2>3 DEF AskerFits
<1>. QED  BY <1>1, <1>2, <1>3

(* Nothing is kept that was not, and the requests go as they may: what was fitting remains so. *)
LEMMA AskGoes ==
  ASSUME CodexInv, UNCHANGED <<account, possible, codexRev>>,
         NEW i \in 1..MaxAsks,
         \/ asks'[i] = asks[i]
         \/ asks'[i].at # "handled" /\ asks'[i].rev \in {asks[i].rev, codexRev}
         \/ asks'[i] = [asks[i] EXCEPT !.at = "handled", !.value = account]
  PROVE  AskFits(i)'
<1>0. AskFits(i) /\ asks[i] \in AccountAsk /\ account \in possible
  BY DEF CodexInv, CodexTypeOK
<1>1. CASE asks'[i] = asks[i]
  BY <1>0, <1>1 DEF AskFits
<1>2. CASE asks'[i].at # "handled" /\ asks'[i].rev \in {asks[i].rev, codexRev}
  <2>1. codexRev \in 0..MaxCacheRevision
    BY DEF CodexInv, CodexTypeOK
  <2>2. codexRev <= codexRev
    BY <2>1, CodexAssumption
  <2>. QED  BY <1>0, <1>2, <2>2 DEF AskFits
<1>3. CASE asks'[i] = [asks[i] EXCEPT !.at = "handled", !.value = account]
  <2>1. LET h == [asks[i] EXCEPT !.at = "handled", !.value = account] IN h.rev = asks[i].rev /\ h.value = account
    BY <1>0 DEF AccountAsk
  <2>. QED  BY <1>0, <1>3, <2>1 DEF AskFits
<1>. QED  BY <1>1, <1>2, <1>3

(* Where a call of the sign-in status can go, it still answers what the account has been. *)
LEMMA AskerGoes ==
  ASSUME CodexInv, UNCHANGED possible,
         NEW a \in Asker,
         \/ askers'[a] = askers[a] \/ askers'[a] = NoAsker
         \/ \E v \in possible : askers'[a] = Told(v, possible)
         \/ askers[a].at = "waiting" /\ \E v \in possible : askers'[a] = Told(v, askers[a].allowed)
         \/ \E i \in 0..MaxAsks : askers'[a] = AwaitsAsk(i, possible)
         \/ askers[a].at = "waiting" /\ \E i \in 0..MaxAsks : askers'[a] = [askers[a] EXCEPT !.ask = i]
  PROVE  AskerFits(a)'
<1>0. AskerFits(a) /\ askers[a] \in StatusCall
  BY DEF CodexInv, CodexTypeOK
<1>1. CASE askers'[a] = askers[a] \/ askers'[a] = NoAsker
  BY <1>0, <1>1 DEF AskerFits, NoAsker
<1>2. CASE \E v \in possible : askers'[a] = Told(v, possible)
  <2>1. PICK v \in possible : askers'[a] = Told(v, possible)
    BY <1>2
  <2>2. askers'[a].at = "told" /\ askers'[a].value = v /\ askers'[a].allowed = possible
    BY <2>1 DEF Told, NoAsker
  <2>. QED  BY <2>2 DEF AskerFits
<1>3. CASE askers[a].at = "waiting" /\ \E v \in possible : askers'[a] = Told(v, askers[a].allowed)
  BY <1>0, <1>3 DEF AskerFits, Told, NoAsker
<1>4. CASE \E i \in 0..MaxAsks : askers'[a] = AwaitsAsk(i, possible)
  BY <1>4 DEF AskerFits, AwaitsAsk, NoAsker
<1>5. CASE askers[a].at = "waiting" /\ \E i \in 0..MaxAsks : askers'[a] = [askers[a] EXCEPT !.ask = i]
  <2>1. PICK i \in 0..MaxAsks : askers'[a] = [askers[a] EXCEPT !.ask = i]
    BY <1>5
  <2>2. askers'[a].at = "waiting" /\ askers'[a].allowed = askers[a].allowed
    BY <1>0, <1>5, <2>1 DEF StatusCall
  <2>. QED  BY <1>0, <1>5, <2>2 DEF AskerFits
<1>. QED  BY <1>1, <1>2, <1>3, <1>4, <1>5

(* A step keeps the invariant. *)
LEMMA CodexInvStep == CodexInv /\ [CodexNext]_codexVars => CodexInv'
<1> SUFFICES ASSUME CodexInv, [CodexNext]_codexVars PROVE CodexInv'
  OBVIOUS
<1> DEFINE Fit == account \in possible /\ CacheFits /\ (\A i \in 1..MaxAsks : AskFits(i))
  /\ (\A a \in Asker : AskerFits(a))
<1>0. CodexTypeOK' /\ notices' <= changes'
  BY CodexTypes DEF CodexInv
<1>1. asks \in [1..MaxAsks -> AccountAsk] /\ askers \in [Asker -> StatusCall] /\ Fit
  BY DEF CodexInv, CodexTypeOK
<1>a. ASSUME Invalidated, possible' = possible \/ possible' = {account}, UNCHANGED <<account, asks, askers>>
               PROVE Fit'
  BY <1>a, InvalidationFits
<1>b. ASSUME UNCHANGED <<account, possible, codexRev, asks, askers>>, codexCache' \in {codexCache, "none"} PROVE Fit'
  BY <1>b, <1>1 DEF CacheFits, AskFits, AskerFits
<1>c. ASSUME NEW n, NEW x, Knows(n, x) PROVE possible' = possible \/ possible' = {account}
  BY <1>c DEF Knows
<1>2. CASE ChildExits
  <2>1. Invalidated /\ possible' = {account} /\ UNCHANGED account
    BY <1>2 DEF ChildExits
  <2>2. ASSUME NEW i \in 1..MaxAsks PROVE AskFits(i)'
    <3>1. asks'[i] = asks[i] \/ asks'[i] = [asks[i] EXCEPT !.at = "done"]
      BY <1>2 DEF ChildExits
    <3>2. CASE asks'[i] = asks[i]
      BY <2>1, <3>2, InvalidationFits
    <3>3. CASE asks'[i] = [asks[i] EXCEPT !.at = "done"]
      <4>1. asks'[i].at = "done" /\ asks'[i].rev = asks[i].rev
        BY <1>1, <3>3 DEF AccountAsk
      <4>2. asks[i].rev <= codexRev'
        <5>1. asks[i].rev \in 0..MaxCacheRevision /\ codexRev \in 0..MaxCacheRevision
          BY DEF CodexInv, CodexTypeOK, AccountAsk
        <5>. QED  BY <1>1, <2>1, <5>1, CodexAssumption DEF AskFits, Invalidated, NextCacheRevision
      <4>. QED  BY <4>1, <4>2 DEF AskFits
    <3>. QED  BY <3>1, <3>2, <3>3
  <2>3. ASSUME NEW a \in Asker PROVE AskerFits(a)'
    <3>1. askers'[a] = askers[a] \/ askers'[a] = NoAsker
      BY <1>2 DEF ChildExits
    <3>2. CASE askers'[a] = askers[a]
      BY <2>1, <3>2, InvalidationFits
    <3>3. CASE askers'[a] = NoAsker
      BY <3>3 DEF AskerFits, NoAsker
    <3>. QED  BY <3>1, <3>2, <3>3
  <2>. QED  BY <1>0, <2>1, <2>2, <2>3, InvalidationFits DEF CodexInv
<1>3. CASE NoticeArrives
  <2>1. Fit'
    BY <1>3, <1>a, <1>c DEF NoticeArrives
  <2>. QED  BY <1>0, <2>1 DEF CodexInv
<1>4. CASE AccountChanges
  <2>1. PICK v \in Connected : Changes(v)
    BY <1>4 DEF AccountChanges
  <2>2. Fit'
    BY <1>4, <2>1, ChangeFits DEF AccountChanges
  <2>. QED  BY <1>0, <2>2 DEF CodexInv
<1>5. CASE CacheExpires
  <2>1. Fit'
    BY <1>5, <1>b DEF CacheExpires
  <2>. QED  BY <1>0, <2>1 DEF CodexInv
<1>6. ASSUME NEW b \in Asker, AskStatus(b) PROVE CodexInv'
  <2>1. UNCHANGED <<account, possible, codexRev, codexCache>>
    BY <1>6 DEF AskStatus
  <2>2. \/ asks' = asks \/ \E i \in FreeAsks : asks' = Sent(i)
    BY <1>6 DEF AskStatus
  <2>3. ASSUME NEW i \in 1..MaxAsks PROVE AskFits(i)'
    <3>1. CASE asks' = asks
      BY <2>1, <3>1, AskGoes
    <3>2. CASE \E j \in FreeAsks : asks' = Sent(j)
      <4>1. PICK j \in FreeAsks : asks' = Sent(j)
        BY <3>2
      <4>2. asks'[i] = asks[i] \/ (asks'[i].at = "sent" /\ asks'[i].rev = codexRev)
        BY <1>1, <4>1 DEF Sent, NoAsk
      <4>. QED  BY <2>1, <4>2, AskGoes
    <3>. QED  BY <2>2, <3>1, <3>2
  <2>4. ASSUME NEW a \in Asker PROVE AskerFits(a)'
    <3>1. \/ askers'[a] = askers[a]
          \/ codexCache # "none" /\ askers'[a] = Told(codexCache, possible)
          \/ \E i \in 0..MaxAsks : askers'[a] = AwaitsAsk(i, possible)
      <4>1. sharedAsk \in 0..MaxAsks /\ \A i \in FreeAsks : i \in 0..MaxAsks
        <5>1. \A i \in 1..MaxAsks : i \in 0..MaxAsks
          BY CodexAssumption
        <5>. QED  BY <5>1 DEF CodexInv, CodexTypeOK, FreeAsks
      <4>. QED  BY <1>1, <1>6, <4>1 DEF AskStatus
    <3>. QED  BY <1>1, <2>1, <3>1, AskerGoes DEF CacheFits
  <2>. QED  BY <1>0, <1>1, <2>1, <2>3, <2>4 DEF CodexInv, CacheFits
<1>7. ASSUME NEW j \in 1..MaxAsks, HandlesAsk(j) PROVE CodexInv'
  <2>1. UNCHANGED <<account, possible, codexRev, codexCache, askers>>
    BY <1>7 DEF HandlesAsk
  <2>2. ASSUME NEW i \in 1..MaxAsks PROVE AskFits(i)'
    <3>1. asks'[i] = asks[i] \/ asks'[i] = [asks[i] EXCEPT !.at = "handled", !.value = account]
      BY <1>1, <1>7 DEF HandlesAsk
    <3>. QED  BY <2>1, <3>1, AskGoes
  <2>3. \A a \in Asker : AskerFits(a)'
    BY <2>1, AskerGoes
  <2>. QED  BY <1>0, <1>1, <2>1, <2>2, <2>3 DEF CodexInv, CacheFits
<1>8. ASSUME NEW j \in 1..MaxAsks, AskAnswered(j) PROVE CodexInv'
  <2>1. UNCHANGED <<account, possible, codexRev>>
    BY <1>8 DEF AskAnswered
  <2>2. ~AskOutdated(j) => asks[j].value \in possible
    BY <1>1, <1>8 DEF AskAnswered, AskOutdated, AskFits
  <2>3. CacheFits'
    BY <1>1, <1>8, <2>1, <2>2 DEF AskAnswered, CacheFits
  <2>4. ASSUME NEW i \in 1..MaxAsks PROVE AskFits(i)'
    <3>1. \E f \in {asks} \cup {Sent(k) : k \in FreeAsks} : asks' = [f EXCEPT ![j].at = "done"]
      BY <1>8 DEF AskAnswered
    <3>2. PICK f \in {asks} \cup {Sent(k) : k \in FreeAsks} : asks' = [f EXCEPT ![j].at = "done"]
      BY <3>1
    <3>3. f \in [1..MaxAsks -> AccountAsk] /\ (f[i] = asks[i] \/ (f[i].at = "sent" /\ f[i].rev = codexRev))
      <4>1. CASE f = asks
        BY <1>1, <4>1
      <4>2. CASE f \in {Sent(k) : k \in FreeAsks}
        <5>1. PICK k \in FreeAsks : f = Sent(k)
          BY <4>2
        <5>2. k \in 1..MaxAsks
          BY DEF FreeAsks
        <5>3. f \in [1..MaxAsks -> AccountAsk]
          BY <5>1, <5>2, AskTypes DEF CodexInv
        <5>. QED  BY <1>1, <5>1, <5>3 DEF Sent, NoAsk
      <4>. QED  BY <3>2, <4>1, <4>2
    <3>4. asks'[i] = IF i = j THEN [f[i] EXCEPT !.at = "done"] ELSE f[i]
      BY <3>2, <3>3
    <3>5. LET h == [f[i] EXCEPT !.at = "done"] IN h.at = "done" /\ h.rev = f[i].rev
      BY <3>3 DEF AccountAsk
    <3>6. \/ asks'[i] = asks[i] \/ (asks'[i].at # "handled" /\ asks'[i].rev \in {asks[i].rev, codexRev})
      BY <3>3, <3>4, <3>5
    <3>. QED  BY <2>1, <3>6, AskGoes
  <2>5. ASSUME NEW a \in Asker PROVE AskerFits(a)'
    <3>1. a \in Pending(j) => askers[a].at = "waiting"
      BY DEF Pending
    <3>2. \/ askers'[a] = askers[a]
          \/ a \in Pending(j) /\ ~AskOutdated(j) /\ askers'[a] = Told(asks[j].value, askers[a].allowed)
          \/ a \in Pending(j) /\ codexCache # "none" /\ askers'[a] = Told(codexCache, askers[a].allowed)
          \/ a \in Pending(j) /\ \E i \in 0..MaxAsks : askers'[a] = [askers[a] EXCEPT !.ask = i]
      <4>1. sharedAsk \in 0..MaxAsks /\ \A i \in FreeAsks : i \in 0..MaxAsks
        <5>1. \A i \in 1..MaxAsks : i \in 0..MaxAsks
          BY CodexAssumption
        <5>. QED  BY <5>1 DEF CodexInv, CodexTypeOK, FreeAsks
      <4>. QED  BY <1>8, <4>1 DEF AskAnswered
    <3>. QED  BY <1>1, <2>1, <2>2, <3>1, <3>2, AskerGoes DEF CacheFits
  <2>. QED  BY <1>0, <1>1, <2>1, <2>3, <2>4, <2>5 DEF CodexInv
<1>9. ASSUME NEW j \in 1..MaxAsks, AskTimesOut(j) PROVE CodexInv'
  <2>1. UNCHANGED <<account, possible, codexRev, codexCache>>
    BY <1>9 DEF AskTimesOut
  <2>2. ASSUME NEW i \in 1..MaxAsks PROVE AskFits(i)'
    <3>1. asks'[i] = IF i = j THEN [asks[i] EXCEPT !.at = "done"] ELSE asks[i]
      BY <1>1, <1>9 DEF AskTimesOut
    <3>2. LET h == [asks[i] EXCEPT !.at = "done"] IN h.at = "done" /\ h.rev = asks[i].rev
      BY <1>1 DEF AccountAsk
    <3>3. \/ asks'[i] = asks[i] \/ (asks'[i].at # "handled" /\ asks'[i].rev \in {asks[i].rev, codexRev})
      BY <3>1, <3>2
    <3>. QED  BY <2>1, <3>3, AskGoes
  <2>3. ASSUME NEW a \in Asker PROVE AskerFits(a)'
    <3>1. askers'[a] = askers[a] \/ askers'[a] = NoAsker
      BY <1>9 DEF AskTimesOut
    <3>. QED  BY <2>1, <3>1, AskerGoes
  <2>. QED  BY <1>0, <1>1, <2>1, <2>2, <2>3 DEF CodexInv, CacheFits
<1>10. CASE StartLogin \/ LoginStarted \/ CancelLogin
  <2>1. ASSUME StartLogin PROVE Fit'
    BY <1>b, <2>1 DEF StartLogin, SessionGoes
  <2>2. ASSUME LoginStarted PROVE Fit'
    BY <1>a, <1>b, <1>c, <2>2 DEF LoginStarted, SessionGoes
  <2>3. ASSUME CancelLogin PROVE Fit'
    BY <1>b, <2>3 DEF CancelLogin
  <2>. QED  BY <1>0, <1>10, <2>1, <2>2, <2>3 DEF CodexInv
<1>11. CASE HandlesLogout
  <2>1. ASSUME account = "yes" PROVE Fit'
    BY <1>11, <2>1, ChangeFits DEF HandlesLogout, Connected
  <2>2. ASSUME account # "yes" PROVE Fit'
    BY <1>b, <1>11, <2>2 DEF HandlesLogout
  <2>. QED  BY <1>0, <2>1, <2>2 DEF CodexInv
<1>12. CASE StartLogout \/ LogoutAnswered \/ LogoutTimesOut \/ LogoutEnds
  <2>1. ASSUME StartLogout PROVE Fit'
    BY <1>a, <2>1 DEF StartLogout, SessionGoes
  <2>2. ASSUME LogoutAnswered \/ LogoutTimesOut PROVE Fit'
    BY <1>b, <2>2 DEF LogoutAnswered, LogoutTimesOut, SessionGoes
  <2>3. ASSUME LogoutEnds PROVE Fit'
    BY <1>a, <1>c, <2>3 DEF LogoutEnds, InvalidatedAfter, SessionGoes
  <2>. QED  BY <1>0, <1>12, <2>1, <2>2, <2>3 DEF CodexInv
<1>13. CASE UNCHANGED codexVars
  <2>1. Fit'
    BY <1>b, <1>13 DEF codexVars
  <2>. QED  BY <1>0, <2>1 DEF CodexInv
<1>. QED  BY <1>2, <1>3, <1>4, <1>5, <1>6, <1>7, <1>8, <1>9, <1>10, <1>11, <1>12, <1>13 DEF CodexNext

(* The invariant holds in every state. *)
THEOREM CodexInvariant == CodexSpec => []CodexInv
<1>. QED  BY CodexInvInit, CodexInvStep, PTL DEF CodexSpec

(* The status told is one the account has had since the question was asked, or since a change of which *)
(* the service had not heard.                                                                          *)
THEOREM StatusStaysCurrent == CodexSpec => []StatusIsCurrent
<1>1. CodexInv => StatusIsCurrent
  BY DEF CodexInv, AskerFits, StatusIsCurrent
<1>. QED  BY <1>1, CodexInvariant, PTL

-----------------------------------------------------------------------------
(* AiProviders *)

(* The foreign key of agent_tasks: the model a task names is a row. *)
TasksHaveRows == \A t \in AiTask : taskModel[t] # 0 => taskModel[t] \in ModelRows

(* Nobody is signed in, and nothing is being enabled, after the account was left. *)
LeftIsQuiet == left => ~signedIn /\ ~Enabling /\ ~providers[CODEX_PROVIDER_ID].enabled

(* What a request knows when it takes its next step: the default it writes was checked against a model *)
(* whose provider cannot change; the task it inserts is its own; what a start has resolved is what it   *)
(* takes the task's model to be; and a start inside the lock has looked at the task there.             *)
TaskKinds == {"create", "change", "start"}
CallFits(c) ==
  /\ aiCalls[c].at = "write" =>
       /\ aiCalls[c].model \in 1..MaxModel
       /\ models[aiCalls[c].model].st # "unused"
       /\ models[aiCalls[c].model].provider = aiCalls[c].provider \/ models[aiCalls[c].model].st = "deleted"
  /\ aiCalls[c].at \in {"resolve", "lock", "again", "claim"} => aiCalls[c].kind \in TaskKinds
  /\ aiCalls[c].at \in {"again", "claim"} => aiCalls[c].kind = "start"
  /\ aiCalls[c].kind \in TaskKinds => aiCalls[c].task \in AiTask
  /\ aiCalls[c].kind = "create" => taskModel[aiCalls[c].task] = 0 /\ aiCalls[c].at \in {"resolve", "lock"}
  /\ aiCalls[c].at = "lock" => aiCalls[c].resolved = aiCalls[c].model
  /\ aiCalls[c].at = "claim" => aiCalls[c].resolved = aiCalls[c].model
  /\ aiCalls[c].at \in {"again", "claim"} =>
       aiCalls[c].model = taskModel[aiCalls[c].task] /\ taskModel[aiCalls[c].task] # 0
(* Nobody else works on a task that is being created. *)
CreatesAlone(c, d) ==
  (c # d /\ aiCalls[c].kind = "create" /\ aiCalls[d].kind \in TaskKinds) => aiCalls[c].task # aiCalls[d].task

AiInv ==
  /\ AiTypeOK
  /\ DefaultIsOwn
  /\ TasksHaveRows
  /\ RunUsesItsModel
  /\ LeftIsQuiet
  /\ \A c \in AiRequest : CallFits(c)
  /\ \A c, d \in AiRequest : CreatesAlone(c, d)

(* The record of a request that has not begun. *)
LEMMA NoAiCallTypes == NoAiCall \in AiCall
BY AiAssumption DEF NoAiCall, AiCall, AiProvider, CODEX_PROVIDER_ID

(* What becomes of a request that goes on: the others stay as they are, and it keeps what it asks for. *)
OtherCallsStay(c) == \A d \in AiRequest : d # c => aiCalls'[d] = aiCalls[d]
GoesOn(c, stage) == aiCalls'[c].kind = aiCalls[c].kind /\ aiCalls'[c].task = aiCalls[c].task /\ aiCalls'[c].at = stage
(* Where each step leaves its own request; of the others it leaves all. *)
LEMMA AiMoves ==
  ASSUME AiTypeOK, NEW c \in AiRequest
  PROVE  /\ CheckDefault(c) => OtherCallsStay(c) /\ (aiCalls'[c] = NoAiCall \/
              (/\ GoesOn(c, "write") /\ aiCalls'[c].model = aiCalls[c].model
               /\ aiCalls'[c].provider = aiCalls[c].provider /\ aiCalls[c].model \in ModelsOf(aiCalls[c].provider)))
         /\ LogoutCodexAccount(c) => OtherCallsStay(c) /\ (aiCalls'[c] = NoAiCall \/ GoesOn(c, "disable"))
         /\ AddAiModel(c) => OtherCallsStay(c) /\ (aiCalls'[c] = NoAiCall \/ GoesOn(c, "add"))
         /\ ResolveModel(c) => OtherCallsStay(c) /\ (aiCalls'[c] = NoAiCall \/
              (GoesOn(c, "lock") /\ aiCalls'[c].model = aiCalls[c].model /\ aiCalls'[c].resolved = aiCalls[c].model))
         /\ ResolveAgain(c) => OtherCallsStay(c) /\ (aiCalls'[c] = NoAiCall \/
              (GoesOn(c, "claim") /\ aiCalls'[c].model = aiCalls[c].model /\ aiCalls'[c].resolved = aiCalls[c].model))
         /\ EnterStart(c) => OtherCallsStay(c) /\ (aiCalls'[c] = NoAiCall \/
              (/\ GoesOn(c, "again") \/ (GoesOn(c, "claim") /\ taskModel[aiCalls[c].task] = aiCalls[c].model)
               /\ taskModel[aiCalls[c].task] # 0
               /\ aiCalls'[c].model = taskModel[aiCalls[c].task] /\ aiCalls'[c].resolved = aiCalls[c].resolved))
         /\ BeginTask(c) =>
              /\ OtherCallsStay(c) /\ aiCalls'[c].kind \in TaskKinds /\ aiCalls'[c].at = "resolve"
                   /\ aiCalls'[c].task \in AiTask
              /\ IF aiCalls'[c].kind = "create"
                 THEN taskModel[aiCalls'[c].task] = 0 /\ \A d \in AiRequest : aiCalls[d].task # aiCalls'[c].task
                 ELSE taskModel[aiCalls'[c].task] # 0
<1> USE DEF CallIs, MovesCall, Replied, Stands, OtherCallsStay, GoesOn
<1>0. aiCalls \in [AiRequest -> AiCall]
  BY DEF AiTypeOK
<1>1. ASSUME NEW r, CallIs(c, r) PROVE OtherCallsStay(c) /\ aiCalls'[c] = r
  BY <1>0, <1>1
<1>2. ASSUME CheckDefault(c)
      PROVE  /\ OtherCallsStay(c)
             /\ \/ aiCalls'[c] = NoAiCall
                \/ /\ aiCalls'[c] = [aiCalls[c] EXCEPT !.at = "write"]
                   /\ aiCalls[c].model \in ModelsOf(aiCalls[c].provider)
  BY <1>1, <1>2 DEF CheckDefault
<1>3. ASSUME LogoutCodexAccount(c) PROVE OtherCallsStay(c)
               /\ (aiCalls'[c] = NoAiCall \/ aiCalls'[c] = [aiCalls[c] EXCEPT !.at = "disable"])
  BY <1>1, <1>3 DEF LogoutCodexAccount
<1>4. ASSUME AddAiModel(c) PROVE OtherCallsStay(c)
               /\ (aiCalls'[c] = NoAiCall \/ \E N : aiCalls'[c] = [aiCalls[c] EXCEPT !.names = N])
  BY <1>1, <1>4 DEF AddAiModel
<1>5. ASSUME ResolveModel(c) PROVE OtherCallsStay(c)
               /\ (aiCalls'[c] = NoAiCall \/ aiCalls'[c] = [aiCalls[c] EXCEPT !.at = "lock",
                                                                                     !.resolved = aiCalls[c].model])
  BY <1>1, <1>5 DEF ResolveModel
<1>6. ASSUME ResolveAgain(c) PROVE OtherCallsStay(c)
               /\ (aiCalls'[c] = NoAiCall \/ aiCalls'[c] = [aiCalls[c] EXCEPT !.at = "claim",
                    !.resolved = aiCalls[c].model])
  BY <1>1, <1>6 DEF ResolveAgain
<1>7. ASSUME EnterStart(c)
      PROVE  /\ OtherCallsStay(c)
             /\ \/ aiCalls'[c] = NoAiCall
                \/ /\ taskModel[aiCalls[c].task] # 0
                   /\ \E stage \in {"again", "claim"} :
                        /\ aiCalls'[c] = [aiCalls[c] EXCEPT !.at = stage, !.model = taskModel[aiCalls[c].task]]
                        /\ stage = "claim" => taskModel[aiCalls[c].task] = aiCalls[c].model
  BY <1>1, <1>7 DEF EnterStart, TaskMoved
<1>8. ASSUME BeginTask(c)
      PROVE  /\ OtherCallsStay(c)
             /\ \E k \in TaskKinds, t \in AiTask : \E m :
                  /\ aiCalls'[c] = [NoAiCall EXCEPT !.kind = k, !.at = "resolve", !.task = t, !.model = m]
                  /\ IF k = "create" THEN taskModel[t] = 0 /\ \A d \in AiRequest : aiCalls[d].task # t
                       ELSE taskModel[t] # 0
  <2>1. ASSUME NEW k \in TaskKinds, NEW t \in AiTask, NEW m,
               CallIs(c, [NoAiCall EXCEPT !.kind = k, !.at = "resolve", !.task = t, !.model = m]),
               IF k = "create" THEN taskModel[t] = 0 /\ \A d \in AiRequest : aiCalls[d].task # t ELSE taskModel[t] # 0
        PROVE  /\ OtherCallsStay(c)
               /\ \E l \in TaskKinds, u \in AiTask : \E n :
                    /\ aiCalls'[c] = [NoAiCall EXCEPT !.kind = l, !.at = "resolve", !.task = u, !.model = n]
                    /\ IF l = "create" THEN taskModel[u] = 0 /\ \A d \in AiRequest : aiCalls[d].task # u
                         ELSE taskModel[u] # 0
    <3>1. OtherCallsStay(c) /\ aiCalls'[c] = [NoAiCall EXCEPT !.kind = k, !.at = "resolve", !.task = t, !.model = m]
      BY <1>1, <2>1
    <3>2. \E l \in TaskKinds, u \in AiTask : \E n :
            /\ aiCalls'[c] = [NoAiCall EXCEPT !.kind = l, !.at = "resolve", !.task = u, !.model = n]
            /\ IF l = "create" THEN taskModel[u] = 0 /\ \A d \in AiRequest : aiCalls[d].task # u
                 ELSE taskModel[u] # 0
      <4>1. WITNESS k \in TaskKinds, t \in AiTask
      <4>2. WITNESS m
      <4>. QED  BY <2>1, <3>1
    <3>. QED  BY <3>1, <3>2
  <2>2. {"create", "change", "start"} = TaskKinds
    BY DEF TaskKinds
  <2>3. PICK t \in AiTask :
          \/ /\ taskModel[t] = 0 /\ \A d \in AiRequest : aiCalls[d].task # t
             /\ \E m \in ModelRows : CallIs(c, [NoAiCall EXCEPT !.kind = "create", !.at = "resolve", !.task = t,
                                                !.model = m])
          \/ /\ taskModel[t] # 0
             /\ \/ \E m \in ModelRows : CallIs(c, [NoAiCall EXCEPT !.kind = "change", !.at = "resolve", !.task = t,
                                                   !.model = m])
                \/ CallIs(c, [NoAiCall EXCEPT !.kind = "start", !.at = "resolve", !.task = t, !.model = taskModel[t]])
    BY <1>8 DEF BeginTask
  <2>4. "create" # "change" /\ "create" # "start" /\ {"create", "change", "start"} \subseteq TaskKinds
    BY <2>2
  <2> HIDE DEF CallIs, OtherCallsStay
  <2>. QED  BY <2>1, <2>3, <2>4
<1>9. aiCalls[c] \in AiCall
  BY <1>0
<1>10. CheckDefault(c) => OtherCallsStay(c) /\ (aiCalls'[c] = NoAiCall \/
              (/\ GoesOn(c, "write") /\ aiCalls'[c].model = aiCalls[c].model
               /\ aiCalls'[c].provider = aiCalls[c].provider /\ aiCalls[c].model \in ModelsOf(aiCalls[c].provider)))
  BY <1>2, <1>9 DEF AiCall
<1>11. LogoutCodexAccount(c) => OtherCallsStay(c) /\ (aiCalls'[c] = NoAiCall \/ GoesOn(c, "disable"))
  BY <1>3, <1>9 DEF AiCall
<1>12. AddAiModel(c) => OtherCallsStay(c) /\ (aiCalls'[c] = NoAiCall \/ GoesOn(c, "add"))
  BY <1>4, <1>9 DEF AiCall, AddAiModel
<1>13. ResolveModel(c) => OtherCallsStay(c) /\ (aiCalls'[c] = NoAiCall \/
              (GoesOn(c, "lock") /\ aiCalls'[c].model = aiCalls[c].model /\ aiCalls'[c].resolved = aiCalls[c].model))
  BY <1>5, <1>9 DEF AiCall
<1>14. ResolveAgain(c) => OtherCallsStay(c) /\ (aiCalls'[c] = NoAiCall \/
              (GoesOn(c, "claim") /\ aiCalls'[c].model = aiCalls[c].model /\ aiCalls'[c].resolved = aiCalls[c].model))
  BY <1>6, <1>9 DEF AiCall
<1>15. EnterStart(c) => OtherCallsStay(c) /\ (aiCalls'[c] = NoAiCall \/
              (/\ GoesOn(c, "again") \/ (GoesOn(c, "claim") /\ taskModel[aiCalls[c].task] = aiCalls[c].model)
               /\ taskModel[aiCalls[c].task] # 0
               /\ aiCalls'[c].model = taskModel[aiCalls[c].task] /\ aiCalls'[c].resolved = aiCalls[c].resolved))
  BY <1>7, <1>9 DEF AiCall
<1>16. BeginTask(c) =>
              /\ OtherCallsStay(c) /\ aiCalls'[c].kind \in TaskKinds /\ aiCalls'[c].at = "resolve"
                   /\ aiCalls'[c].task \in AiTask
              /\ IF aiCalls'[c].kind = "create"
                 THEN taskModel[aiCalls'[c].task] = 0 /\ \A d \in AiRequest : aiCalls[d].task # aiCalls'[c].task
                 ELSE taskModel[aiCalls'[c].task] # 0
  BY <1>8 DEF NoAiCall
<1>. QED  BY <1>10, <1>11, <1>12, <1>13, <1>14, <1>15, <1>16

(* Nothing is known of anything at the start. *)
LEMMA AiInvInit == AiInit => AiInv
<1> SUFFICES ASSUME AiInit PROVE AiInv
  OBVIOUS
<1>1. AiTypeOK
  <2>1. NoProvider \in ProviderRow /\ NoModel \in ModelRow
    BY AiAssumption DEF NoProvider, ProviderRow, NoModel, ModelRow, AiProvider, CODEX_PROVIDER_ID
  <2>2. providers \in [AiProvider -> ProviderRow] /\ models \in [1..MaxModel -> ModelRow]
    BY <2>1 DEF AiInit
  <2>3. taskModel \in [AiTask -> 0..MaxModel] /\ runModel \in [AiTask -> 0..MaxModel]
    BY AiAssumption DEF AiInit
  <2>. QED  BY <2>2, <2>3, NoAiCallTypes DEF AiInit, AiTypeOK
<1>2. DefaultIsOwn /\ TasksHaveRows /\ RunUsesItsModel /\ LeftIsQuiet
  BY DEF AiInit, DefaultIsOwn, TasksHaveRows, RunUsesItsModel, LeftIsQuiet, NoProvider, HasRun
<1>3. \A c \in AiRequest : CallFits(c)
  BY DEF AiInit, CallFits, NoAiCall, TaskKinds
<1>4. \A c, d \in AiRequest : CreatesAlone(c, d)
  BY DEF AiInit, CreatesAlone, NoAiCall, TaskKinds
<1>. QED  BY <1>1, <1>2, <1>3, <1>4 DEF AiInv


(* What a request does to its own call keeps the types. *)
LEMMA AiCallTypes ==
  ASSUME AiTypeOK, NEW c \in AiRequest, CallFits(c),
         \/ BeginDefault(c) \/ CheckDefault(c) \/ WriteDefault(c) \/ BeginAdd(c) \/ AddAiModel(c)
         \/ BeginRefresh(c) \/ SyncCodexProvider(c) \/ BeginLogout(c) \/ LogoutCodexAccount(c)
         \/ SetCodexProviderDisabled(c) \/ RemoteFails(c)
         \/ BeginTask(c) \/ ResolveModel(c) \/ InsertTask(c) \/ WriteTaskModel(c) \/ EnterStart(c)
         \/ ResolveAgain(c) \/ ClaimRun(c)
  PROVE  aiCalls' \in [AiRequest -> AiCall]
<1>0. /\ aiCalls \in [AiRequest -> AiCall]
      /\ NoAiCall \in AiCall
      /\ taskModel \in [AiTask -> 0..MaxModel]
      /\ CODEX_PROVIDER_ID \in AiProvider
      /\ \A m \in ModelRows : m \in 0..MaxModel
      /\ \A p \in ProviderRows : p \in AiProvider
  BY NoAiCallTypes, AiAssumption DEF AiTypeOK, AiProvider, ModelRows, ProviderRows
<1>1. ASSUME NEW r \in AiCall, CallIs(c, r) PROVE aiCalls' \in [AiRequest -> AiCall]
  BY <1>0, <1>1 DEF CallIs
<1>2. aiCalls[c] \in AiCall
  BY <1>0
<1>3. CASE BeginDefault(c)
  <2>1. PICK p \in ProviderRows, m \in ModelRows :
          CallIs(c, [NoAiCall EXCEPT !.kind = "default", !.at = "check", !.provider = p, !.model = m])
    BY <1>3 DEF BeginDefault
  <2>2. [NoAiCall EXCEPT !.kind = "default", !.at = "check", !.provider = p, !.model = m] \in AiCall
    BY <1>0 DEF AiCall
  <2>. QED  BY <2>1, <2>2, <1>1
<1>4. CASE CheckDefault(c)
  BY <1>0, <1>1, <1>2, <1>4 DEF CheckDefault, MovesCall, Replied, AiCall
<1>5. ASSUME NEW p \in AiProvider, NEW N \in SUBSET ModelName, NEW k \in {"add", "refresh"}
      PROVE  AddsModels(p, N, k) \in AiCall
  BY <1>0 DEF AddsModels, AiCall
<1>6. CASE Replied(c)
  BY <1>0, <1>1, <1>6 DEF Replied
<1>7. CASE BeginAdd(c)
  BY <1>0, <1>1, <1>5, <1>7 DEF BeginAdd
<1>8. CASE AddAiModel(c)
  <2>1. CASE Replied(c)
    BY <2>1, <1>6
  <2>2. CASE ~Replied(c)
    <3>1. PICK n \in aiCalls[c].names : CallIs(c, [aiCalls[c] EXCEPT !.names = @ \ {n}])
      BY <1>8, <2>2 DEF AddAiModel
    <3>2. [aiCalls[c] EXCEPT !.names = @ \ {n}] \in AiCall
      BY <1>2 DEF AiCall
    <3>. QED  BY <3>1, <3>2, <1>1
  <2>. QED  BY <2>1, <2>2
<1>9. CASE BeginRefresh(c)
  BY <1>0, <1>1, <1>9 DEF BeginRefresh, AiCall
<1>10. CASE SyncCodexProvider(c)
  BY <1>0, <1>1, <1>5, <1>10 DEF SyncCodexProvider
<1>11. CASE BeginLogout(c)
  BY <1>0, <1>1, <1>11 DEF BeginLogout, AiCall
<1>12. CASE LogoutCodexAccount(c)
  BY <1>0, <1>1, <1>2, <1>12 DEF LogoutCodexAccount, MovesCall, Replied, AiCall
<1>13. CASE BeginTask(c)
  <2>1. PICK t \in AiTask, m \in 0..MaxModel, k \in {"create", "change", "start"} :
          CallIs(c, [NoAiCall EXCEPT !.kind = k, !.at = "resolve", !.task = t, !.model = m])
    BY <1>0, <1>13 DEF BeginTask
  <2>2. [NoAiCall EXCEPT !.kind = k, !.at = "resolve", !.task = t, !.model = m] \in AiCall
    BY <1>0 DEF AiCall
  <2>. QED  BY <2>1, <2>2, <1>1
<1>14. CASE ResolveModel(c) \/ ResolveAgain(c)
  <2>1. aiCalls[c].model \in 0..MaxModel
    BY <1>2 DEF AiCall
  <2>2. \A stage \in {"lock", "claim"} : [aiCalls[c] EXCEPT !.at = stage, !.resolved = aiCalls[c].model] \in AiCall
    BY <1>2, <2>1 DEF AiCall
  <2>. QED  BY <2>2, <1>0, <1>1, <1>14 DEF ResolveModel, ResolveAgain, Replied
<1>15. CASE EnterStart(c)
  <2>1. CASE Replied(c)
    BY <2>1, <1>6
  <2>2. CASE ~Replied(c)
    <3>1. PICK stage \in {"again", "claim"} :
            /\ CallIs(c, [aiCalls[c] EXCEPT !.at = stage, !.model = taskModel[aiCalls[c].task]])
            /\ taskModel[aiCalls[c].task] \in 0..MaxModel
      BY <1>15, <2>2, <1>0 DEF EnterStart, Stands, CallFits, TaskKinds
    <3>2. [aiCalls[c] EXCEPT !.at = stage, !.model = taskModel[aiCalls[c].task]] \in AiCall
      BY <1>2, <3>1 DEF AiCall
    <3>. QED  BY <3>1, <3>2, <1>1
  <2>. QED  BY <2>1, <2>2
<1>. QED
  BY <1>3, <1>4, <1>6, <1>7, <1>8, <1>9, <1>10, <1>11, <1>12, <1>13, <1>14, <1>15
     DEF WriteDefault, SetCodexProviderDisabled, RemoteFails, InsertTask, WriteTaskModel, ClaimRun

(* A step keeps the types of the rest. *)
LEMMA AiRowTypes ==
  ASSUME AiTypeOK, AiNext, \A c \in AiRequest : CallFits(c)
  PROVE  AiTypeOK'
<1> USE DEF RowsKept, TasksKept, AccountKept
<1>0. /\ providers \in [AiProvider -> ProviderRow]
      /\ models \in [1..MaxModel -> ModelRow]
      /\ taskModel \in [AiTask -> 0..MaxModel]
      /\ runModel \in [AiTask -> 0..MaxModel]
      /\ signedIn \in BOOLEAN /\ left \in BOOLEAN
      /\ CODEX_PROVIDER_ID \in AiProvider
      /\ NoProvider \in ProviderRow /\ NoModel \in ModelRow
  BY AiAssumption DEF AiTypeOK, AiProvider, NoProvider, ProviderRow, NoModel, ModelRow, CODEX_PROVIDER_ID
<1>1. aiCalls' \in [AiRequest -> AiCall]
  BY AiCallTypes DEF AiNext, CreateAiProvider, EditProvider, DeleteAiProvider, UpdateAiModel, DeleteAiModel, SignsIn,
     RunIsOver, DeleteTask, AiTypeOK
<1>2. providers' \in [AiProvider -> ProviderRow]
  <2>1. CASE CreateAiProvider
    BY <2>1, <1>0, AiAssumption DEF CreateAiProvider, ProviderRow, AiProvider
  <2>2. CASE EditProvider
    BY <2>2, <1>0 DEF EditProvider, ProviderRow
  <2>3. ASSUME NEW c \in AiRequest, WriteDefault(c) PROVE providers' \in [AiProvider -> ProviderRow]
    <3>1. providers' \in {providers, [providers EXCEPT ![aiCalls[c].provider].default = aiCalls[c].model]}
      BY <2>3 DEF WriteDefault
    <3>2. aiCalls[c].model \in 0..MaxModel
      BY DEF AiTypeOK, AiCall
    <3>3. [providers EXCEPT ![aiCalls[c].provider].default = aiCalls[c].model] \in [AiProvider -> ProviderRow]
      BY <3>2, <1>0 DEF ProviderRow
    <3>. QED  BY <1>0, <3>1, <3>3
  <2>4. CASE DeleteAiProvider
    <3>1. PICK p \in AiProvider : providers' = [providers EXCEPT ![p] = [NoProvider EXCEPT !.st = "deleted"]]
      BY <2>4 DEF DeleteAiProvider, ProviderRows
    <3>2. [NoProvider EXCEPT !.st = "deleted"] \in ProviderRow
      BY <1>0 DEF ProviderRow
    <3>. QED  BY <1>0, <3>1, <3>2
  <2>5. CASE DeleteAiModel
    <3>1. PICK m \in ModelRows : providers' = [p \in AiProvider |-> IF providers[p].default = m
                 THEN [providers[p] EXCEPT !.default = 0] ELSE providers[p]]
      BY <2>5 DEF DeleteAiModel
    <3>2. \A p \in AiProvider : [providers[p] EXCEPT !.default = 0] \in ProviderRow
      <4>1. 0 \in 0..MaxModel
        BY AiAssumption
      <4>. QED  BY <4>1, <1>0 DEF ProviderRow
    <3>. QED  BY <1>0, <3>1, <3>2
  <2>6. ASSUME NEW c \in AiRequest, SyncCodexProvider(c) PROVE providers' \in [AiProvider -> ProviderRow]
    BY <2>6, <1>0 DEF SyncCodexProvider, ProviderRow
  <2>7. ASSUME NEW c \in AiRequest, SetCodexProviderDisabled(c) PROVE providers' \in [AiProvider -> ProviderRow]
    BY <2>7, <1>0 DEF SetCodexProviderDisabled, ProviderRow
  <2>8. CASE UNCHANGED providers
    BY <2>8, <1>0
  <2>. QED
    BY <2>1, <2>2, <2>3, <2>4, <2>5, <2>6, <2>7, <2>8 DEF AiNext, UpdateAiModel, SignsIn, RunIsOver, DeleteTask,
       BeginDefault, CheckDefault, BeginAdd, AddAiModel, BeginRefresh, BeginLogout, LogoutCodexAccount, RemoteFails,
       BeginTask, ResolveModel, InsertTask, WriteTaskModel, EnterStart, ResolveAgain, ClaimRun
<1>3. models' \in [1..MaxModel -> ModelRow]
  <2>1. CASE DeleteAiProvider
    <3>1. PICK p \in AiProvider : models' = [m \in 1..MaxModel |-> IF m \in ModelsOf(p)
                 THEN [NoModel EXCEPT !.st = "deleted"] ELSE models[m]]
      BY <2>1 DEF DeleteAiProvider, ProviderRows
    <3>2. [NoModel EXCEPT !.st = "deleted"] \in ModelRow
      BY <1>0 DEF ModelRow
    <3>. QED  BY <1>0, <3>1, <3>2
  <2>2. CASE DeleteAiModel
    <3>1. PICK m \in ModelRows : models' = [models EXCEPT ![m] = [NoModel EXCEPT !.st = "deleted"]]
      BY <2>2 DEF DeleteAiModel
    <3>2. [NoModel EXCEPT !.st = "deleted"] \in ModelRow
      BY <1>0 DEF ModelRow
    <3>. QED  BY <1>0, <3>1, <3>2
  <2>3. CASE UpdateAiModel
    <3>1. PICK m \in 1..MaxModel, e \in BOOLEAN : models' = [models EXCEPT ![m].enabled = e]
      BY <2>3 DEF UpdateAiModel, ModelRows
    <3>. QED  BY <1>0, <3>1 DEF ModelRow
  <2>4. ASSUME NEW c \in AiRequest, AddAiModel(c) PROVE models' \in [1..MaxModel -> ModelRow]
    <3>1. CASE UNCHANGED models
      BY <3>1, <1>0
    <3>2. CASE models' # models
      <4>1. PICK n \in aiCalls[c].names : InsertModel(aiCalls[c].provider, n)
        BY <2>4, <3>2 DEF AddAiModel
      <4>2. aiCalls[c].provider \in AiProvider /\ n \in ModelName
        BY DEF AiTypeOK, AiCall
      <4>3. \A m \in 1..MaxModel : [models[m] EXCEPT !.enabled = TRUE] \in ModelRow
        BY <1>0 DEF ModelRow
      <4>4. [st |-> "row", provider |-> aiCalls[c].provider, name |-> n, enabled |-> TRUE] \in ModelRow
        BY <4>2 DEF ModelRow
      <4>. QED  BY <4>1, <4>3, <4>4, <1>0 DEF InsertModel
    <3>. QED  BY <3>1, <3>2
  <2>5. CASE UNCHANGED models
    BY <2>5, <1>0
  <2>. QED
    BY <2>1, <2>2, <2>3, <2>4, <2>5 DEF AiNext, CreateAiProvider, EditProvider, SignsIn, RunIsOver, DeleteTask,
       BeginDefault, CheckDefault, WriteDefault, BeginAdd, BeginRefresh, SyncCodexProvider, BeginLogout,
       LogoutCodexAccount,
       SetCodexProviderDisabled, RemoteFails, BeginTask, ResolveModel, InsertTask, WriteTaskModel, EnterStart,
       ResolveAgain, ClaimRun
<1>4. taskModel' \in [AiTask -> 0..MaxModel] /\ runModel' \in [AiTask -> 0..MaxModel]
  <2>1. \A c \in AiRequest : aiCalls[c].model \in 0..MaxModel /\ aiCalls[c].resolved \in 0..MaxModel
    BY DEF AiTypeOK, AiCall
  <2>2. ASSUME NEW c \in AiRequest, InsertTask(c) PROVE taskModel' \in [AiTask -> 0..MaxModel] /\ UNCHANGED runModel
    BY <2>2, <2>1, <1>0 DEF InsertTask
  <2>3. ASSUME NEW c \in AiRequest, WriteTaskModel(c)
                 PROVE taskModel' \in [AiTask -> 0..MaxModel] /\ UNCHANGED runModel
    BY <2>3, <2>1, <1>0 DEF WriteTaskModel
  <2>4. ASSUME NEW c \in AiRequest, ClaimRun(c) PROVE runModel' \in [AiTask -> 0..MaxModel] /\ UNCHANGED taskModel
    BY <2>4, <2>1, <1>0 DEF ClaimRun
  <2>5. CASE RunIsOver \/ DeleteTask
    BY <2>5, <1>0, AiAssumption DEF RunIsOver, DeleteTask
  <2>6. CASE UNCHANGED <<taskModel, runModel>>
    BY <2>6, <1>0
  <2>. QED
    BY <1>0, <2>2, <2>3, <2>4, <2>5, <2>6 DEF AiNext, CreateAiProvider, EditProvider, DeleteAiProvider, UpdateAiModel,
       DeleteAiModel, SignsIn, BeginDefault, CheckDefault, WriteDefault, BeginAdd, AddAiModel, BeginRefresh,
       SyncCodexProvider, BeginLogout, LogoutCodexAccount, SetCodexProviderDisabled, RemoteFails, BeginTask, ResolveModel,
       EnterStart, ResolveAgain
<1>5. signedIn' \in BOOLEAN /\ left' \in BOOLEAN
  <2>1. CASE SignsIn
    BY <2>1 DEF SignsIn
  <2>2. ASSUME NEW c \in AiRequest, LogoutCodexAccount(c) PROVE signedIn' \in BOOLEAN /\ left' \in BOOLEAN
    BY <2>2, <1>0 DEF LogoutCodexAccount
  <2>3. ASSUME NEW c \in AiRequest, SetCodexProviderDisabled(c) PROVE signedIn' \in BOOLEAN /\ left' \in BOOLEAN
    BY <2>3, <1>0 DEF SetCodexProviderDisabled
  <2>4. CASE UNCHANGED <<signedIn, left>>
    BY <2>4, <1>0
  <2>. QED
    BY <2>1, <2>2, <2>3, <2>4 DEF AiNext, CreateAiProvider, EditProvider, DeleteAiProvider, UpdateAiModel,
       DeleteAiModel, RunIsOver, DeleteTask, BeginDefault, CheckDefault, WriteDefault, BeginAdd, AddAiModel,
       BeginRefresh,
       SyncCodexProvider, BeginLogout, RemoteFails, BeginTask, ResolveModel, InsertTask, WriteTaskModel, EnterStart,
       ResolveAgain, ClaimRun
<1>. QED  BY <1>1, <1>2, <1>3, <1>4, <1>5 DEF AiTypeOK

(* The model that is added takes an unused row; the rows there are stay as they are, but may be enabled. *)
LEMMA InsertModelKeeps ==
  ASSUME models \in [1..MaxModel -> ModelRow], NEW p, NEW n, InsertModel(p, n),
         NEW m \in 1..MaxModel, models[m].st # "unused"
  PROVE  models'[m].st = models[m].st /\ models'[m].provider = models[m].provider
<1>1. LET v == [models[m] EXCEPT !.enabled = TRUE] IN v.st = models[m].st /\ v.provider = models[m].provider
  BY DEF ModelRow
<1>2. models'[m] \in {models[m], [models[m] EXCEPT !.enabled = TRUE]}
  BY DEF InsertModel
<1>. QED  BY <1>1, <1>2

(* What the rows promise: a default is of its own provider, and a task and its run name a row. *)
LEMMA AiRows ==
  ASSUME AiTypeOK, AiNext, DefaultIsOwn, TasksHaveRows, RunUsesItsModel, \A c \in AiRequest : CallFits(c)
  PROVE  DefaultIsOwn' /\ TasksHaveRows' /\ RunUsesItsModel'
<1> DEFINE Rows == DefaultIsOwn /\ TasksHaveRows /\ RunUsesItsModel
<1> USE DEF DefaultIsOwn, TasksHaveRows, RunUsesItsModel, HasRun, ModelsOf, ModelRows, RowsKept, TasksKept,
  AccountKept
<1>0. /\ providers \in [AiProvider -> ProviderRow]
      /\ models \in [1..MaxModel -> ModelRow]
      /\ taskModel \in [AiTask -> 0..MaxModel]
      /\ runModel \in [AiTask -> 0..MaxModel]
  BY DEF AiTypeOK
<1>1. CASE CreateAiProvider
  BY <1>0, <1>1 DEF CreateAiProvider, ProviderRow, AiProvider
<1>2. CASE EditProvider
  BY <1>0, <1>2 DEF EditProvider, ProviderRow
<1>3. CASE DeleteAiProvider
  BY <1>0, <1>3 DEF DeleteAiProvider, ProviderRows, UsedByTasks, NoProvider, NoModel, ModelRow, ProviderRow
<1>4. CASE UpdateAiModel
  BY <1>0, <1>4 DEF UpdateAiModel, ModelRow
<1>5. CASE DeleteAiModel
  BY <1>0, <1>5 DEF DeleteAiModel, UsedByTasks, NoModel, ModelRow, ProviderRow
<1>6. CASE SignsIn
  BY <1>6 DEF SignsIn
<1>7. CASE RunIsOver
  BY <1>0, <1>7 DEF RunIsOver
<1>8. CASE DeleteTask
  BY <1>0, <1>8 DEF DeleteTask
<1>9. ASSUME NEW c \in AiRequest, WriteDefault(c) PROVE Rows'
  <2>1. CallFits(c) /\ aiCalls[c].at = "write"
    BY <1>9 DEF WriteDefault, Stands
  <2>. QED  BY <1>0, <1>9, <2>1 DEF WriteDefault, CallFits, ProviderRow, ProviderRows
<1>10. ASSUME NEW c \in AiRequest, AddAiModel(c) PROVE Rows'
  <2>1. CASE UNCHANGED models
    BY <1>10, <2>1 DEF AddAiModel
  <2>2. CASE models' # models
    <3>1. PICK n \in aiCalls[c].names : InsertModel(aiCalls[c].provider, n)
      BY <1>10, <2>2 DEF AddAiModel
    <3>2. \A m \in 1..MaxModel : models[m].st = "row" => models'[m].st = "row"
            /\ models'[m].provider = models[m].provider
      BY <1>0, <3>1, InsertModelKeeps
    <3>. QED  BY <1>0, <1>10, <3>2 DEF AddAiModel
  <2>. QED  BY <2>1, <2>2
<1>11. ASSUME NEW c \in AiRequest, SyncCodexProvider(c) PROVE Rows'
  BY <1>0, <1>11 DEF SyncCodexProvider, ProviderRow
<1>12. ASSUME NEW c \in AiRequest, SetCodexProviderDisabled(c) PROVE Rows'
  BY <1>0, <1>12 DEF SetCodexProviderDisabled, ProviderRow
<1>13. ASSUME NEW c \in AiRequest, InsertTask(c) PROVE Rows'
  <2>1. CallFits(c) /\ aiCalls[c].kind = "create"
    BY <1>13 DEF InsertTask, Stands
  <2>. QED  BY <1>0, <1>13, <2>1 DEF InsertTask, CallFits, TaskKinds
<1>14. ASSUME NEW c \in AiRequest, WriteTaskModel(c) PROVE Rows'
  BY <1>0, <1>14 DEF WriteTaskModel
<1>15. ASSUME NEW c \in AiRequest, ClaimRun(c) PROVE Rows'
  <2>1. CallFits(c) /\ aiCalls[c].at = "claim"
    BY <1>15 DEF ClaimRun, Stands
  <2>. QED  BY <1>0, <1>15, <2>1 DEF ClaimRun, CallFits
<1>16. CASE UNCHANGED <<providers, models, taskModel, runModel>>
  BY <1>16
<1>. QED
  BY <1>1, <1>2, <1>3, <1>4, <1>5, <1>6, <1>7, <1>8, <1>9, <1>10, <1>11, <1>12, <1>13, <1>14, <1>15, <1>16
     DEF AiNext, BeginDefault, CheckDefault, BeginAdd, BeginRefresh, BeginLogout, LogoutCodexAccount, RemoteFails,
         BeginTask, ResolveModel, EnterStart, ResolveAgain

(* Once the account was left, nothing enables its provider before somebody signs in. *)
LEMMA AiLeft ==
  ASSUME AiTypeOK, AiNext, LeftIsQuiet
  PROVE  LeftIsQuiet'
<1> USE DEF LeftIsQuiet, Enabling, Stands, RowsKept, TasksKept, AccountKept, CallIs, MovesCall, Replied
<1>0. /\ providers \in [AiProvider -> ProviderRow]
      /\ aiCalls \in [AiRequest -> AiCall]
      /\ CODEX_PROVIDER_ID \in AiProvider
      /\ \A p \in ApiProvider : p # CODEX_PROVIDER_ID
  BY AiAssumption DEF AiTypeOK, AiProvider, CODEX_PROVIDER_ID
<1>1. CASE CreateAiProvider
  BY <1>0, <1>1 DEF CreateAiProvider
<1>2. CASE EditProvider
  BY <1>0, <1>2 DEF EditProvider, ProviderRow
<1>3. CASE DeleteAiProvider
  BY <1>0, <1>3 DEF DeleteAiProvider
<1>4. CASE UpdateAiModel
  BY <1>4 DEF UpdateAiModel
<1>5. CASE DeleteAiModel
  BY <1>0, <1>5 DEF DeleteAiModel, ProviderRow
<1>6. CASE SignsIn
  BY <1>6 DEF SignsIn
<1>7. CASE RunIsOver \/ DeleteTask
  BY <1>7 DEF RunIsOver, DeleteTask
<1>8. ASSUME NEW c \in AiRequest, BeginDefault(c) PROVE LeftIsQuiet'
  BY <1>0, <1>8 DEF BeginDefault, NoAiCall, AiCall
<1>9. ASSUME NEW c \in AiRequest, CheckDefault(c) PROVE LeftIsQuiet'
  BY AiMoves, <1>0, <1>9 DEF OtherCallsStay, GoesOn, CheckDefault, NoAiCall
<1>10. ASSUME NEW c \in AiRequest, WriteDefault(c) PROVE LeftIsQuiet'
  BY <1>0, <1>10 DEF WriteDefault, NoAiCall, ProviderRow
<1>11. ASSUME NEW c \in AiRequest, BeginAdd(c) PROVE LeftIsQuiet'
  BY <1>0, <1>11 DEF BeginAdd, AddsModels, NoAiCall, AiCall
<1>12. ASSUME NEW c \in AiRequest, AddAiModel(c) PROVE LeftIsQuiet'
  BY <1>0, <1>12 DEF AddAiModel, NoAiCall, AiCall
<1>13. ASSUME NEW c \in AiRequest, BeginRefresh(c) PROVE LeftIsQuiet'
  BY <1>0, <1>13 DEF BeginRefresh, NoAiCall
<1>14. ASSUME NEW c \in AiRequest, SyncCodexProvider(c) PROVE LeftIsQuiet'
  BY <1>0, <1>14 DEF SyncCodexProvider, AddsModels, NoAiCall
<1>15. ASSUME NEW c \in AiRequest, BeginLogout(c) PROVE LeftIsQuiet'
  BY <1>0, <1>15 DEF BeginLogout, NoAiCall
<1>16. ASSUME NEW c \in AiRequest, LogoutCodexAccount(c) PROVE LeftIsQuiet'
  <2>1. OtherCallsStay(c) /\ (aiCalls'[c] = NoAiCall \/ GoesOn(c, "disable"))
    BY <1>16, AiMoves
  <2>2. UNCHANGED <<providers, models, taskModel, left>> /\ (signedIn' = signedIn \/ signedIn' = FALSE)
          /\ aiCalls[c].at = "out"
    BY <1>16 DEF LogoutCodexAccount, Stands, RowsKept, TasksKept, AccountKept
  <2>3. CASE signedIn' = FALSE
    BY <1>0, <2>1, <2>2, <2>3 DEF OtherCallsStay, GoesOn, LeftIsQuiet, Enabling, Stands, NoAiCall
  <2>4. CASE signedIn' = signedIn
    BY <1>0, <2>1, <2>2, <2>4 DEF OtherCallsStay, GoesOn, LeftIsQuiet, Enabling, Stands, NoAiCall
  <2>. QED  BY <2>2, <2>3, <2>4
<1>17. ASSUME NEW c \in AiRequest, SetCodexProviderDisabled(c) PROVE LeftIsQuiet'
  BY <1>0, <1>17 DEF SetCodexProviderDisabled, NoAiCall, ProviderRow
<1>18. ASSUME NEW c \in AiRequest, RemoteFails(c) PROVE LeftIsQuiet'
  BY <1>0, <1>18 DEF RemoteFails, NoAiCall
<1>19. ASSUME NEW c \in AiRequest, BeginTask(c) PROVE LeftIsQuiet'
  BY <1>0, <1>19 DEF BeginTask, NoAiCall
<1>20. ASSUME NEW c \in AiRequest, ResolveModel(c) PROVE LeftIsQuiet'
  <2>1. /\ OtherCallsStay(c)
        /\ \/ aiCalls'[c] = NoAiCall
           \/ GoesOn(c, "lock") /\ aiCalls'[c].model = aiCalls[c].model /\ aiCalls'[c].resolved = aiCalls[c].model
    BY <1>20, AiMoves
  <2>2. UNCHANGED <<providers, models, taskModel, left, signedIn>> /\ aiCalls[c].at = "resolve"
    BY <1>20 DEF ResolveModel, Stands, RowsKept, TasksKept, AccountKept
  <2>. QED  BY <1>0, <2>1, <2>2 DEF OtherCallsStay, GoesOn, LeftIsQuiet, Enabling, Stands, NoAiCall
<1>21. ASSUME NEW c \in AiRequest, InsertTask(c) PROVE LeftIsQuiet'
  BY <1>0, <1>21 DEF InsertTask, NoAiCall
<1>22. ASSUME NEW c \in AiRequest, WriteTaskModel(c) PROVE LeftIsQuiet'
  BY <1>0, <1>22 DEF WriteTaskModel, NoAiCall
<1>23. ASSUME NEW c \in AiRequest, EnterStart(c) PROVE LeftIsQuiet'
  <2>1. /\ OtherCallsStay(c)
        /\ \/ aiCalls'[c] = NoAiCall
           \/ /\ GoesOn(c, "again") \/ (GoesOn(c, "claim") /\ taskModel[aiCalls[c].task] = aiCalls[c].model)
              /\ taskModel[aiCalls[c].task] # 0
              /\ aiCalls'[c].model = taskModel[aiCalls[c].task] /\ aiCalls'[c].resolved = aiCalls[c].resolved
    BY <1>23, AiMoves
  <2>2. UNCHANGED <<providers, models, taskModel, left, signedIn>> /\ aiCalls[c].at = "lock"
          /\ aiCalls[c].kind = "start"
    BY <1>23 DEF EnterStart, Stands, RowsKept, TasksKept, AccountKept
  <2>. QED  BY <1>0, <2>1, <2>2 DEF OtherCallsStay, GoesOn, LeftIsQuiet, Enabling, Stands, NoAiCall
<1>24. ASSUME NEW c \in AiRequest, ResolveAgain(c) PROVE LeftIsQuiet'
  <2>1. /\ OtherCallsStay(c)
        /\ \/ aiCalls'[c] = NoAiCall
           \/ GoesOn(c, "claim") /\ aiCalls'[c].model = aiCalls[c].model /\ aiCalls'[c].resolved = aiCalls[c].model
    BY <1>24, AiMoves
  <2>2. UNCHANGED <<providers, models, taskModel, left, signedIn>> /\ aiCalls[c].at = "again"
    BY <1>24 DEF ResolveAgain, Stands, RowsKept, TasksKept, AccountKept
  <2>. QED  BY <1>0, <2>1, <2>2 DEF OtherCallsStay, GoesOn, LeftIsQuiet, Enabling, Stands, NoAiCall
<1>25. ASSUME NEW c \in AiRequest, ClaimRun(c) PROVE LeftIsQuiet'
  BY <1>0, <1>25 DEF ClaimRun, NoAiCall
<1>. QED
  BY <1>1, <1>2, <1>3, <1>4, <1>5, <1>6, <1>7, <1>8, <1>9, <1>10, <1>11, <1>12, <1>13, <1>14, <1>15, <1>16, <1>17,
     <1>18, <1>19, <1>20, <1>21,
     <1>22, <1>23, <1>24, <1>25 DEF AiNext

(* A step keeps what each request knows. *)
LEMMA AiCallFits ==
  ASSUME AiTypeOK, AiNext, TasksHaveRows, \A c \in AiRequest : CallFits(c),
         \A c, d \in AiRequest : CreatesAlone(c, d), NEW d \in AiRequest
  PROVE  CallFits(d)'
<1> USE DEF CallIs, MovesCall, Replied, Stands, FreeCall, RowsKept, TasksKept, AccountKept
<1>0. /\ models \in [1..MaxModel -> ModelRow]
      /\ taskModel \in [AiTask -> 0..MaxModel]
      /\ aiCalls \in [AiRequest -> AiCall]
      /\ CallFits(d)
  BY DEF AiTypeOK
(* Rows of models are never made again, and never change hands. *)
<1>1. CASE /\ UNCHANGED <<aiCalls, taskModel>>
           /\ \A m \in 1..MaxModel : models[m].st # "unused" =>
                /\ models'[m].st # "unused"
                /\ models'[m].provider = models[m].provider \/ models'[m].st = "deleted"
                /\ models[m].st = "deleted" => models'[m].st = "deleted"
  BY <1>0, <1>1 DEF CallFits
<1>2. CASE CreateAiProvider \/ EditProvider \/ SignsIn \/ RunIsOver
  BY <1>1, <1>2 DEF CreateAiProvider, EditProvider, SignsIn, RunIsOver
<1>3. CASE DeleteAiProvider
  BY <1>0, <1>1, <1>3 DEF DeleteAiProvider, NoModel, ModelRow, ModelsOf, ModelRows
<1>4. CASE UpdateAiModel
  BY <1>0, <1>1, <1>4 DEF UpdateAiModel, ModelRow
<1>5. CASE DeleteAiModel
  BY <1>0, <1>1, <1>5 DEF DeleteAiModel, NoModel, ModelRow
<1>6. CASE DeleteTask
  BY <1>0, <1>6 DEF DeleteTask, CallFits, InsideLock, TaskKinds
<1>7. ASSUME NEW c \in AiRequest, AddAiModel(c), CallFits(c) PROVE CallFits(d)'
  <2>1. \A m \in 1..MaxModel : models[m].st # "unused" =>
           /\ models'[m].st # "unused"
           /\ models'[m].provider = models[m].provider
           /\ models[m].st = "deleted" => models'[m].st = "deleted"
    <3>1. CASE UNCHANGED models
      BY <3>1
    <3>2. CASE models' # models
      <4>1. PICK n \in aiCalls[c].names : InsertModel(aiCalls[c].provider, n)
        BY <1>7, <3>2 DEF AddAiModel
      <4>. QED  BY <4>1, <1>0, InsertModelKeeps
    <3>. QED  BY <3>1, <3>2
  <2>2. OtherCallsStay(c) /\ (aiCalls'[c] = NoAiCall \/ GoesOn(c, "add")) /\ UNCHANGED taskModel
          /\ aiCalls[c].at = "add"
    BY <1>7, AiMoves DEF AddAiModel
  <2>. QED  BY <1>0, <1>7, <2>1, <2>2 DEF OtherCallsStay, GoesOn, CallFits, NoAiCall, TaskKinds
<1>8. ASSUME NEW c \in AiRequest, InsertTask(c), CallFits(c), CreatesAlone(c, d) PROVE CallFits(d)'
  BY <1>0, <1>8 DEF InsertTask, CallFits, NoAiCall, TaskKinds, CreatesAlone
<1>9. ASSUME NEW c \in AiRequest, WriteTaskModel(c), CallFits(c) PROVE CallFits(d)'
  BY <1>0, <1>9 DEF WriteTaskModel, InsideLock, CallFits, NoAiCall, TaskKinds
<1>10. ASSUME NEW c \in AiRequest, BeginDefault(c), CallFits(c) PROVE CallFits(d)'
  BY <1>0, <1>10 DEF BeginDefault, ModelRows, ModelRow, CallFits, NoAiCall, TaskKinds
<1>11. ASSUME NEW c \in AiRequest, CheckDefault(c), CallFits(c) PROVE CallFits(d)'
  BY AiMoves, <1>0, <1>11 DEF OtherCallsStay, GoesOn, CheckDefault, ModelsOf, ModelRows, ModelRow, CallFits, NoAiCall,
     TaskKinds
<1>12. ASSUME NEW c \in AiRequest, WriteDefault(c), CallFits(c) PROVE CallFits(d)'
  BY <1>0, <1>12 DEF WriteDefault, CallFits, NoAiCall, TaskKinds
<1>13. ASSUME NEW c \in AiRequest, BeginAdd(c), CallFits(c) PROVE CallFits(d)'
  BY <1>0, <1>13 DEF BeginAdd, AddsModels, AiCall, CallFits, NoAiCall, TaskKinds
<1>14. ASSUME NEW c \in AiRequest, BeginRefresh(c), CallFits(c) PROVE CallFits(d)'
  BY <1>0, <1>14 DEF BeginRefresh, CallFits, NoAiCall, TaskKinds
<1>15. ASSUME NEW c \in AiRequest, SyncCodexProvider(c), CallFits(c) PROVE CallFits(d)'
  BY <1>0, <1>15 DEF SyncCodexProvider, AddsModels, CallFits, NoAiCall, TaskKinds
<1>16. ASSUME NEW c \in AiRequest, BeginLogout(c), CallFits(c) PROVE CallFits(d)'
  BY <1>0, <1>16 DEF BeginLogout, CallFits, NoAiCall, TaskKinds
<1>17. ASSUME NEW c \in AiRequest, LogoutCodexAccount(c), CallFits(c) PROVE CallFits(d)'
  <2>1. OtherCallsStay(c) /\ (aiCalls'[c] = NoAiCall \/ GoesOn(c, "disable"))
    BY <1>17, AiMoves
  <2>2. UNCHANGED <<providers, models, taskModel, left>> /\ (signedIn' = signedIn \/ signedIn' = FALSE)
          /\ aiCalls[c].at = "out"
    BY <1>17 DEF LogoutCodexAccount, Stands, RowsKept, TasksKept, AccountKept
  <2>. QED  BY <1>0, <1>17, <2>1, <2>2 DEF OtherCallsStay, GoesOn, CallFits, NoAiCall, TaskKinds
<1>18. ASSUME NEW c \in AiRequest, SetCodexProviderDisabled(c), CallFits(c) PROVE CallFits(d)'
  BY <1>0, <1>18 DEF SetCodexProviderDisabled, CallFits, NoAiCall, TaskKinds
<1>19. ASSUME NEW c \in AiRequest, RemoteFails(c), CallFits(c) PROVE CallFits(d)'
  BY <1>0, <1>19 DEF RemoteFails, CallFits, NoAiCall, TaskKinds
<1>20. ASSUME NEW c \in AiRequest, BeginTask(c), CallFits(c) PROVE CallFits(d)'
  <2>1. /\ OtherCallsStay(c) /\ aiCalls'[c].kind \in TaskKinds /\ aiCalls'[c].at = "resolve"
             /\ aiCalls'[c].task \in AiTask
        /\ IF aiCalls'[c].kind = "create"
           THEN taskModel[aiCalls'[c].task] = 0 /\ \A e \in AiRequest : aiCalls[e].task # aiCalls'[c].task
           ELSE taskModel[aiCalls'[c].task] # 0
    BY <1>20, AiMoves
  <2>2. UNCHANGED <<providers, models, taskModel, left, signedIn>>
    BY <1>20 DEF BeginTask, Stands, RowsKept, TasksKept, AccountKept
  <2>. QED  BY <1>0, <1>20, <2>1, <2>2 DEF OtherCallsStay, GoesOn, CallFits, NoAiCall, TaskKinds
<1>21. ASSUME NEW c \in AiRequest, ResolveModel(c), CallFits(c) PROVE CallFits(d)'
  <2>1. /\ OtherCallsStay(c)
        /\ \/ aiCalls'[c] = NoAiCall
           \/ GoesOn(c, "lock") /\ aiCalls'[c].model = aiCalls[c].model /\ aiCalls'[c].resolved = aiCalls[c].model
    BY <1>21, AiMoves
  <2>2. UNCHANGED <<providers, models, taskModel, left, signedIn>> /\ aiCalls[c].at = "resolve"
    BY <1>21 DEF ResolveModel, Stands, RowsKept, TasksKept, AccountKept
  <2>. QED  BY <1>0, <1>21, <2>1, <2>2 DEF OtherCallsStay, GoesOn, CallFits, NoAiCall, TaskKinds
<1>22. ASSUME NEW c \in AiRequest, EnterStart(c), CallFits(c) PROVE CallFits(d)'
  <2>1. /\ OtherCallsStay(c)
        /\ \/ aiCalls'[c] = NoAiCall
           \/ /\ GoesOn(c, "again") \/ (GoesOn(c, "claim") /\ taskModel[aiCalls[c].task] = aiCalls[c].model)
              /\ taskModel[aiCalls[c].task] # 0
              /\ aiCalls'[c].model = taskModel[aiCalls[c].task] /\ aiCalls'[c].resolved = aiCalls[c].resolved
    BY <1>22, AiMoves
  <2>2. UNCHANGED <<providers, models, taskModel, left, signedIn>> /\ aiCalls[c].at = "lock"
          /\ aiCalls[c].kind = "start"
    BY <1>22 DEF EnterStart, Stands, RowsKept, TasksKept, AccountKept
  <2>. QED  BY <1>0, <1>22, <2>1, <2>2 DEF OtherCallsStay, GoesOn, CallFits, NoAiCall, TaskKinds
<1>23. ASSUME NEW c \in AiRequest, ResolveAgain(c), CallFits(c) PROVE CallFits(d)'
  <2>1. /\ OtherCallsStay(c)
        /\ \/ aiCalls'[c] = NoAiCall
           \/ GoesOn(c, "claim") /\ aiCalls'[c].model = aiCalls[c].model /\ aiCalls'[c].resolved = aiCalls[c].model
    BY <1>23, AiMoves
  <2>2. UNCHANGED <<providers, models, taskModel, left, signedIn>> /\ aiCalls[c].at = "again"
    BY <1>23 DEF ResolveAgain, Stands, RowsKept, TasksKept, AccountKept
  <2>. QED  BY <1>0, <1>23, <2>1, <2>2 DEF OtherCallsStay, GoesOn, CallFits, NoAiCall, TaskKinds
<1>24. ASSUME NEW c \in AiRequest, ClaimRun(c), CallFits(c) PROVE CallFits(d)'
  BY <1>0, <1>24 DEF ClaimRun, CallFits, NoAiCall, TaskKinds
<1>. QED
  BY <1>2, <1>3, <1>4, <1>5, <1>6, <1>7, <1>8, <1>9, <1>10, <1>11, <1>12, <1>13, <1>14, <1>15, <1>16, <1>17, <1>18,
     <1>19, <1>20, <1>21, <1>22, <1>23,
     <1>24 DEF AiNext

(* A task that is being created has nobody else. *)
LEMMA AiCreates ==
  ASSUME AiTypeOK, AiNext, \A c \in AiRequest : CallFits(c),
         NEW d \in AiRequest, NEW e \in AiRequest, CreatesAlone(d, e)
  PROVE  CreatesAlone(d, e)'
<1> USE DEF CallIs, MovesCall, Replied, Stands, FreeCall, RowsKept, TasksKept, AccountKept, CreatesAlone, TaskKinds
<1>0. /\ aiCalls \in [AiRequest -> AiCall]
      /\ CallFits(d) /\ CallFits(e)
  BY DEF AiTypeOK
<1>1. CASE UNCHANGED aiCalls
  BY <1>1
<1>2. ASSUME NEW c \in AiRequest, BeginDefault(c) PROVE CreatesAlone(d, e)'
  BY <1>0, <1>2 DEF BeginDefault, NoAiCall
<1>3. ASSUME NEW c \in AiRequest, CheckDefault(c) PROVE CreatesAlone(d, e)'
  BY AiMoves, <1>0, <1>3 DEF OtherCallsStay, GoesOn, CheckDefault, NoAiCall
<1>4. ASSUME NEW c \in AiRequest, WriteDefault(c) PROVE CreatesAlone(d, e)'
  BY <1>0, <1>4 DEF WriteDefault, NoAiCall
<1>5. ASSUME NEW c \in AiRequest, BeginAdd(c) PROVE CreatesAlone(d, e)'
  BY <1>0, <1>5 DEF BeginAdd, AddsModels, NoAiCall
<1>6. ASSUME NEW c \in AiRequest, AddAiModel(c) PROVE CreatesAlone(d, e)'
  BY <1>0, <1>6 DEF AddAiModel, NoAiCall, AiCall
<1>7. ASSUME NEW c \in AiRequest, BeginRefresh(c) PROVE CreatesAlone(d, e)'
  BY <1>0, <1>7 DEF BeginRefresh, NoAiCall
<1>8. ASSUME NEW c \in AiRequest, SyncCodexProvider(c) PROVE CreatesAlone(d, e)'
  BY <1>0, <1>8 DEF SyncCodexProvider, AddsModels, NoAiCall
<1>9. ASSUME NEW c \in AiRequest, BeginLogout(c) PROVE CreatesAlone(d, e)'
  BY <1>0, <1>9 DEF BeginLogout, NoAiCall
<1>10. ASSUME NEW c \in AiRequest, LogoutCodexAccount(c) PROVE CreatesAlone(d, e)'
  <2>1. OtherCallsStay(c) /\ (aiCalls'[c] = NoAiCall \/ GoesOn(c, "disable"))
    BY <1>10, AiMoves
  <2>2. UNCHANGED <<providers, models, taskModel, left>> /\ (signedIn' = signedIn \/ signedIn' = FALSE)
          /\ aiCalls[c].at = "out"
    BY <1>10 DEF LogoutCodexAccount, Stands, RowsKept, TasksKept, AccountKept
  <2>. QED  BY <1>0, <2>1, <2>2 DEF OtherCallsStay, GoesOn, CreatesAlone, CallFits, NoAiCall, TaskKinds
<1>11. ASSUME NEW c \in AiRequest, SetCodexProviderDisabled(c) PROVE CreatesAlone(d, e)'
  BY <1>0, <1>11 DEF SetCodexProviderDisabled, NoAiCall
<1>12. ASSUME NEW c \in AiRequest, RemoteFails(c) PROVE CreatesAlone(d, e)'
  BY <1>0, <1>12 DEF RemoteFails, NoAiCall
<1>13. ASSUME NEW c \in AiRequest, BeginTask(c) PROVE CreatesAlone(d, e)'
  <2>1. /\ OtherCallsStay(c) /\ aiCalls'[c].kind \in TaskKinds /\ aiCalls'[c].at = "resolve"
             /\ aiCalls'[c].task \in AiTask
        /\ IF aiCalls'[c].kind = "create"
           THEN taskModel[aiCalls'[c].task] = 0 /\ \A other \in AiRequest : aiCalls[other].task # aiCalls'[c].task
           ELSE taskModel[aiCalls'[c].task] # 0
    BY <1>13, AiMoves
  <2>2. UNCHANGED <<providers, models, taskModel, left, signedIn>>
    BY <1>13 DEF BeginTask, Stands, RowsKept, TasksKept, AccountKept
  <2>. QED  BY <1>0, <2>1, <2>2 DEF OtherCallsStay, GoesOn, CreatesAlone, CallFits, NoAiCall, TaskKinds
<1>14. ASSUME NEW c \in AiRequest, ResolveModel(c) PROVE CreatesAlone(d, e)'
  <2>1. /\ OtherCallsStay(c)
        /\ \/ aiCalls'[c] = NoAiCall
           \/ GoesOn(c, "lock") /\ aiCalls'[c].model = aiCalls[c].model /\ aiCalls'[c].resolved = aiCalls[c].model
    BY <1>14, AiMoves
  <2>2. UNCHANGED <<providers, models, taskModel, left, signedIn>> /\ aiCalls[c].at = "resolve"
    BY <1>14 DEF ResolveModel, Stands, RowsKept, TasksKept, AccountKept
  <2>. QED  BY <1>0, <2>1, <2>2 DEF OtherCallsStay, GoesOn, CreatesAlone, CallFits, NoAiCall, TaskKinds
<1>15. ASSUME NEW c \in AiRequest, InsertTask(c) PROVE CreatesAlone(d, e)'
  BY <1>0, <1>15 DEF InsertTask, NoAiCall
<1>16. ASSUME NEW c \in AiRequest, WriteTaskModel(c) PROVE CreatesAlone(d, e)'
  BY <1>0, <1>16 DEF WriteTaskModel, NoAiCall
<1>17. ASSUME NEW c \in AiRequest, EnterStart(c) PROVE CreatesAlone(d, e)'
  <2>1. /\ OtherCallsStay(c)
        /\ \/ aiCalls'[c] = NoAiCall
           \/ /\ GoesOn(c, "again") \/ (GoesOn(c, "claim") /\ taskModel[aiCalls[c].task] = aiCalls[c].model)
              /\ taskModel[aiCalls[c].task] # 0
              /\ aiCalls'[c].model = taskModel[aiCalls[c].task] /\ aiCalls'[c].resolved = aiCalls[c].resolved
    BY <1>17, AiMoves
  <2>2. UNCHANGED <<providers, models, taskModel, left, signedIn>> /\ aiCalls[c].at = "lock"
          /\ aiCalls[c].kind = "start"
    BY <1>17 DEF EnterStart, Stands, RowsKept, TasksKept, AccountKept
  <2>. QED  BY <1>0, <2>1, <2>2 DEF OtherCallsStay, GoesOn, CreatesAlone, CallFits, NoAiCall, TaskKinds
<1>18. ASSUME NEW c \in AiRequest, ResolveAgain(c) PROVE CreatesAlone(d, e)'
  <2>1. /\ OtherCallsStay(c)
        /\ \/ aiCalls'[c] = NoAiCall
           \/ GoesOn(c, "claim") /\ aiCalls'[c].model = aiCalls[c].model /\ aiCalls'[c].resolved = aiCalls[c].model
    BY <1>18, AiMoves
  <2>2. UNCHANGED <<providers, models, taskModel, left, signedIn>> /\ aiCalls[c].at = "again"
    BY <1>18 DEF ResolveAgain, Stands, RowsKept, TasksKept, AccountKept
  <2>. QED  BY <1>0, <2>1, <2>2 DEF OtherCallsStay, GoesOn, CreatesAlone, CallFits, NoAiCall, TaskKinds
<1>19. ASSUME NEW c \in AiRequest, ClaimRun(c) PROVE CreatesAlone(d, e)'
  BY <1>0, <1>19 DEF ClaimRun, NoAiCall
<1>. QED
  BY <1>1, <1>2, <1>3, <1>4, <1>5, <1>6, <1>7, <1>8, <1>9, <1>10, <1>11, <1>12, <1>13, <1>14, <1>15,
     <1>16, <1>17, <1>18, <1>19 DEF AiNext, CreateAiProvider, EditProvider,
     DeleteAiProvider, UpdateAiModel, DeleteAiModel, SignsIn, RunIsOver, DeleteTask

(* Every step of a request, of a run and of the account keeps the invariant. *)
LEMMA AiInvStep == AiInv /\ [AiNext]_aiVars => AiInv'
<1> SUFFICES ASSUME AiInv, [AiNext]_aiVars PROVE AiInv'
  OBVIOUS
<1>1. CASE AiNext
  BY <1>1, AiRowTypes, AiRows, AiLeft, AiCallFits, AiCreates DEF AiInv
<1>2. CASE UNCHANGED aiVars
  BY <1>2 DEF aiVars, AiInv, AiTypeOK, DefaultIsOwn, TasksHaveRows, RunUsesItsModel, LeftIsQuiet, CallFits,
     CreatesAlone,
     ModelsOf, ModelRows, HasRun, Enabling, Stands
<1>. QED  BY <1>1, <1>2

(* The invariant of the AI providers and models holds in every state of AiProviders. *)
THEOREM AiInvariant == AiSpec => []AiInv
BY AiInvInit, AiInvStep, PTL DEF AiSpec

(* The model a run works with, the default a page offers and the rows agree. *)
THEOREM ProvidersAreSound == AiSpec => []ProvidersSound
<1>1. AiInv => ProvidersSound
  BY DEF AiInv, ProvidersSound, LeftIsQuiet, LeftIsOff
<1>. QED  BY <1>1, AiInvariant, PTL

-----------------------------------------------------------------------------
(* AgentStream *)

HandlerState ==
  [st : {"off", "status", "run", "events", "ready", "live", "ended"}, running : BOOLEAN,
   run : 0..MaxRun, events : Seq(Events), buffer : Seq(Events), sent : SUBSET Events]

(* The run, its events and the handler of the window's stream. *)
EventsTyped ==
  /\ task \in [running : BOOLEAN, run : 0..MaxRun]
  /\ at \in {"over", "work", "stopping", "finished", "last"}
  /\ seq \in 0..MaxSeq /\ writing \in Events \cup {Nothing}
  /\ stored \subseteq Events
  /\ stream \in HandlerState

(* Two numbers are left for the end of a run, and what is being written has the last number given out. *)
EventsFit ==
  /\ at \in {"work", "stopping"} => seq <= MaxSeq - 2
  /\ at = "finished" => seq <= (IF writing = Nothing THEN MaxSeq - 2 ELSE MaxSeq - 1)
  /\ at = "last" => seq <= (IF writing = Nothing THEN MaxSeq - 1 ELSE MaxSeq)
  /\ at \in {"over", "stopping"} => writing = Nothing
  /\ at # "over" => task.run # 0
  /\ writing # Nothing => writing.run = task.run /\ writing.n = seq

(* A stored event is of this run or an earlier one, and older than the one that is being written. *)
StoredFits ==
  \A e \in stored : \/ e.run < task.run
                    \/ /\ e.run = task.run /\ e.n <= seq
                       /\ writing # Nothing /\ e # writing => e.n < seq

Distinct == \A e, f \in stored : e.run = f.run /\ e.n = f.n => e = f

(* A snapshot that has been read shows the latest events of its run; what it does not show is older *)
(* than all it shows, or came later and is in the buffer, or is still being written.                *)
SnapshotFits ==
  stream.st = "ready" =>
    /\ stream.run = task.run => Watermark(stream) <= seq
    /\ \A e \in (stored \cup {writing}) \ {Nothing} : e.run = stream.run =>
         \/ \E i \in DOMAIN stream.events : stream.events[i] = e
         \/ stream.events # << >> /\ \A i \in DOMAIN stream.events : e.n < stream.events[i].n
         \/ /\ e.n > Watermark(stream)
            /\ e = writing \/ \E i \in DOMAIN stream.buffer : stream.buffer[i] = e

StreamInv ==
  /\ EventsTyped /\ EventsFit /\ StoredFits /\ Distinct
  /\ stream.run <= task.run
  /\ SnapshotFits /\ NothingMissed

(* A function on 1..n is a sequence. *)
LEMMA ListIsSeq ==
  ASSUME NEW S, NEW n \in Nat, NEW f \in [1..n -> S]
  PROVE  f \in Seq(S) /\ Len(f) = n /\ DOMAIN f = 1..n
OBVIOUS

(* How many members of a set of numbers are less than each grows with the number; so Ascending *)
(* puts each member where as many are before it as are less.                                   *)
LEMMA AscendingSorts ==
  ASSUME NEW N \in SUBSET Nat, IsFiniteSet(N)
  PROVE  /\ Ascending(N) \in Seq(N)
         /\ DOMAIN Ascending(N) = 1..Cardinality(N)
         /\ \A n \in N : \E i \in DOMAIN Ascending(N) : Ascending(N)[i] = n
         /\ \A i, j \in DOMAIN Ascending(N) : i < j => Ascending(N)[i] < Ascending(N)[j]
<1> DEFINE Less(n) == {m \in N : m < n}
           c == Cardinality(N)
           rank == [n \in N |-> Cardinality(Less(n)) + 1]
<1>1. c \in Nat
  BY FS_CardinalityType
<1>2. ASSUME NEW n \in N
      PROVE  /\ Cardinality(Less(n)) \in Nat /\ Cardinality(Less(n)) < c
             /\ \A k \in N : k < n => Cardinality(Less(k)) < Cardinality(Less(n))
  <2>1. Less(n) \in SUBSET N /\ IsFiniteSet(Less(n)) /\ Cardinality(Less(n)) \in Nat
    BY FS_Subset, FS_CardinalityType
  <2>2. IsFiniteSet(N \ {n}) /\ Cardinality(N \ {n}) = c - 1
    BY FS_RemoveElement
  <2>3. Less(n) \in SUBSET (N \ {n})
    OBVIOUS
  <2>4. Cardinality(Less(n)) <= Cardinality(N \ {n})
    BY <2>2, <2>3, FS_Subset
  <2>5. Cardinality(Less(n)) < c
    BY <1>1, <2>1, <2>2, <2>4
  <2>6. ASSUME NEW k \in N, k < n PROVE Cardinality(Less(k)) < Cardinality(Less(n))
    <3>1. Less(k) \in SUBSET (Less(n) \ {k}) /\ k \in Less(n)
      <4>1. k \in Nat /\ n \in Nat /\ k \in Less(n)
        BY <2>6
      <4>2. ASSUME NEW m \in Less(k) PROVE m \in Less(n) /\ m # k
        <5>1. m \in N /\ m \in Nat /\ m < k
          OBVIOUS
        <5>. QED  BY <2>6, <4>1, <5>1
      <4>. QED  BY <4>1, <4>2
    <3>2. IsFiniteSet(Less(n) \ {k}) /\ Cardinality(Less(n) \ {k}) = Cardinality(Less(n)) - 1
      BY <2>1, <3>1, FS_RemoveElement
    <3>3. Cardinality(Less(k)) <= Cardinality(Less(n) \ {k})
      BY <3>1, <3>2, FS_Subset
    <3>4. Cardinality(Less(k)) \in Nat
      <4>1. Less(k) \in SUBSET N /\ IsFiniteSet(Less(k))
        BY FS_Subset
      <4>. QED  BY <4>1, FS_CardinalityType
    <3>. QED  BY <2>1, <3>2, <3>3, <3>4
  <2>. QED  BY <2>1, <2>5, <2>6
<1> HIDE DEF Less
<1>3. rank \in [N -> 1..c] /\ \A n, k \in N : k < n => rank[k] < rank[n]
  BY <1>1, <1>2
<1>4. \A i \in 1..c : \E n \in N : rank[n] = i
  <2>1. rank \in Injection(N, 1..c)
    BY <1>3 DEF Injection, IsInjective
  <2>2. IsFiniteSet(1..c) /\ Cardinality(1..c) = c
    BY <1>1, FS_Interval
  <2>3. rank \in Surjection(N, 1..c)
    <3> HIDE DEF rank
    <3>. QED  BY <2>1, <2>2, FS_Injection
  <2>. QED  BY <2>3 DEF Surjection
<1>5. Ascending(N) = [i \in 1..c |-> CHOOSE n \in N : Cardinality(Less(n)) = i - 1]
  BY DEF Ascending, Less
<1>6. ASSUME NEW i \in 1..c PROVE Ascending(N)[i] \in N /\ rank[Ascending(N)[i]] = i
  <2>1. \E n \in N : Cardinality(Less(n)) = i - 1
    BY <1>2, <1>4
  <2>2. LET m == CHOOSE n \in N : Cardinality(Less(n)) = i - 1
        IN  m \in N /\ Cardinality(Less(m)) = i - 1
    BY <2>1, Zenon
  <2>3. Ascending(N)[i] = CHOOSE n \in N : Cardinality(Less(n)) = i - 1
    BY <1>5
  <2>. QED  BY <2>2, <2>3
<1>7. DOMAIN Ascending(N) = 1..c /\ Ascending(N) \in Seq(N)
  <2>1. Ascending(N) \in [1..c -> N]
    BY <1>5, <1>6
  <2>. QED  BY <1>1, <2>1, ListIsSeq
<1> HIDE DEF rank
<1>8. ASSUME NEW n \in N PROVE \E i \in DOMAIN Ascending(N) : Ascending(N)[i] = n
  <2>1. rank[n] \in 1..c
    BY <1>3
  <2>2. Ascending(N)[rank[n]] \in N /\ rank[Ascending(N)[rank[n]]] = rank[n]
    BY <1>6, <2>1
  <2>3. Ascending(N)[rank[n]] = n
    <3> DEFINE k == Ascending(N)[rank[n]]
    <3>1. k \in N /\ rank[k] = rank[n] /\ k \in Nat /\ n \in Nat
      BY <2>2
    <3>2. ~(k < n) /\ ~(n < k)
      BY <1>3, <3>1
    <3>. QED  BY <3>1, <3>2
  <2>. QED  BY <1>7, <2>1, <2>3
<1>9. ASSUME NEW i \in 1..c, NEW j \in 1..c, i < j PROVE Ascending(N)[i] < Ascending(N)[j]
  <2> DEFINE a == Ascending(N)[i]
             b == Ascending(N)[j]
  <2>1. a \in N /\ b \in N /\ rank[a] = i /\ rank[b] = j
    BY <1>6
  <2>2. a \in Nat /\ b \in Nat
    BY <2>1
  <2> HIDE DEF a, b
  <2>3. i \in Int /\ j \in Int /\ ~(b < a) /\ a # b
    BY <1>3, <1>9, <2>1
  <2>4. a < b
    BY <2>2, <2>3
  <2>. QED  BY <2>4 DEF a, b
<1>. QED  BY <1>7, <1>8, <1>9
(* A set of natural numbers that is not empty has a least element. *)
LEMMA LeastNatural ==
  ASSUME NEW N \in SUBSET Nat, N # {}
  PROVE  \E m \in N : \A n \in N : m <= n
<1> DEFINE T == {1..n : n \in N}
           R == StrictSubsetOrdering(Nat)
<1>1. T \subseteq FiniteSubsetsOf(Nat) /\ T # {}
  <2>1. ASSUME NEW n \in N PROVE 1..n \in FiniteSubsetsOf(Nat)
    <3>1. IsFiniteSet(1..n)
      BY FS_Interval
    <3>. QED  BY <3>1 DEF FiniteSubsetsOf
  <2>. QED  BY <2>1
<1>2. IsWellFoundedOn(R, FiniteSubsetsOf(Nat))
  BY FS_StrictSubsetOrderingWellFounded
<1>3. \E x \in T : \A y \in T : ~ (<<y, x>> \in R)
  <2> HIDE DEF T, R
  <2>. QED  BY <1>1, <1>2, WFMin
<1>4. PICK m \in N : \A y \in T : ~ (<<y, 1..m>> \in R)
  BY <1>3
<1>5. ASSUME NEW n \in N, n < m PROVE FALSE
  <2>1. 1..n \subseteq 1..m /\ m \in 1..m /\ m \notin 1..n /\ 1..n \in SUBSET Nat /\ 1..m \in SUBSET Nat
    BY <1>5
  <2>2. <<1..n, 1..m>> \in R
    BY <2>1 DEF StrictSubsetOrdering
  <2>. QED  BY <1>4, <2>2
<1>6. \A n \in N : m <= n
  BY <1>5
<1>. QED  BY <1>6
(* What is read of a run is its stored events, in the order of their numbers. *)
LEMMA EventsAreSorted ==
  ASSUME StreamAssumption, stored \subseteq Events, Distinct, NEW r
  PROVE  LET s == EventsOf(r)
         IN  /\ s \in Seq(Events)
             /\ \A i \in DOMAIN s : s[i] \in stored /\ s[i].run = r
             /\ \A e \in stored : e.run = r => \E i \in DOMAIN s : s[i] = e
             /\ \A i, j \in DOMAIN s : i < j => s[i].n < s[j].n
<1> DEFINE rows == {e \in stored : e.run = r}
           N == {e.n : e \in rows}
           order == Ascending(N)
           s == EventsOf(r)
<1>1. N \in SUBSET Nat /\ IsFiniteSet(N)
  <2>1. MaxSeq \in Nat
    BY StreamAssumption
  <2>2. N \in SUBSET (1..MaxSeq)
    BY DEF Events
  <2>3. IsFiniteSet(1..MaxSeq)
    BY <2>1, FS_Interval
  <2>4. IsFiniteSet(N)
    <3> HIDE DEF N
    <3>. QED  BY <2>2, <2>3, FS_Subset
  <2>. QED  BY <2>1, <2>2, <2>4
<1>2. /\ order \in Seq(N) /\ DOMAIN order = 1..Cardinality(N) /\ Cardinality(N) \in Nat
      /\ \A n \in N : \E i \in DOMAIN order : order[i] = n
      /\ \A i, j \in DOMAIN order : i < j => order[i] < order[j]
  <2>1. Cardinality(N) \in Nat
    BY <1>1, FS_CardinalityType
  <2> HIDE DEF N
  <2>. QED  BY <1>1, <2>1, AscendingSorts
<1>3. s = [i \in DOMAIN order |-> CHOOSE e \in rows : e.n = order[i]]
  BY DEF EventsOf
<1>4. \A i \in DOMAIN order : order[i] \in N
  <2> HIDE DEF order, N
  <2>. QED  BY <1>2
<1> HIDE DEF order, s
<1>5. ASSUME NEW i \in DOMAIN order PROVE s[i] \in rows /\ s[i].n = order[i]
  <2>1. order[i] \in N
    BY <1>4
  <2>2. \E e \in rows : e.n = order[i]
    BY <2>1
  <2> DEFINE v == CHOOSE e \in rows : e.n = order[i]
  <2>3. v \in rows /\ v.n = order[i]
    BY <2>2, Zenon
  <2>4. s[i] = v
    BY <1>3
  <2>. QED  BY <2>3, <2>4
<1>6. DOMAIN s = DOMAIN order /\ s \in Seq(Events)
  <2>1. DOMAIN s = DOMAIN order
    BY <1>3
  <2>2. s \in [1..Cardinality(N) -> Events]
    BY <1>2, <1>3, <1>5, <2>1
  <2>. QED  BY <1>2, <2>1, <2>2, ListIsSeq
<1>7. ASSUME NEW e \in stored, e.run = r PROVE \E i \in DOMAIN s : s[i] = e
  <2>1. e \in rows /\ e.n \in N
    BY <1>7
  <2>2. PICK i \in DOMAIN order : order[i] = e.n
    BY <1>2, <2>1
  <2>3. s[i] \in rows /\ s[i].n = e.n
    BY <1>5, <2>2
  <2>4. s[i] = e
    BY <1>7, <2>3 DEF Distinct
  <2>. QED  BY <1>6, <2>4
<1>8. \A i, j \in DOMAIN s : i < j => s[i].n < s[j].n
  <2> HIDE DEF rows, N
  <2>. QED  BY <1>2, <1>5, <1>6
<1>9. \A i \in DOMAIN s : s[i] \in stored /\ s[i].run = r
  BY <1>5, <1>6
<1>. QED  BY <1>6, <1>7, <1>8, <1>9 DEF s

(* The last n members of a sequence. *)
LEMMA LastNKeeps ==
  ASSUME NEW S, NEW s \in Seq(S), NEW n \in Nat \ {0}
  PROVE  LET k == IF Len(s) > n THEN Len(s) - n ELSE 0
         IN  /\ LastN(s, n) \in Seq(S) /\ k \in 0..Len(s) /\ (s # << >> => k < Len(s))
             /\ Len(LastN(s, n)) = Len(s) - k /\ DOMAIN LastN(s, n) = 1..(Len(s) - k)
             /\ \A i \in 1..(Len(s) - k) : LastN(s, n)[i] = s[i + k]
<1> DEFINE k == IF Len(s) > n THEN Len(s) - n ELSE 0
<1>1. Len(s) \in Nat /\ k \in 0..Len(s) /\ (s # << >> => k < Len(s))
  BY LenProperties, EmptySeq
<1>2. LastN(s, n) = SubSeq(s, k + 1, Len(s))
  BY <1>1 DEF LastN
<1> HIDE DEF k
<1>3. /\ SubSeq(s, k + 1, Len(s)) \in Seq(S) /\ Len(SubSeq(s, k + 1, Len(s))) = Len(s) - k
      /\ \A i \in 1..(Len(s) - k) : SubSeq(s, k + 1, Len(s))[i] = s[i + k]
  BY <1>1
<1>4. DOMAIN LastN(s, n) = 1..(Len(s) - k)
  BY <1>1, <1>2, <1>3, LenProperties
<1>. QED  BY <1>1, <1>2, <1>3, <1>4 DEF k

(* Of the buffer nothing is written that the snapshot has, and all the rest is, unless done was written. *)
LEMMA UnseenPasses ==
  ASSUME NEW s, s.buffer \in Seq(Events)
  PROVE  LET new == Unseen(s)
         IN  /\ new \in Seq(Events)
             /\ \A k \in DOMAIN new : \E i \in DOMAIN s.buffer : new[k] = s.buffer[i] /\ ~InSnapshot(s, new[k])
             /\ (\A k \in DOMAIN new : new[k].kind # "end") =>
                  \A i \in DOMAIN s.buffer : ~InSnapshot(s, s.buffer[i]) => \E k \in DOMAIN new : new[k] = s.buffer[i]
<1> DEFINE b == s.buffer
           later == {i \in DOMAIN b : ~InSnapshot(s, b[i])}
           out == {i \in later : \A j \in later : j < i => b[j].kind # "end"}
           order == Ascending(out)
           new == Unseen(s)
<1>1. Len(b) \in Nat /\ DOMAIN b = 1..Len(b) /\ \A i \in DOMAIN b : b[i] \in Events
  BY LenProperties, ElementOfSeq
<1>2. out \in SUBSET Nat /\ IsFiniteSet(out) /\ Cardinality(out) \in Nat /\ out \subseteq later
        /\ later \subseteq DOMAIN b
  <2>1. out \in SUBSET (1..Len(b)) /\ IsFiniteSet(1..Len(b))
    BY <1>1, FS_Interval
  <2>2. IsFiniteSet(out)
    BY <2>1, FS_Subset
  <2>. QED  BY <1>1, <2>1, <2>2, FS_CardinalityType
<1>3. /\ order \in Seq(out) /\ DOMAIN order = 1..Cardinality(out)
      /\ \A n \in out : \E i \in DOMAIN order : order[i] = n
  <2> HIDE DEF out
  <2>. QED  BY <1>2, AscendingSorts
<1>4. new = [k \in DOMAIN order |-> b[order[k]]]
  BY DEF Unseen
<1>5. \A k \in DOMAIN order : order[k] \in out
  <2>1. order \in Seq(out)
    BY <1>3
  <2> HIDE DEF order, out
  <2>. QED  BY <2>1, ElementOfSeq, LenProperties
<1>6. \A i \in later : ~InSnapshot(s, b[i])
  OBVIOUS
<1>7. ASSUME \A k \in DOMAIN order : b[order[k]].kind # "end", NEW i \in later
      PROVE  i \in out
  <2>1. SUFFICES ASSUME i \notin out PROVE FALSE
    OBVIOUS
  <2>2. {j \in later : b[j].kind = "end"} \in SUBSET Nat /\ {j \in later : b[j].kind = "end"} # {}
    BY <1>1, <1>2, <2>1
  <2>3. PICK j \in later : b[j].kind = "end" /\ \A l \in later : b[l].kind = "end" => j <= l
    <3> HIDE DEF later
    <3>1. PICK j \in {l \in later : b[l].kind = "end"} : \A m \in {l \in later : b[l].kind = "end"} : j <= m
      BY <2>2, LeastNatural
    <3>. QED  BY <3>1
  <2>4. j \in out
    <3>1. \A l \in later : l \in Nat /\ j \in Nat
      BY <1>1, <1>2
    <3>. QED  BY <2>3, <3>1
  <2>. QED  BY <1>3, <1>7, <2>3, <2>4
<1> HIDE DEF new, order, out, later, b
<1>8. new \in Seq(Events) /\ DOMAIN new = DOMAIN order
  <2>1. new \in [1..Cardinality(out) -> Events]
    BY <1>1, <1>2, <1>3, <1>4, <1>5
  <2>. QED  BY <1>2, <1>3, <2>1, ListIsSeq
<1>9. \A k \in DOMAIN new : order[k] \in DOMAIN b /\ new[k] = b[order[k]] /\ ~InSnapshot(s, new[k])
  BY <1>2, <1>4, <1>5, <1>6, <1>8
<1>10. ASSUME \A k \in DOMAIN new : new[k].kind # "end", NEW i \in DOMAIN b, ~InSnapshot(s, b[i])
       PROVE  \E k \in DOMAIN new : new[k] = b[i]
  <2>1. i \in later
    BY <1>10 DEF later
  <2>2. \A k \in DOMAIN order : b[order[k]].kind # "end"
    BY <1>8, <1>9, <1>10
  <2>3. i \in out
    BY <1>7, <2>1, <2>2
  <2>. QED  BY <1>3, <1>8, <1>9, <2>3
<1>. QED  BY <1>8, <1>9, <1>10 DEF new, b

(* The parts of the invariant, by name. *)
LEMMA StreamParts ==
  ASSUME StreamInv
  PROVE  /\ MaxRun \in Nat \ {0} /\ MaxSeq \in Nat /\ MaxSeq >= 3
         /\ task \in [running : BOOLEAN, run : 0..MaxRun] /\ task.run \in Nat /\ seq \in Nat /\ seq <= MaxSeq
         /\ writing = Nothing \/ writing \in Events
         /\ stored \subseteq Events /\ Nothing \notin Events
         /\ stream \in HandlerState /\ stream.run \in Nat
         /\ stream.events \in Seq(Events) /\ stream.buffer \in Seq(Events) /\ stream.sent \subseteq Events
BY StreamAssumption DEF StreamInv, EventsTyped, HandlerState, Events, Nothing

(* What a handler is that has closed, or has only subscribed. *)
LEMMA HandlerTypes ==
  /\ NoStream \in HandlerState /\ NoStream.st = "off" /\ NoStream.run = 0
  /\ [NoStream EXCEPT !.st = "status"] \in HandlerState
  /\ \A s : ClosedStream(s) \in HandlerState /\ ClosedStream(s).st \in {"off", "ended"} /\ ClosedStream(s).run = 0
<1>1. NoStream \in HandlerState /\ NoStream.st = "off" /\ NoStream.run = 0
  <2>1. 0 \in 0..MaxRun
    BY StreamAssumption
  <2>. QED  BY <2>1, EmptySeq DEF NoStream, HandlerState
<1> HIDE DEF NoStream
<1>2. ASSUME NEW x \in {"off", "ended", "status"}
      PROVE  LET h == [NoStream EXCEPT !.st = x] IN h \in HandlerState /\ h.st = x /\ h.run = 0
  BY <1>1 DEF HandlerState
<1>3. ASSUME NEW s PROVE \E x \in {"off", "ended"} : ClosedStream(s) = [NoStream EXCEPT !.st = x]
  BY DEF ClosedStream
<1>4. ASSUME NEW s PROVE ClosedStream(s) \in HandlerState /\ ClosedStream(s).st \in {"off", "ended"}
               /\ ClosedStream(s).run = 0
  BY <1>2, <1>3
<1>. QED  BY <1>1, <1>2, <1>4

(* The number up to which a handler has read is one. *)
LEMMA WatermarkType ==
  ASSUME NEW s, s.events \in Seq(Events)
  PROVE  /\ Watermark(s) \in Nat
         /\ s.events # << >> => Len(s.events) \in DOMAIN s.events /\ Watermark(s) = s.events[Len(s.events)].n
<1>1. CASE s.events = << >>
  BY <1>1 DEF Watermark
<1>2. CASE s.events # << >>
  <2>1. Len(s.events) \in DOMAIN s.events /\ s.events[Len(s.events)] \in Events
    BY <1>2, LenProperties, EmptySeq, ElementOfSeq
  <2>2. Watermark(s) = s.events[Len(s.events)].n
    BY <1>2 DEF Watermark, Last
  <2>. QED  BY <2>1, <2>2 DEF Events
<1>. QED  BY <1>1, <1>2

(* The invariant of a window's stream holds before there is one. *)
LEMMA StreamInvInit == StreamInit => StreamInv
<1> SUFFICES ASSUME StreamInit PROVE StreamInv
  OBVIOUS
<1>1. EventsTyped
  BY HandlerTypes, StreamAssumption DEF StreamInit, EventsTyped, Events
<1>2. EventsFit /\ StoredFits /\ Distinct /\ SnapshotFits /\ NothingMissed
  BY HandlerTypes DEF StreamInit, EventsFit, StoredFits, Distinct, SnapshotFits, NothingMissed
<1>3. stream.run <= task.run
  BY HandlerTypes DEF StreamInit
<1>. QED  BY <1>1, <1>2, <1>3 DEF StreamInv

(* A window that only reads what was written leaves the invariant alone. *)
LEMMA StreamStays ==
  ASSUME StreamInv, UNCHANGED <<server, stream>>
  PROVE  StreamInv'
BY DEF server, StreamInv, EventsTyped, EventsFit, StoredFits, Distinct, SnapshotFits, NothingMissed, Watermark

(* A stream that is closed or opened again owes nothing yet. *)
LEMMA StreamResets ==
  ASSUME StreamInv, UNCHANGED server,
         \/ stream' = NoStream \/ stream' = ClosedStream(stream)
         \/ stream' = [NoStream EXCEPT !.st = "status"]
  PROVE  StreamInv'
<1>1. stream' \in HandlerState /\ stream'.st \in {"off", "ended", "status"} /\ stream'.run = 0
  BY HandlerTypes DEF NoStream
<1>2. stream'.run <= task'.run
  BY <1>1, StreamParts DEF server
<1>. QED  BY <1>1, <1>2 DEF server, StreamInv, EventsTyped, EventsFit, StoredFits, Distinct, SnapshotFits,
       NothingMissed

(* A step of the run that neither stores nor publishes an event. *)
LEMMA RunGoesOn ==
  ASSUME StreamInv, StartRun \/ WorkEnds \/ WriteTerminal \/ RecordEvent
  PROVE  StreamInv'
<1>0. UNCHANGED <<stored, stream>>
  BY DEF StartRun, WorkEnds, WriteTerminal, RecordEvent
<1>1. EventsTyped' /\ EventsFit' /\ StoredFits' /\ Distinct' /\ task'.run >= task.run
  <2>0. /\ EventsTyped /\ EventsFit /\ StoredFits /\ Distinct
    BY DEF StreamInv
  <2>1. CASE StartRun
    <3>1. writing = Nothing /\ task' = [running |-> TRUE, run |-> task.run + 1] /\ at' = "work" /\ seq' = 0
          /\ task.run + 1 \in 0..MaxRun /\ UNCHANGED writing
      BY <2>0, <2>1, StreamParts DEF StartRun, EventsFit
    <3>2. EventsTyped' /\ task'.run = task.run + 1 /\ EventsFit'
      BY <1>0, <2>0, <3>1, StreamParts DEF EventsTyped, EventsFit
    <3>3. StoredFits'
      <4>1. \A e \in stored : e.run <= task.run /\ e.run \in Nat
        <5>1. \A e \in stored : e.run \in Nat /\ (e.run < task.run \/ e.run = task.run)
          BY <2>0, StreamParts DEF StoredFits, Events
        <5>. QED  BY <5>1, StreamParts
      <4>. QED  BY <1>0, <3>2, <4>1, StreamParts DEF StoredFits
    <3>. QED  BY <1>0, <2>0, <3>2, <3>3, StreamParts DEF Distinct
  <2>2. CASE WorkEnds
    BY <1>0, <2>0, <2>2, StreamParts DEF WorkEnds, EventsTyped, EventsFit, StoredFits, Distinct
  <2>3. CASE WriteTerminal
    <3>1. task' \in [running : BOOLEAN, run : 0..MaxRun] /\ task'.run = task.run /\ at = "stopping"
            /\ at' = "finished"
          /\ UNCHANGED <<seq, writing>>
      BY <2>3, StreamParts DEF WriteTerminal
    <3>2. EventsTyped' /\ EventsFit'
      BY <1>0, <2>0, <3>1, StreamParts DEF EventsTyped, EventsFit
    <3>. QED  BY <1>0, <2>0, <3>1, <3>2, StreamParts DEF StoredFits, Distinct
  <2>4. CASE RecordEvent
    <3>1. /\ writing = Nothing /\ writing' = Event(NextKind) /\ seq' = seq + 1 /\ UNCHANGED <<task, at>>
          /\ at \in {"work", "finished", "last"} /\ seq + 1 <= MaxSeq
          /\ at = "work" => seq + 1 <= MaxSeq - 2
          /\ at = "finished" => seq + 1 <= MaxSeq - 1
      BY <2>0, <2>4, StreamParts DEF RecordEvent, EventsFit
    <3>2. writing' \in Events /\ writing'.run = task.run /\ writing'.n = seq + 1 /\ writing' # Nothing
      <4>1. NextKind \in {"item", "end"} /\ task.run \in 1..MaxRun /\ seq + 1 \in 1..MaxSeq
        BY <2>0, <3>1, StreamParts DEF NextKind, EventsFit
      <4>. QED  BY <3>1, <4>1, StreamParts DEF Event, Events
    <3>3. EventsTyped' /\ EventsFit'
      BY <1>0, <2>0, <3>1, <3>2, StreamParts DEF EventsTyped, EventsFit
    <3>4. StoredFits'
      <4>1. \A e \in stored : e.n \in Nat /\ e # Nothing
        BY StreamParts DEF Events
      <4>. QED  BY <1>0, <2>0, <3>1, <3>2, <4>1, StreamParts DEF StoredFits
    <3>. QED  BY <1>0, <2>0, <3>1, <3>3, <3>4, StreamParts DEF Distinct
  <2>. QED  BY <2>1, <2>2, <2>3, <2>4
<1>2. stream'.run <= task'.run
  <2>1. task'.run \in Nat
    BY <1>1, StreamParts DEF EventsTyped
  <2>. QED  BY <1>0, <1>1, <2>1, StreamParts DEF StreamInv
<1>3. NothingMissed'
  <2>1. stored' \ {writing'} \subseteq stored \ {writing}
    BY <1>0, StreamParts DEF StreamInv, EventsFit, StartRun, WorkEnds, WriteTerminal, RecordEvent
  <2>. QED  BY <1>0, <2>1 DEF StreamInv, NothingMissed
<1>4. SnapshotFits'
  <2> SUFFICES ASSUME stream.st = "ready" PROVE SnapshotFits'
    BY <1>0 DEF SnapshotFits
  <2>1. Watermark(stream') = Watermark(stream) /\ Watermark(stream) \in Nat
    BY <1>0, WatermarkType, StreamParts
  <2>2. writing = Nothing /\ (writing' = Nothing \/ (writing'.n = seq + 1 /\ writing'.run = task.run /\ task' = task))
    <3>1. CASE RecordEvent
      BY <3>1 DEF RecordEvent, Event
    <3>2. CASE StartRun \/ WorkEnds \/ WriteTerminal
      BY <3>2 DEF StreamInv, EventsFit, StartRun, WorkEnds, WriteTerminal
    <3>. QED  BY <3>1, <3>2
  <2>3. stream.run = task.run => Watermark(stream) <= seq
    BY DEF StreamInv, SnapshotFits
  <2>4. stream.run = task'.run => stream.run = task.run /\ seq' >= seq /\ seq' \in Nat
    BY StreamParts DEF StreamInv, StartRun, WorkEnds, WriteTerminal, RecordEvent
  <2>5. stream.run = task'.run => Watermark(stream) <= seq'
    BY <2>1, <2>3, <2>4, StreamParts
  <2>6. ASSUME NEW e \in stored, e.run = stream.run
        PROVE  \/ \E i \in DOMAIN stream.events : stream.events[i] = e
               \/ stream.events # << >> /\ \A i \in DOMAIN stream.events : e.n < stream.events[i].n
               \/ e.n > Watermark(stream) /\ \E i \in DOMAIN stream.buffer : stream.buffer[i] = e
    <3>1. e # Nothing
      BY StreamParts
    <3>. QED  BY <2>2, <2>6, <3>1 DEF StreamInv, SnapshotFits
  <2>7. writing' # Nothing /\ writing'.run = stream.run => writing'.n > Watermark(stream)
    BY <2>1, <2>2, <2>3, StreamParts
  <2>. QED  BY <1>0, <2>1, <2>5, <2>6, <2>7 DEF SnapshotFits
<1>. QED  BY <1>1, <1>2, <1>3, <1>4 DEF StreamInv

(* What is published goes into the buffer, or out at once; a stream that is closed misses it. *)
LEMMA PublishGoes ==
  ASSUME stream \in HandlerState, NEW x \in Events, PublishEvent(x)
  PROVE  /\ stream' \in HandlerState /\ stream'.run \in {0, stream.run}
         /\ stream'.st = "ready" =>
              /\ stream.st = "ready" /\ stream'.run = stream.run /\ stream'.events = stream.events
              /\ \E i \in DOMAIN stream'.buffer : stream'.buffer[i] = x
              /\ \A i \in DOMAIN stream.buffer : \E j \in DOMAIN stream'.buffer : stream'.buffer[j] = stream.buffer[i]
         /\ stream'.st = "live" => stream.st = "live" /\ stream'.run = stream.run
              /\ stream'.sent = stream.sent \cup {x}
<1>1. CASE stream.st \in {"status", "run", "events", "ready"}
  <2> DEFINE b == Append(stream.buffer, x)
             h == [stream EXCEPT !.buffer = b]
  <2>1. b \in Seq(Events) /\ DOMAIN b = 1..(Len(stream.buffer) + 1) /\ b[Len(stream.buffer) + 1] = x
        /\ Len(stream.buffer) \in Nat /\ DOMAIN stream.buffer = 1..Len(stream.buffer)
        /\ \A i \in 1..Len(stream.buffer) : b[i] = stream.buffer[i]
    <3>1. stream.buffer \in Seq(Events)
      BY DEF HandlerState
    <3>. QED  BY <3>1, AppendProperties, LenProperties
  <2> HIDE DEF b
  <2>2. h \in HandlerState /\ h.st = stream.st /\ h.run = stream.run /\ h.events = stream.events /\ h.buffer = b
    BY <2>1 DEF HandlerState
  <2>3. stream' = h
    BY <1>1 DEF PublishEvent, b
  <2> HIDE DEF h
  <2>4. Len(stream.buffer) + 1 \in DOMAIN b /\ DOMAIN stream.buffer \subseteq DOMAIN b
    BY <2>1
  <2>. QED  BY <1>1, <2>1, <2>2, <2>3, <2>4
<1>2. CASE stream.st = "live"
  <2> DEFINE h == [stream EXCEPT !.sent = stream.sent \cup {x}]
  <2>1. h \in HandlerState /\ h.st = "live" /\ h.run = stream.run /\ h.sent = stream.sent \cup {x}
    BY <1>2 DEF HandlerState
  <2>2. stream' = h \/ stream' = ClosedStream(stream)
    BY <1>2 DEF PublishEvent
  <2> HIDE DEF h
  <2>3. CASE stream' = h
    BY <1>2, <2>1, <2>3
  <2>4. CASE stream' = ClosedStream(stream)
    BY <2>4, HandlerTypes
  <2>. QED  BY <2>2, <2>3, <2>4
<1>3. CASE stream.st \in {"off", "ended"}
  BY <1>3 DEF PublishEvent
<1>. QED  BY <1>1, <1>2, <1>3 DEF HandlerState

(* A stored event was being written, and is the newest of its run. *)
LEMMA InsertKeeps ==
  ASSUME StreamInv, Insert
  PROVE  StreamInv'
<1>1. /\ writing \in Events /\ writing.run = task.run /\ writing.n = seq /\ writing \notin stored
      /\ stored' = stored \cup {writing} /\ UNCHANGED <<task, at, seq, writing, stream>>
  BY StreamParts DEF Insert, StreamInv, EventsFit
<1>2. EventsTyped' /\ EventsFit' /\ stream'.run <= task'.run
  BY <1>1 DEF StreamInv, EventsTyped, EventsFit
<1>3. StoredFits'
  BY <1>1, StreamParts DEF StreamInv, StoredFits
<1>4. Distinct'
  <2>1. ASSUME NEW e \in stored, e.run = task.run PROVE e.n # seq
    <3>1. e # writing /\ writing # Nothing /\ e.n \in Nat
      BY <1>1, StreamParts DEF Events
    <3>2. e.n < seq
      BY <2>1, <3>1, StreamParts DEF StreamInv, StoredFits
    <3>. QED  BY <3>1, <3>2, StreamParts
  <2>. QED  BY <1>1, <2>1 DEF StreamInv, Distinct
<1>5. SnapshotFits'
  BY <1>1 DEF StreamInv, SnapshotFits, Watermark
<1>6. NothingMissed'
  <2>1. stored' \ {writing'} = stored \ {writing}
    BY <1>1
  <2>. QED  BY <1>1, <2>1 DEF StreamInv, NothingMissed
<1>. QED  BY <1>2, <1>3, <1>4, <1>5, <1>6 DEF StreamInv

(* What is not stored is published at once, and has the next number. *)
LEMMA DeltaKeeps ==
  ASSUME StreamInv, Delta
  PROVE  StreamInv'
<1> DEFINE x == Event("delta")
<1>1. /\ at = "work" /\ writing = Nothing /\ seq + 1 <= MaxSeq - 2 /\ seq' = seq + 1 /\ PublishEvent(x)
      /\ UNCHANGED <<task, at, writing, stored>>
  BY StreamParts DEF Delta
<1>2. x \in Events /\ x.run = task.run /\ x.n = seq + 1
  <2>1. task.run \in 1..MaxRun /\ seq + 1 \in 1..MaxSeq
    BY <1>1, StreamParts DEF StreamInv, EventsFit
  <2>. QED  BY <2>1 DEF Event, Events
<1> HIDE DEF x
<1>3. /\ stream' \in HandlerState /\ stream'.run \in {0, stream.run}
      /\ stream'.st = "ready" =>
           /\ stream.st = "ready" /\ stream'.run = stream.run /\ stream'.events = stream.events
           /\ \A i \in DOMAIN stream.buffer : \E j \in DOMAIN stream'.buffer : stream'.buffer[j] = stream.buffer[i]
      /\ stream'.st = "live" => stream.st = "live" /\ stream'.run = stream.run /\ stream'.sent = stream.sent \cup {x}
  BY <1>1, <1>2, StreamParts, PublishGoes
<1>4. EventsTyped' /\ EventsFit'
  BY <1>1, <1>3, StreamParts DEF StreamInv, EventsTyped, EventsFit
<1>5. StoredFits' /\ Distinct' /\ stream'.run <= task'.run
  <2>1. \A e \in stored : e.n \in Nat
    BY StreamParts DEF Events
  <2>2. StoredFits' /\ Distinct'
    BY <1>1, <2>1, StreamParts DEF StreamInv, StoredFits, Distinct
  <2>3. stream'.run <= task'.run
    BY <1>1, <1>3, StreamParts DEF StreamInv
  <2>. QED  BY <2>2, <2>3
<1>6. SnapshotFits'
  <2> SUFFICES ASSUME stream'.st = "ready" PROVE SnapshotFits'
    BY DEF SnapshotFits
  <2>1. Watermark(stream') = Watermark(stream) /\ Watermark(stream) \in Nat
    BY <1>3, WatermarkType, StreamParts DEF Watermark
  <2>2. stream'.run = task'.run => Watermark(stream') <= seq'
    BY <1>1, <1>3, <2>1, StreamParts DEF StreamInv, SnapshotFits
  <2>3. ASSUME NEW e \in stored, e.run = stream.run
        PROVE  \/ \E i \in DOMAIN stream.events : stream.events[i] = e
               \/ stream.events # << >> /\ \A i \in DOMAIN stream.events : e.n < stream.events[i].n
               \/ e.n > Watermark(stream) /\ \E i \in DOMAIN stream.buffer : stream.buffer[i] = e
    <3>1. e # Nothing
      BY StreamParts
    <3>. QED  BY <1>1, <1>3, <2>3, <3>1 DEF StreamInv, SnapshotFits
  <2>. QED  BY <1>1, <1>3, <2>1, <2>2, <2>3 DEF SnapshotFits
<1>7. NothingMissed'
  <2> SUFFICES ASSUME stream'.st = "live", NEW e \in stored \ {writing}, e.run = stream.run, e \notin stream'.sent,
                      NEW s \in stream'.sent, s.run = e.run
               PROVE  e.n < s.n
    BY <1>1, <1>3 DEF NothingMissed
  <2>1. CASE s \in stream.sent
    BY <1>3, <2>1 DEF StreamInv, NothingMissed
  <2>2. CASE s = x
    <3>1. e.run = task.run /\ e.n \in Nat
      BY <1>2, <2>2, StreamParts DEF Events
    <3>2. e.n <= seq
      BY <3>1, StreamParts DEF StreamInv, StoredFits
    <3>. QED  BY <1>2, <2>2, <3>1, <3>2, StreamParts
  <2>. QED  BY <1>3, <2>1, <2>2
<1>. QED  BY <1>4, <1>5, <1>6, <1>7 DEF StreamInv

(* What was being written is published when its insert has settled. *)
LEMMA SettlesKeeps ==
  ASSUME StreamInv, Settles
  PROVE  StreamInv'
<1>1. /\ writing \in Events /\ writing.run = task.run /\ writing.n = seq /\ at \in {"work", "finished", "last"}
      /\ at' = After(writing \in stored) /\ writing' = Nothing /\ PublishEvent(writing)
      /\ UNCHANGED <<task, seq, stored>>
  BY StreamParts DEF Settles, StreamInv, EventsTyped, EventsFit
<1>2. /\ at' \in {"work", "stopping", "last", "over"}
      /\ at' \in {"work", "stopping"} => at = "work"
      /\ at' = "last" => at = "finished"
  BY <1>1 DEF After
<1>3. /\ stream' \in HandlerState /\ stream'.run \in {0, stream.run}
      /\ stream'.st = "ready" =>
           /\ stream.st = "ready" /\ stream'.run = stream.run /\ stream'.events = stream.events
           /\ \E i \in DOMAIN stream'.buffer : stream'.buffer[i] = writing
           /\ \A i \in DOMAIN stream.buffer : \E j \in DOMAIN stream'.buffer : stream'.buffer[j] = stream.buffer[i]
      /\ stream'.st = "live" => stream.st = "live" /\ stream'.run = stream.run
           /\ stream'.sent = stream.sent \cup {writing}
  BY <1>1, StreamParts, PublishGoes
<1>4. EventsTyped'
  BY <1>1, <1>2, <1>3, StreamParts DEF StreamInv, EventsTyped
<1>5. EventsFit'
  BY <1>1, <1>2, StreamParts DEF StreamInv, EventsFit, Nothing
<1>6. StoredFits' /\ Distinct' /\ stream'.run <= task'.run
  <2>1. \A e \in stored : e.n \in Nat
    BY StreamParts DEF Events
  <2>2. StoredFits' /\ Distinct'
    BY <1>1, <2>1, StreamParts DEF StreamInv, StoredFits, Distinct
  <2>3. stream'.run <= task'.run
    BY <1>1, <1>3, StreamParts DEF StreamInv
  <2>. QED  BY <2>2, <2>3
<1>7. SnapshotFits'
  <2> SUFFICES ASSUME stream'.st = "ready" PROVE SnapshotFits'
    BY DEF SnapshotFits
  <2>1. Watermark(stream') = Watermark(stream)
    BY <1>3 DEF Watermark
  <2>2. stream'.run = task'.run => Watermark(stream') <= seq'
    BY <1>1, <1>3, <2>1 DEF StreamInv, SnapshotFits
  <2>3. ASSUME NEW e \in stored, e.run = stream.run
        PROVE  \/ \E i \in DOMAIN stream.events : stream.events[i] = e
               \/ stream.events # << >> /\ \A i \in DOMAIN stream.events : e.n < stream.events[i].n
               \/ e.n > Watermark(stream) /\ (e = writing \/ \E i \in DOMAIN stream.buffer : stream.buffer[i] = e)
    <3>1. e # Nothing
      BY StreamParts
    <3>. QED  BY <1>1, <1>3, <2>3, <3>1 DEF StreamInv, SnapshotFits
  <2>. QED  BY <1>1, <1>3, <2>1, <2>2, <2>3 DEF SnapshotFits
<1>8. NothingMissed'
  <2> SUFFICES ASSUME stream'.st = "live", NEW e \in stored, e.run = stream.run, e \notin stream'.sent,
                      NEW s \in stream'.sent, s.run = e.run
               PROVE  e.n < s.n
    BY <1>1, <1>3 DEF NothingMissed
  <2>0. e # writing
    BY <1>3
  <2>1. CASE s \in stream.sent
    BY <1>3, <2>0, <2>1 DEF StreamInv, NothingMissed
  <2>2. CASE s = writing
    <3>1. e.run = task.run /\ e.n \in Nat /\ writing # Nothing
      BY <1>1, <2>2, StreamParts DEF Events
    <3>2. e.n < seq
      BY <2>0, <3>1, StreamParts DEF StreamInv, StoredFits
    <3>. QED  BY <1>1, <2>2, <3>2
  <2>. QED  BY <1>3, <2>1, <2>2
<1>. QED  BY <1>4, <1>5, <1>6, <1>7, <1>8 DEF StreamInv

(* The process ends: its streams are closed, nothing is being written any more. *)
LEMMA RestartKeeps ==
  ASSUME StreamInv, Restart
  PROVE  StreamInv'
<1>1. /\ task' \in [running : BOOLEAN, run : 0..MaxRun] /\ task'.run = task.run /\ at' = "over" /\ writing' = Nothing
      /\ UNCHANGED <<seq, stored>>
  BY StreamParts DEF Restart
<1>2. stream' \in HandlerState /\ stream'.st \in {"off", "ended"} /\ stream'.run = 0
  BY HandlerTypes DEF Restart
<1>3. EventsTyped' /\ EventsFit' /\ SnapshotFits' /\ NothingMissed' /\ stream'.run <= task'.run
  BY <1>1, <1>2, StreamParts DEF StreamInv, EventsTyped, EventsFit, SnapshotFits, NothingMissed
<1>4. StoredFits' /\ Distinct'
  BY <1>1, StreamParts DEF StreamInv, StoredFits, Distinct, Events
<1>. QED  BY <1>3, <1>4 DEF StreamInv

(* The handler reads the task's row, then its latest run: nothing is shown yet. *)
LEMMA RowReadKeeps ==
  ASSUME StreamInv, ReadStatus \/ ReadRun
  PROVE  StreamInv'
<1>1. UNCHANGED server /\ stream' \in HandlerState /\ stream'.st \in {"run", "events"}
        /\ stream'.run \in {stream.run, task.run}
  <2>1. CASE ReadStatus
    <3> DEFINE h == [stream EXCEPT !.st = "run", !.running = task.running]
    <3>1. h \in HandlerState /\ h.st = "run" /\ h.run = stream.run
      BY StreamParts DEF HandlerState
    <3> HIDE DEF h
    <3>. QED  BY <2>1, <3>1 DEF ReadStatus, h
  <2>2. CASE ReadRun
    <3> DEFINE h == [stream EXCEPT !.st = "events", !.run = task.run]
    <3>1. h \in HandlerState /\ h.st = "events" /\ h.run = task.run
      BY StreamParts DEF HandlerState
    <3> HIDE DEF h
    <3>. QED  BY <2>2, <3>1 DEF ReadRun, h
  <2>. QED  BY <2>1, <2>2
<1>2. EventsTyped' /\ SnapshotFits' /\ NothingMissed'
  BY <1>1 DEF server, StreamInv, EventsTyped, SnapshotFits, NothingMissed
<1>3. EventsFit' /\ StoredFits' /\ Distinct'
  BY <1>1 DEF server, StreamInv, EventsFit, StoredFits, Distinct
<1>4. stream'.run <= task'.run
  BY <1>1, StreamParts DEF server, StreamInv
<1>. QED  BY <1>2, <1>3, <1>4 DEF StreamInv

(* The snapshot: what it leaves out is older than what it has; what is being written and is not stored is newer. *)
LEMMA SnapshotKeeps ==
  ASSUME StreamInv, ReadEvents
  PROVE  StreamInv'
<1> DEFINE s == EventsOf(stream.run)
           k == IF Len(s) > SnapshotLimit THEN Len(s) - SnapshotLimit ELSE 0
           l == LastN(s, SnapshotLimit)
           h == [stream EXCEPT !.st = "ready", !.events = l]
<1>1. /\ s \in Seq(Events)
      /\ \A i \in DOMAIN s : s[i] \in stored /\ s[i].run = stream.run
      /\ \A e \in stored : e.run = stream.run => \E i \in DOMAIN s : s[i] = e
      /\ \A i, j \in DOMAIN s : i < j => s[i].n < s[j].n
  BY EventsAreSorted, StreamParts, StreamAssumption DEF StreamInv
<1> HIDE DEF s
<1>2. /\ l \in Seq(Events) /\ k \in 0..Len(s) /\ (s # << >> => k < Len(s)) /\ Len(s) \in Nat
      /\ Len(l) = Len(s) - k /\ DOMAIN l = 1..(Len(s) - k)
      /\ \A i \in 1..(Len(s) - k) : l[i] = s[i + k]
  BY <1>1, LastNKeeps, LenProperties, StreamAssumption
<1> HIDE DEF k, l
<1>3. h \in HandlerState /\ h.st = "ready" /\ h.run = stream.run /\ h.events = l /\ h.buffer = stream.buffer
  BY <1>2, StreamParts DEF HandlerState
<1>4. stream' = h /\ UNCHANGED server
  BY DEF ReadEvents, h, l, s
<1> HIDE DEF h
<1>5. DOMAIN s = 1..Len(s) /\ \A i \in DOMAIN l : i + k \in DOMAIN s /\ l[i] = s[i + k]
  BY <1>1, <1>2, LenProperties
<1>6. \A i \in DOMAIN l : l[i] \in stored /\ l[i].run = stream.run /\ l[i] \in Events
  BY <1>1, <1>5, StreamParts
<1>7. /\ Watermark(stream') \in Nat
      /\ l # << >> => Len(l) \in DOMAIN l /\ Watermark(stream') = l[Len(l)].n
      /\ l = << >> => Watermark(stream') = 0
  BY <1>2, <1>3, <1>4, WatermarkType DEF Watermark
<1>8. ASSUME stream.run = task.run, l # << >>
      PROVE  /\ Watermark(stream') <= seq
             /\ writing # Nothing /\ writing \notin stored => Watermark(stream') < seq
  <2> DEFINE v == l[Len(l)]
  <2>1. v \in stored /\ v.run = task.run /\ v.n = Watermark(stream')
    BY <1>6, <1>7, <1>8
  <2> HIDE DEF v
  <2>. QED  BY <2>1, StreamParts DEF StreamInv, StoredFits
<1>9. stream'.run = task'.run => Watermark(stream') <= seq'
  BY <1>3, <1>4, <1>7, <1>8, StreamParts DEF server
<1>10. ASSUME NEW e \in stored, e.run = stream.run
       PROVE  \/ \E i \in DOMAIN l : l[i] = e
              \/ l # << >> /\ \A i \in DOMAIN l : e.n < l[i].n
  <2>1. PICK j \in DOMAIN s : s[j] = e
    BY <1>1, <1>10
  <2>2. CASE j <= k
    <3>1. \A i \in DOMAIN l : j < i + k
      BY <1>2, <2>1, <2>2, <1>5
    <3>2. \A i \in DOMAIN l : e.n < l[i].n
      BY <1>1, <1>5, <2>1, <3>1
    <3>3. l # << >>
      <4>1. Len(s) # 0 /\ Len(s) >= j
        BY <1>5, <2>1
      <4>2. Len(l) # 0
        BY <1>2, <4>1, EmptySeq
      <4>. QED  BY <4>2, EmptySeq
    <3>. QED  BY <3>2, <3>3
  <2>3. CASE j > k
    <3>1. j - k \in 1..(Len(s) - k) /\ (j - k) + k = j
      BY <1>2, <1>5, <2>1, <2>3
    <3>. QED  BY <1>2, <2>1, <3>1
  <2>. QED  BY <1>2, <1>5, <2>1, <2>2, <2>3
<1>11. ASSUME writing # Nothing, writing \notin stored, writing.run = stream.run
       PROVE  writing.n > Watermark(stream')
  <2>1. writing.n = seq /\ stream.run = task.run /\ writing.n \in Nat /\ writing.n >= 1
    BY <1>11, StreamParts DEF StreamInv, EventsFit, Events
  <2>. QED  BY <1>7, <1>8, <1>11, <2>1
<1>12. SnapshotFits'
  BY <1>3, <1>4, <1>9, <1>10, <1>11 DEF server, SnapshotFits
<1>13. EventsTyped' /\ NothingMissed' /\ stream'.run <= task'.run
  BY <1>3, <1>4 DEF server, StreamInv, EventsTyped, NothingMissed
<1>14. EventsFit' /\ StoredFits' /\ Distinct'
  BY <1>4 DEF server, StreamInv, EventsFit, StoredFits, Distinct
<1>. QED  BY <1>12, <1>13, <1>14 DEF StreamInv

(* The snapshot goes out, and of the buffer what it does not have: from then on the stream is live. *)
LEMMA ReadyKeeps ==
  ASSUME StreamInv, ReadyStream
  PROVE  StreamInv'
<1> DEFINE new == Unseen(stream)
           sent == Range(stream.events) \cup Range(new)
           h == [NoStream EXCEPT !.st = "live", !.run = stream.run, !.sent = sent]
<1>1. /\ stream.events \in Seq(Events) /\ stream.buffer \in Seq(Events) /\ new \in Seq(Events)
      /\ \A k \in DOMAIN new : ~InSnapshot(stream, new[k])
      /\ (\A k \in DOMAIN new : new[k].kind # "end") =>
           \A i \in DOMAIN stream.buffer :
             ~InSnapshot(stream, stream.buffer[i]) => \E k \in DOMAIN new : new[k] = stream.buffer[i]
  BY UnseenPasses, StreamParts
<1>2. stream.st = "ready" /\ UNCHANGED server
  BY DEF ReadyStream
<1>3. \/ stream' = ClosedStream(stream)
      \/ stream' = h /\ \A k \in DOMAIN new : new[k].kind # "end"
  BY DEF ReadyStream
<1> HIDE DEF new
<1>4. sent \subseteq Events /\ \A e : e \in sent <=> \/ \E i \in DOMAIN stream.events : stream.events[i] = e
                                                   \/ \E k \in DOMAIN new : new[k] = e
  <2>1. /\ \A i \in DOMAIN stream.events : stream.events[i] \in Events
        /\ \A k \in DOMAIN new : new[k] \in Events
    BY <1>1, ElementOfSeq, LenProperties
  <2>. QED  BY <2>1 DEF Range
<1> HIDE DEF sent
<1>5. CASE stream' = ClosedStream(stream)
  BY <1>2, <1>5, StreamResets
<1>6. CASE stream' = h /\ \A k \in DOMAIN new : new[k].kind # "end"
  <2>1. h \in HandlerState /\ h.st = "live" /\ h.run = stream.run /\ h.sent = sent
    BY <1>4, HandlerTypes, StreamParts DEF HandlerState
  <2> HIDE DEF h
  <2>2. EventsTyped' /\ SnapshotFits' /\ stream'.run <= task'.run
    BY <1>2, <1>6, <2>1 DEF server, StreamInv, EventsTyped, SnapshotFits
  <2>3. EventsFit' /\ StoredFits' /\ Distinct'
    BY <1>2 DEF server, StreamInv, EventsFit, StoredFits, Distinct
  <2>4. ASSUME NEW e \in stored \ {writing}, e.run = stream.run, e \notin sent, NEW s \in sent, s.run = e.run
        PROVE  e.n < s.n
    <3>1. e.n \in Nat /\ s.n \in Nat /\ e # Nothing /\ Watermark(stream) \in Nat
      <4>1. e \in Events /\ s \in Events /\ e # Nothing
        BY <1>4, StreamParts
      <4>2. Watermark(stream) \in Nat
        BY <1>1, WatermarkType
      <4>. QED  BY <4>1, <4>2 DEF Events
    <3>2. stream.events # << >> /\ \A i \in DOMAIN stream.events : e.n < stream.events[i].n
      <4>1. \A i \in DOMAIN stream.buffer : stream.buffer[i] = e => InSnapshot(stream, e)
        BY <1>1, <1>4, <1>6, <2>4
      <4>2. ~(e.n > Watermark(stream) /\ \E i \in DOMAIN stream.buffer : stream.buffer[i] = e)
        BY <3>1, <4>1 DEF InSnapshot
      <4>. QED  BY <1>2, <1>4, <2>4, <3>1, <4>2 DEF StreamInv, SnapshotFits
    <3>3. CASE \E i \in DOMAIN stream.events : stream.events[i] = s
      BY <3>2, <3>3
    <3>4. CASE \E k \in DOMAIN new : new[k] = s
      <4>1. s.n > Watermark(stream)
        BY <1>1, <2>4, <3>1, <3>4 DEF InSnapshot
      <4>2. e.n < Watermark(stream)
        BY <1>1, <3>2, WatermarkType
      <4>. QED  BY <3>1, <4>1, <4>2
    <3>. QED  BY <1>4, <3>3, <3>4
  <2>5. NothingMissed'
    BY <1>2, <1>6, <2>1, <2>4 DEF server, NothingMissed
  <2>. QED  BY <2>2, <2>3, <2>5 DEF StreamInv
<1>. QED  BY <1>3, <1>5, <1>6

(* Every step of the run, of the handler and of the window keeps the invariant. *)
LEMMA StreamInvStep == StreamInv /\ [StreamNext]_streamVars => StreamInv'
<1> SUFFICES ASSUME StreamInv, [StreamNext]_streamVars PROVE StreamInv'
  OBVIOUS
<1>1. CASE StartRun \/ RunSteps \/ Restart
  BY <1>1, RunGoesOn, DeltaKeeps, InsertKeeps, SettlesKeeps, RestartKeeps DEF RunSteps
<1>2. CASE HandlerSteps \/ Breaks
  <2>1. CASE Breaks
    BY <2>1, StreamResets DEF Breaks
  <2>. QED  BY <1>2, <2>1, RowReadKeeps, SnapshotKeeps, ReadyKeeps DEF HandlerSteps
<1>3. CASE WindowSteps \/ RefetchFails \/ PersonLoads
  <2>1. CASE ReadMessage \/ Refetched \/ RefetchFails \/ PersonLoads
    BY <2>1, StreamStays DEF ReadMessage, Refetched, RefetchFails, PersonLoads, server
  <2>2. CASE FinishStream \/ OnError \/ Retry
    BY <2>2, StreamResets DEF FinishStream, OnError, Retry, HangUp, Connect
  <2>. QED  BY <1>3, <2>1, <2>2 DEF WindowSteps
<1>4. ASSUME NEW l \in DOMAIN loads, LoadSteps(l) \/ LoadFails(l) PROVE StreamInv'
  <2>1. CASE LoadReadsStatus(l) \/ LoadReadsRun(l) \/ LoadFails(l)
    BY <2>1, StreamStays DEF LoadReadsStatus, LoadReadsRun, LoadFails
  <2>2. CASE LoadAnswered(l)
    BY <2>2, StreamStays, StreamResets DEF LoadAnswered, Show, HangUp, Connect
  <2>. QED  BY <1>4, <2>1, <2>2 DEF LoadSteps
<1>5. CASE UNCHANGED streamVars
  BY <1>5, StreamStays DEF streamVars
<1>. QED  BY <1>1, <1>2, <1>3, <1>4, <1>5 DEF StreamNext

(* The invariant of the event stream holds in every state of AgentStream. *)
THEOREM StreamInvariant == StreamSpec => []StreamInv
BY StreamInvInit, StreamInvStep, PTL DEF StreamSpec

(* A stream that is past its snapshot has passed on every stored event of its run from the first it    *)
(* showed to the last that was published (the buffer and the watermark of GET .../events/stream), for  *)
(* any number of runs and events, and whatever the limit of the snapshot.                              *)
THEOREM StreamMissesNothing == StreamSpec => []NothingMissed
<1>1. StreamInv => NothingMissed
  BY DEF StreamInv
<1>. QED  BY <1>1, StreamInvariant, PTL
=============================================================================
