---------------------------- MODULE AgentStream ----------------------------
(***************************************************************************)
(* What a person sees of a running task: recordEvent and the end of a run  *)
(* (services/agent-tasks.ts), the event bus (services/agent-events.ts),    *)
(* the event stream of routes/agent-tasks.ts and the task window of        *)
(* client/views/TasksView.tsx.                                             *)
(*                                                                         *)
(* One task, a few runs one after the other, one window.  An event is its  *)
(* run, its number and its kind: "delta" is assistant_delta, which is not  *)
(* stored, "end" carries done, "item" is every other kind; what            *)
(* compactPersistedAgentEvent leaves of a payload is not looked at.  The   *)
(* window keeps the right to read the task.                                *)
(***************************************************************************)
EXTENDS Integers, SequencesExt

CONSTANTS MaxRun, MaxSeq,    \* bounds: runs, and events of one run
          MaxLoads,          \* a bound on the loads the person asks for
          SnapshotLimit,     \* the limit of agentTaskEvents, 100
          LoadsFail,         \* whether requests of the window may fail
          MaxKeys            \* what the window remembers to find repetitions, 1,000

ASSUME StreamAssumption ==
  /\ MaxRun \in Nat \ {0} /\ MaxSeq \in Nat /\ MaxSeq >= 3 /\ MaxLoads \in Nat
  /\ SnapshotLimit \in Nat \ {0} /\ MaxKeys \in Nat \ {0} /\ LoadsFail \in BOOLEAN

VARIABLES
  task,      \* agent_tasks and agent_runs: running, and the latest run (0: none)
  at, seq, writing,    \* the latest run: where it is, eventSequences, its insert under way
  stored,    \* agent_events
  stream,    \* the handler of the window's stream
  wire,      \* what it has written and the window has not read
  ui,        \* the window
  loads      \* its requests for the task that have not been answered

server == <<task, at, seq, writing, stored>>
streamVars == <<server, stream, wire, ui, loads>>

Nothing == [run |-> 0, n |-> 0, kind |-> "none"]
Event(k) == [run |-> task.run, n |-> seq + 1, kind |-> k]
EventKey(e) == <<e.run, e.n>>
LastN(s, n) == SubSeq(s, IF Len(s) > n THEN Len(s) - n + 1 ELSE 1, Len(s))

(* The members of a finite set of numbers, the least first. *)
Ascending(N) == [i \in 1..Cardinality(N) |-> CHOOSE n \in N : Cardinality({m \in N : m < n}) = i - 1]

(* agent_events of a run, in the order of their numbers *)
EventsOf(r) ==
  LET rows == {e \in stored : e.run = r}
      order == Ascending({e.n : e \in rows})
  IN  [i \in DOMAIN order |-> CHOOSE e \in rows : e.n = order[i]]

NoStream == [st |-> "off", running |-> FALSE, run |-> 0, events |-> << >>, buffer |-> << >>, sent |-> {}]
NoLoad == [st |-> "off", running |-> FALSE, run |-> 0, events |-> << >>]

StreamInit ==
  /\ task = [running |-> FALSE, run |-> 0]
  /\ at = "over" /\ seq = 0 /\ writing = Nothing
  /\ stored = {}
  /\ stream = NoStream /\ wire = << >>
  /\ ui = [shown |-> FALSE, run |-> 0, keys |-> << >>, log |-> << >>, text |-> << >>,
           asked |-> 0, conn |-> "off"]
  /\ loads = [l \in {"person", "end"} |-> NoLoad]
-----------------------------------------------------------------------------
(* The stream's side of the bus and its socket. *)

Message(e) == [kind |-> "event", done |-> e.kind = "end", run |-> e.run, events |-> <<e>>]
ClosedStream(s) == [NoStream EXCEPT !.st = IF s.st = "off" THEN "off" ELSE "ended"]

PublishEvent_NoBuffer(e) ==
  IF stream.st = "live"
    THEN /\ wire' = Append(wire, Message(e))
         /\ stream' = IF e.kind = "end" THEN ClosedStream(stream) ELSE [stream EXCEPT !.sent = @ \cup {e}]
    ELSE UNCHANGED <<stream, wire>>

(* publish: buffered until the snapshot is out, then written at once. *)
PublishEvent(e) ==
  CASE stream.st \in {"status", "run", "events", "ready"} ->
         stream' = [stream EXCEPT !.buffer = Append(@, e)] /\ UNCHANGED wire
    [] stream.st = "live" ->
         /\ wire' = Append(wire, Message(e))
         /\ stream' = IF e.kind = "end" THEN ClosedStream(stream) ELSE [stream EXCEPT !.sent = @ \cup {e}]
    [] stream.st \in {"off", "ended"} -> UNCHANGED <<stream, wire>>
-----------------------------------------------------------------------------
(* The run: executeAgentRun, as far as its events and its status go. *)

StartRun ==
  /\ ~task.running /\ at = "over"
  /\ task.run < MaxRun
  /\ task' = [running |-> TRUE, run |-> task.run + 1]
  /\ at' = "work" /\ seq' = 0
  /\ UNCHANGED <<writing, stored, stream, wire, ui, loads>>

(* Two numbers are kept for the end of the run. *)
Delta ==
  /\ at = "work" /\ writing = Nothing
  /\ seq < MaxSeq - 2
  /\ seq' = seq + 1
  /\ PublishEvent(Event("delta"))
  /\ UNCHANGED <<task, at, writing, stored, ui, loads>>

NextKind == CASE at = "work" -> "item" [] at = "finished" -> "item" [] at = "last" -> "end"

RecordEvent ==
  /\ at \in {"work", "finished", "last"} /\ writing = Nothing
  /\ at = "work" => seq < MaxSeq - 2
  /\ writing' = Event(NextKind)
  /\ seq' = seq + 1
  /\ UNCHANGED <<task, at, stored, stream, wire, ui, loads>>

Insert ==
  /\ writing # Nothing /\ writing \notin stored
  /\ stored' = stored \cup {writing}
  /\ UNCHANGED <<task, at, seq, writing, stream, wire, ui, loads>>

(* A failed insert ends the work; recordPostRunEvent goes on. *)
After(ok) ==
  CASE at = "work" -> IF ok THEN "work" ELSE "stopping"
    [] at = "finished" -> "last"
    [] at = "last" -> "over"

(* The insert settles, and the finally block publishes. *)
Settles ==
  /\ writing # Nothing
  /\ at' = After(writing \in stored)
  /\ writing' = Nothing
  /\ PublishEvent(writing)
  /\ UNCHANGED <<task, seq, stored, ui, loads>>

(* The provider is done, fails or is stopped. *)
WorkEnds == at = "work" /\ writing = Nothing /\ at' = "stopping"
            /\ UNCHANGED <<task, seq, writing, stored, stream, wire, ui, loads>>

(* reconcileTerminalRun *)
WriteTerminal ==
  /\ at = "stopping"
  /\ task' = [task EXCEPT !.running = FALSE]
  /\ at' = "finished"
  /\ UNCHANGED <<seq, writing, stored, stream, wire, ui, loads>>

(* The process ends; before it answers again it has recovered the run.  The  *)
(* loads it had not answered fail, or are sent again.                        *)
Restart ==
  /\ at # "over"
  /\ task' = [task EXCEPT !.running = FALSE]
  /\ at' = "over" /\ writing' = Nothing
  /\ stream' = ClosedStream(stream)
  /\ UNCHANGED <<seq, stored, wire, ui, loads>>
-----------------------------------------------------------------------------
(* GET /api/agent/tasks/:id/events/stream: subscribe, getAgentTask (the row, *)
(* then the runs), agentTaskEvents, and the part without an await.           *)

ReadStatus ==
  /\ stream.st = "status"
  /\ stream' = [stream EXCEPT !.st = "run", !.running = task.running]
  /\ UNCHANGED <<server, wire, ui, loads>>

ReadRun ==
  /\ stream.st = "run"
  /\ stream' = [stream EXCEPT !.st = "events", !.run = task.run]
  /\ UNCHANGED <<server, wire, ui, loads>>

ReadEvents ==
  /\ stream.st = "events"
  /\ stream' = [stream EXCEPT !.st = "ready", !.events = LastN(EventsOf(stream.run), SnapshotLimit)]
  /\ UNCHANGED <<server, wire, ui, loads>>

Watermark(s) == IF s.events = << >> THEN 0 ELSE Last(s.events).n

InSnapshot(s, e) == e.run = s.run /\ e.n <= Watermark(s)

(* The buffered events that are written: up to the first that carries done. *)
Unseen(s) ==
  LET new == {i \in DOMAIN s.buffer : ~InSnapshot(s, s.buffer[i])}
      order == Ascending({i \in new : \A j \in new : j < i => s.buffer[j].kind # "end"})
  IN  [k \in DOMAIN order |-> s.buffer[order[k]]]

ReadyStream ==
  /\ stream.st = "ready"
  /\ LET new == Unseen(stream)
         snapshot == [kind |-> "snapshot", done |-> ~stream.running, run |-> stream.run, events |-> stream.events]
         over == ~stream.running \/ \E i \in DOMAIN new : new[i].kind = "end"
     IN  /\ wire' = <<snapshot>> \o [i \in DOMAIN new |-> Message(new[i])]
         /\ stream' = IF over THEN ClosedStream(stream)
                      ELSE [NoStream EXCEPT !.st = "live", !.run = stream.run,
                                            !.sent = Range(stream.events) \cup Range(new)]
  /\ UNCHANGED <<server, ui, loads>>

(* A query of the handler fails, or the connection breaks. *)
Breaks ==
  /\ stream.st \notin {"off", "ended"}
  /\ stream' = ClosedStream(stream)
  /\ UNCHANGED <<server, wire, ui, loads>>
-----------------------------------------------------------------------------
(* The window: TaskDetailModal. *)

HangUp == stream' = NoStream /\ wire' = << >>
Connect == stream' = [NoStream EXCEPT !.st = "status"] /\ wire' = << >>

(* setTask, and the effect on task.status: a stream is opened when the task  *)
(* is shown as running, and disposed of when it no longer is.                *)
Show(running, u) ==
  \/ running = u.shown /\ ui' = u /\ UNCHANGED <<stream, wire>>
  \/ running /\ ~u.shown /\ ui' = [u EXCEPT !.shown = TRUE, !.conn = "open"] /\ Connect
  \/ ~running /\ u.shown /\ ui' = [u EXCEPT !.shown = FALSE, !.conn = "off"] /\ HangUp

Ask(l) == loads' = [loads EXCEPT ![l] = [NoLoad EXCEPT !.st = "sent"]]

(* The person opens the window; later actions load the task again. *)
PersonLoads ==
  /\ loads["person"].st = "off"
  /\ ui.asked < MaxLoads
  /\ ui' = [ui EXCEPT !.asked = @ + 1]
  /\ Ask("person")
  /\ UNCHANGED <<server, stream, wire>>

(* getAgentTask: the row, then the runs and the events of the latest. *)
LoadReadsStatus(l) ==
  /\ loads[l].st = "sent"
  /\ loads' = [loads EXCEPT ![l] = [@ EXCEPT !.st = "run", !.running = task.running]]
  /\ UNCHANGED <<server, stream, wire, ui>>

LoadReadsRun(l) ==
  /\ loads[l].st = "run"
  /\ loads' = [loads EXCEPT ![l] = [@ EXCEPT !.st = "read", !.run = task.run, !.events = EventsOf(task.run)]]
  /\ UNCHANGED <<server, stream, wire, ui>>

(* load: the log and what is remembered become those of the answer. *)
LoadAnswered(l) ==
  /\ loads[l].st = "read"
  /\ LET d == loads[l]
     IN  Show(d.running, [ui EXCEPT !.run = d.run, !.log = d.events,
                                    !.keys = [i \in DOMAIN d.events |-> EventKey(d.events[i])],
                                    !.conn = IF l = "end" /\ @ = "reloading" THEN "left" ELSE @])
  /\ loads' = [loads EXCEPT ![l] = NoLoad]
  /\ UNCHANGED server

LoadFails(l) ==
  /\ LoadsFail
  /\ loads[l].st # "off"
  /\ ui' = [ui EXCEPT !.conn = IF l = "end" /\ @ = "reloading" THEN "waiting" ELSE @]
  /\ loads' = [loads EXCEPT ![l] = NoLoad]
  /\ UNCHANGED <<server, stream, wire>>

(* remember: the oldest key makes room for the newest. *)
Remembered(u, e) == LastN(Append(u.keys, EventKey(e)), MaxKeys)

Apply(u, e) ==
  CASE Contains(u.keys, EventKey(e)) -> u
    [] ~Contains(u.keys, EventKey(e)) /\ e.kind = "delta" ->
         [u EXCEPT !.keys = Remembered(u, e), !.text = Append(@, EventKey(e))]
    [] ~Contains(u.keys, EventKey(e)) /\ e.kind # "delta" ->
         [u EXCEPT !.keys = Remembered(u, e), !.log = Append(@, e)]

ApplyAll(u, events) == FoldLeft(Apply, u, events)

Cleared(u, m) == IF m.kind = "snapshot" /\ u.run # m.run
                 THEN [u EXCEPT !.run = m.run, !.keys = << >>, !.log = << >>, !.text = << >>] ELSE u

(* An event that is known already is passed over, with the done it carries. *)
Finishes(m) == m.done /\ (m.kind = "event" => ~Contains(ui.keys, EventKey(m.events[1])))

ReadMessage ==
  /\ ui.conn = "open" /\ wire # << >>
  /\ ~Finishes(Head(wire))
  /\ ui' = ApplyAll(Cleared(ui, Head(wire)), Head(wire).events)
  /\ wire' = Tail(wire)
  /\ UNCHANGED <<server, stream, loads>>

(* finish: the stream is closed for good and the task is loaded.  At most    *)
(* one such load is under way: a bound.                                      *)
FinishStream ==
  /\ ui.conn = "open" /\ wire # << >>
  /\ Finishes(Head(wire))
  /\ loads["end"].st = "off"
  /\ ui' = [ApplyAll(Cleared(ui, Head(wire)), Head(wire).events) EXCEPT !.text = << >>, !.conn = "left"]
  /\ HangUp /\ Ask("end")
  /\ UNCHANGED server

(* onerror: the task is asked for again. *)
OnError ==
  /\ ui.conn = "open" /\ wire = << >> /\ stream.st = "ended"
  /\ ui' = [ui EXCEPT !.conn = "fetching"]
  /\ HangUp
  /\ UNCHANGED <<server, loads>>

Refetched ==
  /\ ui.conn = "fetching"
  /\ loads["end"].st = "off"
  /\ IF task.running THEN ui' = [ui EXCEPT !.conn = "waiting"] /\ UNCHANGED loads
     ELSE ui' = [ui EXCEPT !.conn = "reloading", !.text = << >>] /\ Ask("end")
  /\ UNCHANGED <<server, stream, wire>>

RefetchFails ==
  /\ LoadsFail
  /\ ui.conn = "fetching"
  /\ ui' = [ui EXCEPT !.conn = "waiting"]
  /\ UNCHANGED <<server, stream, wire, loads>>

Retry ==
  /\ ui.conn = "waiting"
  /\ ui' = [ui EXCEPT !.conn = "open"]
  /\ Connect
  /\ UNCHANGED <<server, loads>>
-----------------------------------------------------------------------------
RunSteps == Delta \/ RecordEvent \/ Insert \/ Settles \/ WorkEnds \/ WriteTerminal
HandlerSteps == ReadStatus \/ ReadRun \/ ReadEvents \/ ReadyStream
WindowSteps == ReadMessage \/ FinishStream \/ OnError \/ Refetched \/ Retry
LoadSteps(l) == LoadReadsStatus(l) \/ LoadReadsRun(l) \/ LoadAnswered(l)

StreamNext ==
  \/ StartRun \/ RunSteps \/ Restart
  \/ HandlerSteps \/ Breaks
  \/ WindowSteps \/ RefetchFails \/ PersonLoads
  \/ \E l \in DOMAIN loads : LoadSteps(l) \/ LoadFails(l)
  \/ UNCHANGED streamVars   \* a window at rest

(* Every run ends (its time limit), statements and requests are answered. *)
StreamFairness ==
  /\ WF_streamVars(WorkEnds) /\ WF_streamVars(WriteTerminal)
  /\ WF_streamVars(at # "work" /\ RecordEvent) /\ WF_streamVars(Settles)
  /\ WF_streamVars(HandlerSteps) /\ WF_streamVars(WindowSteps)
  /\ \A l \in {"person", "end"} : WF_streamVars(LoadSteps(l))

StreamSpec == StreamInit /\ [][StreamNext]_streamVars /\ StreamFairness
-----------------------------------------------------------------------------
Events == [run : 1..MaxRun, n : 1..MaxSeq, kind : {"delta", "item", "end"}]

(* The types of the variables. *)
StreamTypeOK ==
  /\ task \in [running : BOOLEAN, run : 0..MaxRun]
  /\ at \in {"over", "work", "stopping", "finished", "last"}
  /\ seq \in 0..MaxSeq /\ writing \in Events \cup {Nothing}
  /\ stored \subseteq Events
  /\ stream \in [st : {"off", "status", "run", "events", "ready", "live", "ended"}, running : BOOLEAN,
                 run : 0..MaxRun, events : Seq(Events), buffer : Seq(Events), sent : SUBSET Events]
  /\ wire \in Seq([kind : {"snapshot", "event"}, done : BOOLEAN, run : 0..MaxRun, events : Seq(Events)])
  /\ ui \in [shown : BOOLEAN, run : 0..MaxRun, keys : Seq((1..MaxRun) \X (1..MaxSeq)), log : Seq(Events),
             text : Seq((1..MaxRun) \X (1..MaxSeq)), asked : 0..MaxLoads,
             conn : {"off", "open", "fetching", "waiting", "reloading", "left"}]
  /\ loads \in [{"person", "end"} -> [st : {"off", "sent", "run", "read"}, running : BOOLEAN,
                                      run : 0..MaxRun, events : Seq(Events)]]

(* A stream that is past its snapshot has passed on every stored event of    *)
(* its run from the first it showed to the last that was published, however  *)
(* subscription, queries and inserts interleave (the buffer, the watermark). *)
NothingMissed ==
  stream.st = "live" =>
    \A e \in stored \ {writing} :
      (e.run = stream.run /\ e \notin stream.sent) => \A s \in stream.sent : s.run = e.run => e.n < s.n

(* "The client always observes a terminal state, including completion during *)
(* connection setup" (improvement.md:178): a window that shows a task as     *)
(* running which is not comes to show that, or the task runs again.          *)
WindowSeesEnd == (ui.shown /\ ~task.running) ~> (~ui.shown \/ task.running)
============================================================================
