----------------------------- MODULE ViewLoads -----------------------------
(***************************************************************************)
(* What the views of the client show: request of client/lib/api.ts, and    *)
(* loadView, loadViewWithState, its effects and the refresh after a        *)
(* mutation in client/App.tsx.                                             *)
(*                                                                         *)
(* The views show one resource of the server, the version of which every   *)
(* change raises.  Reads of it that are under way are shared, loads of a   *)
(* view too; answers come in any order, or not at all.                     *)
(***************************************************************************)
EXTENDS Naturals

CONSTANTS View,          \* views that show the resource and are refreshed by themselves
          FirstView,     \* the one shown at first
          MaxServed,     \* bound: changes
          MaxFetches     \* bound: reads at a time

ASSUME ViewsAssumption == FirstView \in View /\ "tasks" \notin View /\ MaxServed \in Nat /\ MaxFetches \in Nat

VARIABLES
  served,    \* version of the resource at the server
  inFlight,  \* inFlightGetRequests: the read to be shared, or 0
  requests,  \* reads under way
  viewLoads, \* viewLoadRequestsRef: for each view the read its load awaits, or 0
  age,       \* lastViewLoadAtRef: "fresh" is less than VIEW_REUSE_MS ago, "recent" less than AUTO_REFRESH_INTERVAL_MS
  page,      \* the view that is open, whether somebody is signed in, and whether the window is visible
  mutation,  \* the mutation that is followed by a refresh
  shownRows  \* the version shown

viewVars == <<served, inFlight, requests, viewLoads, age, page, mutation, shownRows>>

Elsewhere == "tasks"     \* a view that does not show the resource
Slot == 1..MaxFetches
NoRequest == [at |-> "none", value |-> 0]
NoMutation == [at |-> "none", sent |-> 0, applied |-> 0, read |-> 0, joined |-> FALSE, value |-> 0]

ViewsInit ==
  /\ served = 0 /\ inFlight = 0 /\ shownRows = 0
  /\ requests = [i \in Slot |-> NoRequest]
  /\ viewLoads = [v \in View |-> 0] /\ age = [v \in View |-> "old"]
  /\ page = [view |-> FirstView, user |-> FALSE, visible |-> TRUE]
  /\ mutation = NoMutation
-----------------------------------------------------------------------------
(* request, a GET: the read i is the one under way, or a new one *)
Reads(i) ==
  IF inFlight # 0 THEN i = inFlight /\ UNCHANGED <<requests, inFlight>>
  ELSE /\ i = CHOOSE j \in Slot : requests[j] = NoRequest
       /\ requests[i] = NoRequest
       /\ requests' = [requests EXCEPT ![i] = [NoRequest EXCEPT !.at = "sent"]]
       /\ inFlight' = i
Free == \E i \in Slot : requests[i] = NoRequest

(* loadViewWithState: not again within maxAge, nor while the view is being loaded *)
LoadsView(v, enough) ==
  IF v = Elsewhere \/ age[v] \in enough \/ viewLoads[v] # 0 THEN UNCHANGED <<viewLoads, requests, inFlight>>
  ELSE Free /\ \E i \in Slot : Reads(i) /\ viewLoads' = [viewLoads EXCEPT ![v] = i]
NoAge == {}
ReuseAge == {"fresh"}
RefreshAge == {"fresh", "recent"}

Begins == UNCHANGED <<served, age, mutation, shownRows>>

(* The effects of signing in, of opening a view and of the window coming back; the timer; the button. *)
SignIn ==
  /\ ~page.user /\ page' = [page EXCEPT !.user = TRUE]
  /\ LoadsView(page.view, ReuseAge) /\ Begins
SignOut ==
  /\ page.user /\ page' = [page EXCEPT !.user = FALSE]
  /\ inFlight' = 0
  /\ UNCHANGED <<requests, viewLoads>> /\ Begins
OpenView(v) ==
  /\ page.user /\ page.view # v /\ page' = [page EXCEPT !.view = v]
  /\ LoadsView(v, ReuseAge) /\ Begins
HideWindow ==
  /\ page.visible /\ page' = [page EXCEPT !.visible = FALSE]
  /\ UNCHANGED <<requests, viewLoads, inFlight>> /\ Begins
ShowWindow ==
  /\ ~page.visible /\ page' = [page EXCEPT !.visible = TRUE]
  /\ IF page.user THEN LoadsView(page.view, RefreshAge) ELSE UNCHANGED <<requests, viewLoads, inFlight>>
  /\ Begins
Tick ==
  /\ page.user /\ page.visible
  /\ LoadsView(page.view, NoAge) /\ UNCHANGED page /\ Begins
refreshCurrentView ==
  /\ page.user
  /\ LoadsView(page.view, NoAge) /\ UNCHANGED page /\ Begins
TimeGoesBy(v) ==
  /\ age[v] # "old" /\ age' = [age EXCEPT ![v] = IF @ = "fresh" THEN "recent" ELSE "old"]
  /\ UNCHANGED <<served, inFlight, requests, viewLoads, page, mutation, shownRows>>
-----------------------------------------------------------------------------
ServerReads(i) ==
  /\ requests[i].at = "sent"
  /\ requests' = [requests EXCEPT ![i] = [at |-> "read", value |-> served]]
  /\ UNCHANGED <<served, inFlight, viewLoads, age, page, mutation, shownRows>>

(* The read is over: whoever awaits it shows the rows, and loads of views are forgotten. *)
Over(i) ==
  /\ requests' = [requests EXCEPT ![i] = NoRequest]
  /\ inFlight' = IF inFlight = i THEN 0 ELSE inFlight
Awaited(i) == mutation.at = "refresh" /\ mutation.read = i
LoadOver_Kept(i) == viewLoads
LoadOver(i) == [v \in View |-> IF viewLoads[v] = i THEN 0 ELSE viewLoads[v]]

RowsArrive(i) ==
  /\ requests[i].at = "read" /\ Over(i)
  /\ viewLoads' = LoadOver(i)
  /\ age' = [v \in View |-> IF viewLoads[v] = i THEN "fresh" ELSE age[v]]
  /\ shownRows' = IF Awaited(i) \/ \E v \in View : viewLoads[v] = i THEN requests[i].value ELSE shownRows
  /\ mutation' = IF Awaited(i) THEN [mutation EXCEPT !.at = "shown", !.value = requests[i].value] ELSE mutation
  /\ UNCHANGED <<served, page>>

(* The request fails, whether the server had read or not; its 401 signs the page out. *)
Fails(i) ==
  /\ requests[i].at = "read" /\ Over(i)
  /\ viewLoads' = LoadOver(i)
  /\ mutation' = IF Awaited(i) THEN NoMutation ELSE mutation
  /\ \E refused \in BOOLEAN : page' = [page EXCEPT !.user = @ /\ ~refused]
  /\ UNCHANGED <<served, age, shownRows>>
-----------------------------------------------------------------------------
Changes == served < MaxServed /\ served' = served + 1
SomebodyChanges ==
  /\ Changes
  /\ UNCHANGED <<inFlight, requests, viewLoads, age, page, mutation, shownRows>>

(* request, any other method: invalidateReadRequests *)
SharedAfter_Same == inFlight
SharedAfter == 0
Mutate ==
  /\ page.user /\ mutation.at \in {"none", "shown"}
  /\ inFlight' = SharedAfter
  /\ mutation' = [NoMutation EXCEPT !.at = "sent", !.sent = served]
  /\ UNCHANGED <<served, requests, viewLoads, age, page, shownRows>>
OtherMutation ==
  /\ page.user /\ inFlight' = SharedAfter
  /\ UNCHANGED <<served, requests, viewLoads, age, page, mutation, shownRows>>
ServerMutates ==
  /\ mutation.at = "sent" /\ Changes
  /\ mutation' = [mutation EXCEPT !.at = "done", !.applied = served + 1]
  /\ UNCHANGED <<inFlight, requests, viewLoads, age, page, shownRows>>
MutationFails ==
  /\ mutation.at \in {"sent", "done"} /\ mutation' = NoMutation
  /\ UNCHANGED <<served, inFlight, requests, viewLoads, age, page, shownRows>>

(* The handler of the mutation awaits its answer, then refreshDeployments. *)
RefreshAfterMutation ==
  /\ mutation.at = "done" /\ Free
  /\ \E i \in Slot : Reads(i) /\ mutation' = [mutation EXCEPT !.at = "refresh", !.read = i, !.joined = inFlight # 0]
  /\ UNCHANGED <<served, viewLoads, age, page, shownRows>>
-----------------------------------------------------------------------------
ViewsNext ==
  \/ SignIn \/ SignOut \/ HideWindow \/ ShowWindow \/ Tick \/ refreshCurrentView
  \/ \E v \in View \cup {Elsewhere} : OpenView(v)
  \/ \E v \in View : TimeGoesBy(v)
  \/ \E i \in Slot : ServerReads(i) \/ RowsArrive(i) \/ Fails(i)
  \/ SomebodyChanges \/ Mutate \/ OtherMutation \/ ServerMutates \/ MutationFails \/ RefreshAfterMutation

ViewsSpec == ViewsInit /\ [][ViewsNext]_viewVars

(* The timer of a page that stays runs, requests end, and not every one of them fails. *)
ViewsFairness ==
  /\ WF_viewVars(Tick)
  /\ \A i \in Slot : WF_viewVars(ServerReads(i)) /\ SF_viewVars(RowsArrive(i))
-----------------------------------------------------------------------------
ReadRequest == [at : {"none", "sent", "read"}, value : 0..MaxServed]
FollowedMutation ==
  [at : {"none", "sent", "done", "refresh", "shown"}, sent : 0..MaxServed, applied : 0..MaxServed,
   read : {0} \cup Slot, joined : BOOLEAN, value : 0..MaxServed]

ViewsTypeOK ==
  /\ served \in 0..MaxServed /\ inFlight \in {0} \cup Slot /\ shownRows \in 0..served
  /\ requests \in [Slot -> ReadRequest] /\ mutation \in FollowedMutation
  /\ viewLoads \in [View -> {0} \cup Slot] /\ age \in [View -> {"fresh", "recent", "old"}]
  /\ page \in [view : View \cup {Elsewhere}, user : BOOLEAN, visible : BOOLEAN]

(* The refresh after a mutation shows what the mutation did; when it joins *)
(* a read another part of the page began while the mutation was under way, *)
(* at least nothing from before the mutation was sent (api.ts:152-159).    *)
RefreshFollowsMutation ==
  mutation.at = "shown" => mutation.value >= IF mutation.joined THEN mutation.sent ELSE mutation.applied

(* A page left open and visible ends up showing what the server holds,     *)
(* however answers overtook each other before (App.tsx:611-685).           *)
Watching == page.view \in View /\ page.user /\ page.visible
ViewCatchesUp == <>[]Watching => <>[](shownRows = served)
=============================================================================
