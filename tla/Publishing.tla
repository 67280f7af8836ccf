---------------------------- MODULE Publishing ----------------------------
(***************************************************************************)
(* Hostnames published through Cloudflare tunnels: services/cloudflare.ts  *)
(* and routes/cloudflare.ts.  The rows of cloudflare_routes say what is to *)
(* be served; the tunnel's ingress and the CNAME of the hostname are kept  *)
(* at Cloudflare, and each request changes the rows and then both of them, *)
(* call by call.  Requests overlap; a call may fail, before or after it    *)
(* took effect; a person edits DNS records by hand.                        *)
(*                                                                         *)
(* One client, whose zone the settings name or not: a request reads them   *)
(* once.  A rule of the ingress is its hostname: the service it names is   *)
(* left out.  A tunnel has one assignment, of one container, which exists. *)
(* Database calls succeed.                                                 *)
(***************************************************************************)
EXTENDS Integers, Sequences, FiniteSets

CONSTANTS Host, Tunnel, Project,
          Caller,                          \* requests at a time
          Settings,                        \* what a behaviour may start from: the tunnels there are, those
                                           \* that may be created, and the kinds of requests of each caller
          MaxRoute, MaxRecord, MaxMishap   \* bounds: routes and DNS records made, failures and edits

ASSUME PublishingAssumption == /\ \A s \in Settings : s.ready \subseteq Tunnel /\ s.spare \subseteq Tunnel \ s.ready
                               /\ MaxRoute \in Nat /\ MaxRecord \in Nat /\ MaxMishap \in Nat
                               /\ "none" \notin Tunnel

VARIABLES
  setting,  \* one of the settings
  routes,   \* cloudflare_routes, by id
  tunnels,  \* cloudflare_tunnels with its assignment, the tunnel at Cloudflare, its connector
  dns,      \* the CNAME of each hostname; id 0: none
  issued,   \* DNS records made
  jobs,     \* requests, and what is left to do of each
  mishaps   \* failures and edits so far

publishingVars == <<setting, routes, tunnels, dns, issued, jobs, mishaps>>

RouteRow == [st : {"unused", "live", "gone"}, host : Host \cup {"none"}, tunnel : Tunnel \cup {"none"},
             project : Project \cup {"none"}, managed : BOOLEAN, zone : BOOLEAN, record : 0..MaxRecord, enabled : BOOLEAN]
ManagedTunnel == [row : BOOLEAN, remote : BOOLEAN, used : BOOLEAN, ingress : SUBSET Host, connector : BOOLEAN,
                  linked : {"none", "listed", "joined"}]
Cname == [id : 0..MaxRecord, target : Tunnel \cup {"none", "other"}]
OnHost == {"look", "point", "save", "drop", "erase", "assign", "spoil", "forget", "take"}
OnTunnel == {"rows", "put", "check", "rm", "run", "make", "token", "insert", "undo", "stop", "unmake", "unrow",
             "join", "leave", "unlist"}
TaskRow == [do : OnHost, host : Host, tunnel : Tunnel, record : 0..MaxRecord]
           \cup [do : OnTunnel, host : {"none"}, tunnel : Tunnel, record : {0}]
(* "serve" and "withdraw" are "publish" and "remove" when the settings name no zone; "ensure" is a  *)
(* publication that has its tunnel to create first.                                                 *)
Kinds == {"create", "retry", "delete", "publish", "serve", "ensure", "enable", "disable", "remove", "withdraw",
          "tunnel", "untunnel", "link", "unlink", "restart", "stop"}
Job == [kind : Kinds \cup {"none"},
        st : {"idle", "running", "ok"}, todo : Seq(TaskRow), route : 0..MaxRoute, was : RouteRow, rows : SUBSET Host,
        seen : Cname, put : SUBSET Tunnel, warned : BOOLEAN, alone : BOOLEAN]

NoRoute == [st |-> "unused", host |-> "none", tunnel |-> "none", project |-> "none", managed |-> FALSE,
            zone |-> TRUE, record |-> 0, enabled |-> FALSE]
NoCname == [id |-> 0, target |-> "none"]
NoJob == [kind |-> "none", st |-> "idle", todo |-> << >>, route |-> 0, was |-> NoRoute, rows |-> {}, seen |-> NoCname,
          put |-> {}, warned |-> FALSE, alone |-> FALSE]

(* row: the row; remote: the tunnel at Cloudflare; linked: its assignment. *)
TunnelThere(b) == [row |-> b, remote |-> b, used |-> b, ingress |-> {}, connector |-> b, linked |-> "none"]

PublishingInit ==
  /\ setting \in Settings
  /\ routes = [r \in 1..MaxRoute |-> NoRoute]
  /\ tunnels = [t \in Tunnel |-> [TunnelThere(t \in setting.ready) EXCEPT !.used = t \notin setting.spare]]
  /\ dns = [h \in Host |-> NoCname]
  /\ issued = 0
  /\ jobs = [c \in Caller |-> NoJob]
  /\ mishaps = 0

Rows == {r \in 1..MaxRoute : routes[r].st = "live"}
RowsOf(t) == {r \in Rows : routes[r].tunnel = t}
FreeIds == {r \in 1..MaxRoute : routes[r].st = "unused" /\ \A q \in 1..(r - 1) : routes[q].st # "unused"}

(* putTunnelConfig: the ingress generated from the enabled routes *)
RowsFor(t) == {routes[r].host : r \in {q \in RowsOf(t) : routes[q].enabled}}

Task(do, host, tunnel) == [do |-> do, host |-> host, tunnel |-> tunnel, record |-> 0]
PutConfig(t) == <<Task("rows", "none", t), Task("put", "none", t)>>
UpsertCname(h, t) == <<Task("look", h, t), Task("point", h, t), Task("save", h, t)>>
DropCname(h, t) == <<Task("look", h, t), Task("drop", h, t)>>
RunConnector(t) == <<Task("check", "none", t), Task("rm", "none", t), Task("run", "none", t)>>

(* A request begins, or something else happens: what is in progress, and what was answered, *)
(* is not alone any more.                                                                   *)
Disturbed == [c \in Caller |-> IF jobs[c].st = "running" THEN [jobs[c] EXCEPT !.alone = FALSE] ELSE NoJob]
Begin(c, kind, r, was, todo) ==
  jobs' = [Disturbed EXCEPT ![c] = [NoJob EXCEPT !.kind = kind, !.st = "running", !.route = r, !.was = was,
             !.todo = todo, !.alone = \A d \in Caller \ {c} : jobs[d].st # "running"]]

Idle(c, kind) == kind \in setting.kinds[c] /\ jobs[c].st # "running"
Change(r, row) == routes' = [routes EXCEPT ![r] = row]
NewRoute(h, t, p, m) == [NoRoute EXCEPT !.st = "live", !.host = h, !.tunnel = t, !.project = p, !.managed = m, !.enabled = TRUE]
(* The index of the hostnames is by zone: a row without one keeps no other row from its hostname. *)
Taken(r, h, z) == \E q \in Rows \ {r} : routes[q].host = h /\ routes[q].zone = z
-----------------------------------------------------------------------------
(* The requests, up to their first call to Cloudflare. *)

(* createManagedHostname *)
CreateHostname(c) ==
  /\ Idle(c, "create")
  /\ \E h \in Host, t \in Tunnel, p \in Project \cup {"none"}, r \in FreeIds :
       /\ tunnels[t].row /\ tunnels[t].linked # "none" /\ ~Taken(r, h, TRUE)
       /\ Change(r, NewRoute(h, t, p, TRUE))
       /\ Begin(c, "create", r, NewRoute(h, t, p, TRUE), PutConfig(t) \o UpsertCname(h, t))
  /\ UNCHANGED <<tunnels, dns, issued, mishaps>>

(* retryManagedHostname *)
RetryHostname(c) ==
  /\ Idle(c, "retry")
  /\ \E r \in Rows : LET w == routes[r] IN
       /\ Change(r, [w EXCEPT !.enabled = TRUE])
       /\ Begin(c, "retry", r, w, PutConfig(w.tunnel) \o UpsertCname(w.host, w.tunnel))
  /\ UNCHANGED <<tunnels, dns, issued, mishaps>>

(* deleteManagedHostname: a record whose id is known is not looked for. *)
DeleteHostname(c) ==
  /\ Idle(c, "delete")
  /\ \E r \in Rows : LET w == routes[r] IN
       Begin(c, "delete", r, w,
             (IF w.record # 0 THEN Tail(DropCname(w.host, w.tunnel)) ELSE DropCname(w.host, w.tunnel))
               \o <<Task("erase", w.host, w.tunnel)>> \o PutConfig(w.tunnel))
  /\ UNCHANGED <<routes, tunnels, dns, issued, mishaps>>

(* publishProjectRoute once it has its tunnel: any one of the project's routes is taken over. *)
Publication(c, k, p, h, t) ==
  LET mine == {r \in Rows : routes[r].project = p}
      rest(old) == <<Task("assign", h, t)>> \o UpsertCname(h, t) \o PutConfig(t)
                     \o (IF old \in {"none", t} THEN << >> ELSE PutConfig(old)) \o RunConnector(t)
  IN  \/ /\ mine = {}
         /\ \E r \in FreeIds : Begin(c, k, r, [NoRoute EXCEPT !.project = p, !.zone = (k = "publish")], rest("none"))
      \/ \E r \in mine : LET w == routes[r] IN
           Begin(c, k, r, w, (IF w.host # h THEN DropCname(w.host, w.tunnel) ELSE << >>) \o rest(w.tunnel))

PublishRoute(c) ==
  /\ \E k \in {"publish", "serve"}, p \in Project, h \in Host, t \in Tunnel :
       Idle(c, k) /\ tunnels[t].row /\ Publication(c, k, p, h, t)
  /\ UNCHANGED <<routes, tunnels, dns, issued, mishaps>>

(* ensureTunnelForNode has made the tunnel: the settings and the route are read only now. *)
TakeRoute(c) ==
  /\ jobs[c].st = "running" /\ Head(jobs[c].todo).do = "take"
  /\ \E k \in {"publish", "serve"} \cap setting.kinds[c] :
       Publication(c, k, jobs[c].was.project, Head(jobs[c].todo).host, Head(jobs[c].todo).tunnel)
  /\ UNCHANGED <<routes, tunnels, dns, issued, mishaps>>

(* enableProjectRoute, disableProjectRoute *)
SwitchRoute(c) ==
  /\ \E r \in Rows, k \in {"enable", "disable"} : LET w == routes[r] IN
       /\ Idle(c, k)
       /\ Change(r, [w EXCEPT !.enabled = (k = "enable")])
       /\ Begin(c, k, r, w, PutConfig(w.tunnel) \o (IF k = "enable" THEN RunConnector(w.tunnel) ELSE << >>))
  /\ UNCHANGED <<tunnels, dns, issued, mishaps>>

(* deleteProjectRoute *)
RemoveRoute(c) ==
  /\ \E r \in Rows, k \in {"remove", "withdraw"} : LET w == routes[r] IN
       /\ Idle(c, k)
       /\ Begin(c, k, r, w, DropCname(w.host, w.tunnel) \o <<Task("erase", w.host, w.tunnel)>> \o PutConfig(w.tunnel))
  /\ UNCHANGED <<routes, tunnels, dns, issued, mishaps>>

(* createManagedTunnel, by itself or for a publication whose node has no tunnel yet *)
Build(t) == <<Task("make", "none", t), Task("token", "none", t), Task("insert", "none", t)>> \o PutConfig(t) \o Tail(RunConnector(t))
CreateTunnel(c) ==
  /\ \E t \in Tunnel :
       /\ ~tunnels[t].used
       /\ \/ Idle(c, "tunnel") /\ Begin(c, "tunnel", 0, NoRoute, Build(t))
          \/ /\ Idle(c, "ensure")
             /\ \E p \in Project, h \in Host :
                  Begin(c, "ensure", 0, [NoRoute EXCEPT !.project = p], Build(t) \o <<Task("take", h, t)>>)
       /\ tunnels' = [tunnels EXCEPT ![t].used = TRUE]
  /\ UNCHANGED <<routes, dns, issued, mishaps>>

(* deleteManagedTunnel *)
DeleteTunnel(c) ==
  /\ Idle(c, "untunnel")
  /\ \E t \in Tunnel, force \in BOOLEAN :
       /\ tunnels[t].row
       /\ force \/ (RowsOf(t) = {} /\ tunnels[t].linked = "none")
       /\ \E order \in LET zoned == {r \in RowsOf(t) : routes[r].zone} IN
                       {s \in [1..Cardinality(zoned) -> zoned] : \A i, j \in DOMAIN s : s[i] = s[j] => i = j} :
            Begin(c, "untunnel", 0, NoRoute,
                  [i \in DOMAIN order |-> [Task("forget", routes[order[i]].host, t) EXCEPT !.record = routes[order[i]].record]]
                    \o <<Task("stop", "none", t), Task("unmake", "none", t), Task("unrow", "none", t)>>)
  /\ UNCHANGED <<routes, tunnels, dns, issued, mishaps>>

(* createTunnelAssignment, deleteTunnelAssignment, stopCloudflared, restartCloudflared *)
OtherRequest(c) ==
  /\ \E t \in Tunnel : /\ tunnels[t].row
       /\ \/ /\ Idle(c, "link") /\ tunnels[t].linked = "none"
             /\ tunnels' = [tunnels EXCEPT ![t].linked = "listed"]
             /\ Begin(c, "link", 0, NoRoute, <<Task("join", "none", t)>>)
          \/ /\ Idle(c, "unlink") /\ tunnels[t].linked # "none" /\ \A r \in RowsOf(t) : ~routes[r].managed
             /\ Begin(c, "unlink", 0, NoRoute, <<Task("leave", "none", t), Task("unlist", "none", t)>>)
             /\ UNCHANGED tunnels
          \/ /\ Idle(c, "restart")
             /\ Begin(c, "restart", 0, NoRoute, Tail(RunConnector(t)))
             /\ UNCHANGED tunnels
          \/ /\ Idle(c, "stop") /\ tunnels[t].connector
             /\ Begin(c, "stop", 0, NoRoute, <<Task("rm", "none", t)>>)
             /\ UNCHANGED tunnels
  /\ UNCHANGED <<routes, dns, issued, mishaps>>
-----------------------------------------------------------------------------
(* One call of a request. *)
Doing(c, do) == jobs[c].st = "running" /\ Head(jobs[c].todo).do = do
Now(c) == Head(jobs[c].todo)

Fails(j) == j.kind \in {"create", "retry", "tunnel", "ensure", "link"} /\ j.warned
Ended(j) == CASE j.todo # << >> -> j
              [] j.todo = << >> /\ (Fails(j) \/ ~j.alone) -> NoJob
              [] OTHER -> [j EXCEPT !.st = "ok", !.rows = {}, !.seen = NoCname]
Going(c, j) == jobs' = [jobs EXCEPT ![c] = Ended([j EXCEPT !.todo = Tail(@)])]

(* What a request does when the call at hand throws. *)
Caught(j) ==
  CASE Fails(j) -> Ended([j EXCEPT !.todo = Tail(@)])
    [] j.kind \in {"create", "retry"} /\ ~j.warned ->
         [j EXCEPT !.warned = TRUE, !.todo = <<Task("spoil", j.was.host, j.was.tunnel)>> \o PutConfig(j.was.tunnel)]
    [] j.kind \in {"tunnel", "ensure"} /\ ~j.warned /\ Head(j.todo).do \notin {"make", "token"} ->
         [j EXCEPT !.warned = TRUE, !.todo = <<Task("undo", "none", Head(j.todo).tunnel)>>]
    [] j.kind = "link" /\ ~j.warned -> [j EXCEPT !.warned = TRUE, !.todo = <<Task("unlist", "none", Head(j.todo).tunnel)>>]
    [] j.kind = "delete" -> Ended([j EXCEPT !.warned = TRUE, !.todo = IF Head(j.todo).do = "look" THEN Tail(Tail(@)) ELSE Tail(@)])
    [] j.kind = "untunnel" /\ Head(j.todo).do = "forget" -> Ended([j EXCEPT !.todo = Tail(@)])
    [] OTHER -> NoJob
Thrown(c) == jobs' = [jobs EXCEPT ![c] = Caught(jobs[c])]
Mishap == mishaps < MaxMishap /\ mishaps' = mishaps + 1

(* A call whose effect is P: it succeeds, its answer is lost, or it is refused. *)
Calls(c, P, same, then) ==
  \/ P /\ Going(c, then) /\ UNCHANGED mishaps
  \/ P /\ Thrown(c) /\ Mishap
  \/ same /\ Thrown(c) /\ Mishap

Rest == <<tunnels, dns, issued>>

ReadRows(c) ==
  /\ Doing(c, "rows")
  /\ Going(c, [jobs[c] EXCEPT !.rows = RowsFor(Now(c).tunnel)])
  /\ UNCHANGED <<routes, Rest, mishaps>>

PutIngress(c) ==
  /\ Doing(c, "put")
  /\ LET t == Now(c).tunnel IN
     IF tunnels[t].remote
     THEN Calls(c, tunnels' = [tunnels EXCEPT ![t].ingress = jobs[c].rows], UNCHANGED tunnels,
                [jobs[c] EXCEPT !.put = @ \cup {t}])
     ELSE Thrown(c) /\ UNCHANGED <<tunnels, mishaps>>
  /\ UNCHANGED <<routes, dns, issued>>

(* Without a zone nothing is looked for; a route made without one has no zone to look in. *)
Zoneless(j) == j.kind \in {"serve", "withdraw"}
Zoned(j) == j.kind \in {"retry", "delete"} => j.was.zone
LookUp(c) ==
  /\ Doing(c, "look")
  /\ \/ Zoneless(jobs[c]) /\ Going(c, jobs[c]) /\ UNCHANGED mishaps
     \/ /\ ~Zoneless(jobs[c])
        /\ Zoned(jobs[c])
        /\ Calls(c, TRUE, TRUE, [jobs[c] EXCEPT !.seen = dns[Now(c).host]])
     \/ ~Zoned(jobs[c]) /\ Thrown(c) /\ UNCHANGED mishaps
  /\ UNCHANGED <<routes, Rest>>

(* upsertDnsRecordForRoute, upsertTunnelDnsRecord *)
UpToDate_Any(seen, t) == seen.id # 0
UpToDate(seen, t) == seen.id # 0 /\ seen.target = t

Point(c) ==
  /\ Doing(c, "point")
  /\ LET h == Now(c).host
         t == Now(c).tunnel
         s == jobs[c].seen
     IN  \/ /\ Zoneless(jobs[c]) \/ UpToDate(s, t)
            /\ Going(c, jobs[c]) /\ UNCHANGED <<dns, issued, mishaps>>
         \/ /\ ~Zoneless(jobs[c]) /\ ~UpToDate(s, t) /\ s.id # 0 /\ dns[h].id = s.id
            /\ Calls(c, dns' = [dns EXCEPT ![h].target = t], UNCHANGED dns, jobs[c])
            /\ UNCHANGED issued
         \/ /\ ~Zoneless(jobs[c]) /\ s.id = 0 /\ dns[h].id = 0 /\ issued < MaxRecord
            /\ LET new == [id |-> issued + 1, target |-> t] IN
               Calls(c, dns' = [dns EXCEPT ![h] = new] /\ issued' = issued + 1, UNCHANGED <<dns, issued>>, [jobs[c] EXCEPT !.seen = new])
         \/ /\ ~Zoneless(jobs[c]) /\ ~UpToDate(s, t) /\ dns[h].id # s.id
            /\ Thrown(c) /\ UNCHANGED <<dns, issued, mishaps>>
  /\ UNCHANGED <<routes, tunnels>>

SaveRecord(c) ==
  /\ Doing(c, "save")
  /\ LET r == jobs[c].route IN
     IF r \in Rows /\ ~Zoneless(jobs[c]) THEN Change(r, [routes[r] EXCEPT !.record = jobs[c].seen.id]) /\ Going(c, jobs[c])
     ELSE UNCHANGED routes /\ Going(c, jobs[c])
  /\ UNCHANGED <<Rest, mishaps>>

(* The error path of createManagedHostname and retryManagedHostname *)
Spoil(c) ==
  /\ Doing(c, "spoil")
  /\ LET r == jobs[c].route IN
     IF r \in Rows THEN Change(r, [routes[r] EXCEPT !.enabled = FALSE]) ELSE UNCHANGED routes
  /\ Going(c, jobs[c])
  /\ UNCHANGED <<Rest, mishaps>>

(* deleteDnsRecordForRoute goes by the id of the row, if it has one; deleteTunnelDnsRecord *)
(* by the id or the target of what it has seen.  What Cloudflare answers about a zone it    *)
(* does not know may be taken for a record that is gone.                                    *)
Matches(j, t) ==
  IF j.kind = "delete" /\ j.was.record # 0 THEN j.was.record
  ELSE IF j.seen.target = t \/ (j.kind # "delete" /\ j.seen.id = j.was.record) THEN j.seen.id
  ELSE 0

DropRecord(c) ==
  /\ Doing(c, "drop")
  /\ LET h == Now(c).host
         i == Matches(jobs[c], Now(c).tunnel)
     IN  IF Zoneless(jobs[c]) \/ i = 0 THEN Going(c, jobs[c]) /\ UNCHANGED <<dns, mishaps>>
         ELSE IF ~Zoned(jobs[c]) THEN (Thrown(c) \/ Going(c, jobs[c])) /\ UNCHANGED <<dns, mishaps>>
         ELSE IF dns[h].id = i THEN Calls(c, dns' = [dns EXCEPT ![h] = NoCname], UNCHANGED dns, jobs[c])
         ELSE /\ IF jobs[c].kind = "delete" THEN Going(c, jobs[c]) ELSE Thrown(c)
              /\ UNCHANGED <<dns, mishaps>>
  /\ UNCHANGED <<routes, tunnels, issued>>

EraseRow(c) ==
  /\ Doing(c, "erase")
  /\ LET r == jobs[c].route IN IF r \in Rows THEN Change(r, [NoRoute EXCEPT !.st = "gone"]) ELSE UNCHANGED routes
  /\ Going(c, jobs[c])
  /\ UNCHANGED <<Rest, mishaps>>

(* publishProjectRoute writes its row, which keeps the zone it was made with. *)
AssignRow(c) ==
  /\ Doing(c, "assign")
  /\ LET r == jobs[c].route
         h == Now(c).host
         t == Now(c).tunnel
         w == jobs[c].was
         taken == Taken(r, h, IF r \in Rows THEN routes[r].zone ELSE w.zone)
     IN  \/ /\ tunnels[t].row /\ ~taken
            /\ \/ r \in Rows /\ Change(r, [routes[r] EXCEPT !.tunnel = t, !.host = h, !.enabled = TRUE, !.record = 0])
               \/ w.st = "unused" /\ r \in FreeIds /\ Change(r, [NewRoute(h, t, w.project, FALSE) EXCEPT !.zone = w.zone])
               \/ w.st = "live" /\ r \notin Rows /\ UNCHANGED routes
            /\ Going(c, jobs[c])
         \/ /\ ~tunnels[t].row \/ taken
            /\ Thrown(c) /\ UNCHANGED routes
  /\ UNCHANGED <<Rest, mishaps>>

(* ensureCloudflaredRunning, startCloudflared: docker rm -f, docker run *)
Connector(c) ==
  /\ LET t == Now(c).tunnel IN
         \/ /\ Doing(c, "check") /\ tunnels[t].connector
            /\ jobs' = [jobs EXCEPT ![c] = Ended([jobs[c] EXCEPT !.todo = Tail(Tail(Tail(@)))])]
            /\ UNCHANGED <<tunnels, mishaps>>
         \/ /\ Doing(c, "check") /\ ~tunnels[t].connector
            /\ Going(c, jobs[c]) /\ UNCHANGED <<tunnels, mishaps>>
         \/ /\ Doing(c, "rm")
            /\ tunnels' = [tunnels EXCEPT ![t].connector = FALSE]
            /\ Going(c, jobs[c]) /\ UNCHANGED mishaps
         \/ /\ Doing(c, "run") /\ ~tunnels[t].connector
            /\ Calls(c, tunnels' = [tunnels EXCEPT ![t].connector = TRUE], UNCHANGED tunnels, jobs[c])
         \/ /\ Doing(c, "run") /\ tunnels[t].connector
            /\ Thrown(c) /\ UNCHANGED <<tunnels, mishaps>>
  /\ UNCHANGED <<routes, dns, issued>>

(* The calls of createManagedTunnel and of its error path: the row stays. *)
BuildTunnel(c) ==
  /\ LET t == Now(c).tunnel IN
     \/ /\ Doing(c, "make")
        /\ Calls(c, tunnels' = [tunnels EXCEPT ![t].remote = TRUE], UNCHANGED tunnels, jobs[c])
     \/ /\ Doing(c, "token")
        /\ Calls(c, UNCHANGED tunnels, UNCHANGED tunnels, jobs[c])
     \/ /\ Doing(c, "insert")
        /\ tunnels' = [tunnels EXCEPT ![t].row = TRUE]
        /\ Going(c, jobs[c]) /\ UNCHANGED mishaps
     \/ /\ Doing(c, "undo")
        /\ \/ tunnels' = [tunnels EXCEPT ![t] = [tunnels[t] EXCEPT !.remote = FALSE, !.ingress = {}]] /\ UNCHANGED mishaps
           \/ UNCHANGED tunnels /\ Mishap
        /\ Going(c, jobs[c])
  /\ UNCHANGED <<routes, dns, issued>>

(* The calls of deleteManagedTunnel: Cloudflare refuses to delete what is gone. *)
(* "forget" is deleteDnsRecordForRoute, its two calls in one step; about a row  *)
(* without a zone they fail, which is ignored.                                  *)
BreakTunnel(c) ==
  LET t == Now(c).tunnel
      h == Now(c).host
      mine == IF Now(c).record # 0 THEN dns[h].id = Now(c).record ELSE dns[h].target = t
  IN  \/ /\ Doing(c, "forget")
         /\ Calls(c, dns' = [dns EXCEPT ![h] = IF mine THEN NoCname ELSE @], UNCHANGED dns, jobs[c])
         /\ UNCHANGED <<routes, tunnels, issued>>
      \/ /\ Doing(c, "stop")
         /\ tunnels' = [tunnels EXCEPT ![t].connector = FALSE]
         /\ Going(c, jobs[c]) /\ UNCHANGED <<routes, dns, issued, mishaps>>
      \/ /\ Doing(c, "unmake") /\ tunnels[t].remote
         /\ Calls(c, tunnels' = [tunnels EXCEPT ![t] = [tunnels[t] EXCEPT !.remote = FALSE, !.ingress = {}]], UNCHANGED tunnels, jobs[c])
         /\ UNCHANGED <<routes, dns, issued>>
      \/ /\ Doing(c, "unmake") /\ ~tunnels[t].remote
         /\ Thrown(c) /\ UNCHANGED <<routes, tunnels, dns, issued, mishaps>>
      \/ /\ Doing(c, "unrow")
         /\ tunnels' = [tunnels EXCEPT ![t] = [TunnelThere(FALSE) EXCEPT !.used = TRUE]]
         /\ routes' = [r \in DOMAIN routes |-> IF r \in RowsOf(t) THEN [NoRoute EXCEPT !.st = "gone"] ELSE routes[r]]
         /\ Going(c, jobs[c]) /\ UNCHANGED <<dns, issued, mishaps>>

(* The calls of createTunnelAssignment and deleteTunnelAssignment; a route keeps its assignment. *)
Assignment(c) ==
  /\ LET t == Now(c).tunnel IN
     \/ /\ Doing(c, "join")
        /\ Calls(c, tunnels' = [tunnels EXCEPT ![t].linked = IF tunnels[t].linked = "none" THEN "none" ELSE "joined"], UNCHANGED tunnels, jobs[c])
     \/ /\ Doing(c, "leave")
        /\ tunnels' = [tunnels EXCEPT ![t].linked = IF tunnels[t].linked = "none" THEN "none" ELSE "listed"]
        /\ Going(c, jobs[c]) /\ UNCHANGED mishaps
     \/ /\ Doing(c, "unlist") /\ \A r \in RowsOf(t) : ~routes[r].managed
        /\ tunnels' = [tunnels EXCEPT ![t].linked = "none"]
        /\ Going(c, jobs[c]) /\ UNCHANGED mishaps
     \/ /\ Doing(c, "unlist") /\ \E r \in RowsOf(t) : routes[r].managed
        /\ jobs' = [jobs EXCEPT ![c] = NoJob]
        /\ UNCHANGED <<tunnels, mishaps>>
  /\ UNCHANGED <<routes, dns, issued>>
-----------------------------------------------------------------------------
(* reconcileTunnelAssignments and ensureEnabledCloudflaredConnectors at start-up, a tunnel at a time *)
Reconcile(t) ==
  /\ \A c \in Caller : jobs[c].st # "running"
  /\ tunnels[t].row
  /\ tunnels' = [tunnels EXCEPT ![t] = [tunnels[t] EXCEPT !.connector = TRUE, !.linked = IF tunnels[t].linked = "none" THEN "none" ELSE "joined"]]
  /\ jobs' = Disturbed
  /\ UNCHANGED <<routes, dns, issued, mishaps>>

(* A person edits the zone: createDnsRecord, updateDnsRecord, deleteDnsRecord. *)
EditDns(h) ==
  /\ \/ dns[h].id = 0 /\ issued < MaxRecord /\ dns' = [dns EXCEPT ![h] = [id |-> issued + 1, target |-> "other"]] /\ issued' = issued + 1
     \/ dns[h].id # 0 /\ dns' = [dns EXCEPT ![h].target = "other"] /\ UNCHANGED issued
     \/ dns[h].id # 0 /\ dns' = [dns EXCEPT ![h] = NoCname] /\ UNCHANGED issued
  /\ Mishap
  /\ jobs' = Disturbed
  /\ UNCHANGED <<routes, tunnels>>

(* deleteProject: the routes go with it, nothing is called. *)
DropProject(p) ==
  /\ \E r \in Rows : routes[r].project = p
  /\ routes' = [r \in DOMAIN routes |-> IF routes[r].project = p THEN [NoRoute EXCEPT !.st = "gone"] ELSE routes[r]]
  /\ Mishap
  /\ jobs' = Disturbed
  /\ UNCHANGED <<tunnels, dns, issued>>

PublishingNext ==
  /\ UNCHANGED setting
  /\ \/ \E c \in Caller :
          \/ CreateHostname(c) \/ RetryHostname(c) \/ DeleteHostname(c) \/ PublishRoute(c) \/ SwitchRoute(c) \/ RemoveRoute(c)
          \/ CreateTunnel(c) \/ TakeRoute(c) \/ DeleteTunnel(c) \/ OtherRequest(c)
          \/ ReadRows(c) \/ PutIngress(c) \/ LookUp(c) \/ Point(c) \/ SaveRecord(c) \/ Spoil(c) \/ DropRecord(c) \/ EraseRow(c)
          \/ AssignRow(c) \/ Connector(c) \/ BuildTunnel(c) \/ BreakTunnel(c) \/ Assignment(c)
     \/ \E t \in Tunnel : Reconcile(t)
     \/ \E h \in Host : EditDns(h)
     \/ \E p \in Project : DropProject(p)

PublishingSpec == PublishingInit /\ [][PublishingNext]_publishingVars
-----------------------------------------------------------------------------
PublishingTypeOK ==
  /\ setting \in Settings
  /\ routes \in [1..MaxRoute -> RouteRow]
  /\ tunnels \in [Tunnel -> ManagedTunnel]
  /\ dns \in [Host -> Cname]
  /\ issued \in 0..MaxRecord
  /\ jobs \in [Caller -> Job]
  /\ mishaps \in 0..MaxMishap

(* A request that nothing overlapped and that answered success leaves what *)
(* it promised, whatever failed or was edited before it: the ingress of    *)
(* the tunnels it wrote is that of the enabled rows, and the record of a   *)
(* hostname points to the tunnel under the id in its row, or is gone.      *)
(* Without a zone, in the settings or in the row, nothing is promised of   *)
(* the records.                                                            *)
Promised(j) ==
  LET r == j.route
      w == j.was
  IN  /\ \A t \in j.put : tunnels[t].ingress = RowsFor(t)
      /\ j.kind \in {"create", "retry", "publish", "serve"} =>
           /\ r \in Rows /\ routes[r].enabled /\ routes[r].host \in tunnels[routes[r].tunnel].ingress
           /\ ~Zoneless(j) => dns[routes[r].host] = [id |-> routes[r].record, target |-> routes[r].tunnel]
      /\ j.kind \in {"enable", "publish", "serve"} => tunnels[routes[r].tunnel].connector
      /\ j.kind \in {"delete", "remove", "withdraw"} =>
           /\ r \notin Rows
           /\ ~Zoneless(j) /\ Zoned(j) /\ ~j.warned =>
                IF w.record # 0 THEN dns[w.host].id # w.record ELSE dns[w.host].target # w.tunnel
SuccessIsKept == \A c \in Caller : jobs[c].st = "ok" /\ jobs[c].alone => Promised(jobs[c])
=============================================================================
