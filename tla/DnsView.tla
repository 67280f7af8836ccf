------------------------------- MODULE DnsView -------------------------------
(***************************************************************************)
(* The DNS page of the client: loadView, loadViewWithState, selectDnsClient *)
(* and the record edits of client/App.tsx.                                 *)
(*                                                                         *)
(* The page shows the records of one Cloudflare client.  A load of the     *)
(* page fetches the clients and then the records of one of them; choosing  *)
(* another client fetches its records, unless they were fetched a moment   *)
(* ago; an edit changes what is shown when it is answered.  Answers come   *)
(* in any order, or fail.  A list of records is the set of the clients its *)
(* rows come from; "" is no client.                                        *)
(***************************************************************************)
EXTENDS Naturals, FiniteSets

CONSTANTS DnsClient,      \* Cloudflare clients
          DefaultClient,  \* the one named "Default Cloudflare"
          MaxFetch        \* bound: fetches begun

ASSUME DnsAssumption == DefaultClient \in DnsClient /\ "" \notin DnsClient /\ MaxFetch \in Nat

VARIABLES
  existing,   \* the clients there are at the server
  picked,     \* dnsClientIdRef
  tab,        \* dnsClientId, as shown
  shown,      \* dnsRecords
  dnsCache,   \* dnsRecordsCacheRef: the records kept for each client
  latest,     \* dnsLoadRequestRef
  load,       \* the load of the page in flight, if any
  fetches,    \* record fetches of selectDnsClient in flight
  edit,       \* the edit in flight
  recent,     \* whether the page was loaded less than VIEW_REUSE_MS ago
  onPage,
  leftover,   \* the client shown has vanished and the records of the next are on their way
  crossed     \* an edit ended when another client had been chosen

dnsVars == <<existing, picked, tab, shown, dnsCache, latest, load, fetches, edit, recent, onPage, leftover, crossed>>

NotKept == [kept |-> FALSE, rows |-> {}]
NoLoad == [at |-> "none", id |-> 0, client |-> ""]
NoEdit == [client |-> "", base |-> {}]

PageLoad == [at : {"none", "lists", "records"}, id : 0..MaxFetch, client : DnsClient \cup {""}]
RecordFetch == [id : 1..MaxFetch, client : DnsClient]

DnsInit ==
  /\ existing = DnsClient
  /\ picked = "" /\ tab = "" /\ shown = {} /\ latest = 0
  /\ dnsCache = [k \in DnsClient |-> NotKept]
  /\ load = NoLoad /\ fetches = {} /\ edit = NoEdit
  /\ recent = FALSE /\ onPage = FALSE /\ leftover = FALSE /\ crossed = FALSE

IsLatest_Always(id) == TRUE
IsLatest(id) == id = latest
Show(rows) == shown' = rows /\ leftover' = FALSE
ShowsOn == UNCHANGED <<shown, leftover>>
Keep(k, rows) == dnsCache' = [dnsCache EXCEPT ![k] = [kept |-> TRUE, rows |-> rows]]
RecordsOf(k) == IF k = "" THEN {} ELSE {k}
Stays == UNCHANGED <<existing, crossed, edit, onPage>>
-----------------------------------------------------------------------------
(* loadViewWithState("dns"): a load in flight is shared, a recent one is enough for the effect. *)
StartLoad ==
  /\ latest < MaxFetch /\ latest' = latest + 1
  /\ load' = [NoLoad EXCEPT !.at = "lists", !.id = latest + 1]

EnterPage ==
  /\ ~onPage /\ onPage' = TRUE /\ picked' = ""
  /\ IF recent \/ load.at # "none" THEN UNCHANGED <<latest, load>> ELSE StartLoad
  /\ UNCHANGED <<existing, tab, dnsCache, fetches, edit, recent, crossed>> /\ ShowsOn

LeavePage ==
  /\ onPage /\ onPage' = FALSE
  /\ UNCHANGED <<existing, picked, tab, dnsCache, latest, load, fetches, edit, recent, crossed>> /\ ShowsOn

RefreshPage ==
  /\ onPage /\ load.at = "none" /\ StartLoad
  /\ UNCHANGED <<picked, tab, dnsCache, fetches, recent>> /\ ShowsOn /\ Stays

LoadEnds(ok) == load' = NoLoad /\ recent' = (ok \/ recent)

(* The settings and the clients have arrived: the client chosen stays if it is still there. *)
ListsArrive ==
  /\ load.at = "lists"
  /\ IF ~IsLatest(load.id)
     THEN LoadEnds(TRUE) /\ ShowsOn /\ UNCHANGED <<picked, tab>>
     ELSE \E k \in IF picked \in existing THEN {picked}
                   ELSE IF DefaultClient \in existing THEN {DefaultClient}
                   ELSE IF existing # {} THEN existing ELSE {""} :
            /\ picked' = k /\ tab' = k
            /\ IF k # "" /\ dnsCache[k].kept
               THEN LoadEnds(TRUE) /\ Show(dnsCache[k].rows)
               ELSE /\ load' = [load EXCEPT !.at = "records", !.client = k]
                    /\ UNCHANGED <<recent, shown>> /\ leftover' = ~(shown \subseteq RecordsOf(k))
  /\ UNCHANGED <<dnsCache, latest, fetches>> /\ Stays

RecordsArrive ==
  /\ load.at = "records"
  /\ LoadEnds(TRUE)
  /\ IF IsLatest(load.id)
     THEN /\ Show(RecordsOf(load.client))
          /\ IF load.client # "" THEN Keep(load.client, RecordsOf(load.client)) ELSE UNCHANGED dnsCache
     ELSE ShowsOn /\ UNCHANGED dnsCache
  /\ UNCHANGED <<picked, tab, latest, fetches>> /\ Stays

LoadFails ==
  /\ load.at # "none" /\ LoadEnds(FALSE)
  /\ UNCHANGED <<picked, tab, dnsCache, latest, fetches>> /\ ShowsOn /\ Stays
-----------------------------------------------------------------------------
(* selectDnsClient: a client that was on the list *)
SelectDnsClient(k) ==
  /\ onPage /\ k # picked
  /\ latest < MaxFetch /\ latest' = latest + 1
  /\ picked' = k /\ tab' = k
  /\ IF dnsCache[k].kept THEN Show(dnsCache[k].rows) /\ UNCHANGED fetches
     ELSE Show({}) /\ fetches' = fetches \cup {[id |-> latest + 1, client |-> k]}
  /\ UNCHANGED <<dnsCache, load, recent>> /\ Stays

FetchEnds(r) ==
  /\ fetches' = fetches \ {r}
  /\ \/ /\ IsLatest(r.id)
        /\ Keep(r.client, RecordsOf(r.client)) /\ Show(RecordsOf(r.client))
     \/ ShowsOn /\ UNCHANGED dnsCache
  /\ UNCHANGED <<picked, tab, latest, load, recent>> /\ Stays

(* createDnsRecord, updateDnsRecord, deleteDnsRecord: the handler goes on with the client and the *)
(* records of the moment it was called.                                                           *)
SubmitEdit ==
  /\ onPage /\ edit = NoEdit /\ tab # ""
  /\ edit' = [client |-> tab, base |-> shown]
  /\ crossed' = (crossed \/ ~(shown \subseteq {tab}))
  /\ UNCHANGED <<existing, picked, tab, dnsCache, latest, load, fetches, recent, onPage>> /\ ShowsOn

EditEnds ==
  /\ edit # NoEdit /\ edit' = NoEdit
  /\ \/ /\ Show(edit.base \cup {edit.client}) /\ Keep(edit.client, edit.base \cup {edit.client})
        /\ crossed' = (crossed \/ tab # edit.client)
     \/ ShowsOn /\ UNCHANGED <<dnsCache, crossed>>
  /\ UNCHANGED <<existing, picked, tab, latest, load, fetches, recent, onPage>>
-----------------------------------------------------------------------------
(* VIEW_REUSE_MS go by; a client is removed on another page. *)
CacheAges ==
  /\ \/ recent /\ recent' = FALSE /\ UNCHANGED <<dnsCache, existing>>
     \/ \E k \in DnsClient : dnsCache[k].kept /\ dnsCache' = [dnsCache EXCEPT ![k] = NotKept] /\ UNCHANGED <<recent, existing>>
     \/ \E k \in existing : existing' = existing \ {k} /\ UNCHANGED <<recent, dnsCache>>
  /\ UNCHANGED <<picked, tab, latest, load, fetches, edit, onPage, crossed>> /\ ShowsOn

DnsNext ==
  \/ EnterPage \/ LeavePage \/ RefreshPage \/ ListsArrive \/ RecordsArrive \/ LoadFails
  \/ \E k \in DnsClient : SelectDnsClient(k)
  \/ \E r \in fetches : FetchEnds(r)
  \/ SubmitEdit \/ EditEnds \/ CacheAges

DnsSpec == DnsInit /\ [][DnsNext]_dnsVars
-----------------------------------------------------------------------------
DnsTypeOK ==
  /\ existing \subseteq DnsClient /\ {picked, tab} \subseteq DnsClient \cup {""} /\ shown \subseteq DnsClient
  /\ dnsCache \in [DnsClient -> [kept : BOOLEAN, rows : SUBSET DnsClient]]
  /\ latest \in 0..MaxFetch /\ load \in PageLoad /\ load.id <= latest
  /\ fetches \subseteq RecordFetch /\ \A r \in fetches : r.id <= latest
  /\ edit \in {NoEdit} \cup [client : DnsClient, base : SUBSET DnsClient]
  /\ {recent, onPage, leftover, crossed} \subseteq BOOLEAN

(* Under the tab of a client there are records of that client only, and so in what is kept for    *)
(* it, however late or in which order the answers come: unless an edit was answered after another *)
(* client had been chosen, or the client that was shown is gone (App.tsx:555-590, 1544-1620).     *)
DnsShowsSelected ==
  crossed \/ /\ leftover \/ shown \subseteq {tab}
             /\ \A k \in DnsClient : dnsCache[k].rows \subseteq {k}
=============================================================================
