--------------------------------- MODULE Frp ---------------------------------
(***************************************************************************)
(* Public ports through FRP: services/frp.ts and routes/frp.ts.            *)
(*                                                                         *)
(* The rows of frp_tunnels say which public port goes where.  The owner    *)
(* takes a configuration made of the enabled rows to a machine, whose frpc *)
(* reads it when it starts and registers each tunnel, under the tunnel's   *)
(* id, with the FRP server, a container this service starts and stops.     *)
(* People register proxies of their own too.  The page shows a row as      *)
(* online if the dashboard lists a proxy for it that is: the rows, the     *)
(* file, what frpc loaded and what the server knows may all differ, and    *)
(* the dashboard may not answer.  frpc and the server are external; one    *)
(* machine.  Names are numbers, so that an id may be compared with one.    *)
(***************************************************************************)
EXTENDS Naturals, FiniteSets, Sequences

CONSTANTS MaxTunnel,                  \* bound: tunnels created
          Name,                       \* names a person may choose
          frpPortStart, frpPortEnd    \* the range of public ports

ASSUME FrpAssumption ==
  /\ MaxTunnel \in Nat /\ {frpPortStart, frpPortEnd} \subseteq Nat /\ frpPortStart <= frpPortEnd
  /\ Name \subseteq Nat \ (0..MaxTunnel) /\ Name # {}

Port == frpPortStart..frpPortEnd
Protocol == {"tcp", "udp"}

VARIABLES
  frpTunnels,   \* frp_tunnels, by id
  publicHost,   \* whether app_settings has frp.public_host
  frpcFile,     \* the tunnels in the file on the machine
  frpcLoaded,   \* what frpc has loaded; empty when it does not run
  frpcRuns,
  frpServer,    \* whether the container runs
  proxies       \* what the server knows of the proxies, by name: the id of a tunnel, or a person's choice

frpVars == <<frpTunnels, publicHost, frpcFile, frpcLoaded, frpcRuns, frpServer, proxies>>

NoTunnel == [st |-> "unused", name |-> 0, protocol |-> "tcp", port |-> 0, enabled |-> FALSE]
TunnelId == 1..MaxTunnel
Generated == 0..MaxTunnel   \* 0: the sample in a file made without a tunnel
ProxyId == Generated \cup Name
NoProxy == [status |-> "none", protocol |-> "tcp", port |-> 0]

TunnelRow == [st : {"unused", "row", "deleted"}, name : Name \cup {0}, protocol : Protocol, port : Port \cup {0}, enabled : BOOLEAN]
FrpcProxy == [id : Generated, protocol : Protocol, port : Port]
ServerProxy == [status : {"none", "online", "offline"}, protocol : Protocol, port : Port \cup {0}]

FrpInit ==
  /\ frpTunnels = [t \in TunnelId |-> NoTunnel]
  /\ publicHost = FALSE /\ frpcRuns = FALSE /\ frpServer = FALSE
  /\ frpcFile = {} /\ frpcLoaded = {}
  /\ proxies = [t \in ProxyId |-> NoProxy]

TunnelRows == {t \in TunnelId : frpTunnels[t].st = "row"}
MachineUnchanged == UNCHANGED <<frpcFile, frpcLoaded, frpcRuns, frpServer, proxies>>
-----------------------------------------------------------------------------
SaveFrpSettings ==
  /\ publicHost' \in BOOLEAN
  /\ UNCHANGED frpTunnels /\ MachineUnchanged

(* createFrpTunnel, updateFrpTunnel: the index keeps a port and protocol to one row. *)
PortFree(t, p, n) == \A u \in TunnelRows \ {t} : ~(frpTunnels[u].protocol = p /\ frpTunnels[u].port = n)

WriteTunnel(t, name, p, n, e) ==
  /\ e => publicHost
  /\ PortFree(t, p, n)
  /\ frpTunnels' = [frpTunnels EXCEPT ![t] = [st |-> "row", name |-> name, protocol |-> p, port |-> n, enabled |-> e]]
  /\ UNCHANGED publicHost /\ MachineUnchanged

CreateFrpTunnel ==
  \E t \in TunnelId, name \in Name, p \in Protocol, n \in Port, e \in BOOLEAN :
    /\ frpTunnels[t].st = "unused" /\ \A u \in 1..(t - 1) : frpTunnels[u].st # "unused"
    /\ WriteTunnel(t, name, p, n, e)

UpdateFrpTunnel ==
  \E t \in TunnelRows, name \in Name, p \in Protocol, n \in Port, e \in BOOLEAN : WriteTunnel(t, name, p, n, e)

DeleteFrpTunnel ==
  /\ \E t \in TunnelRows : frpTunnels' = [frpTunnels EXCEPT ![t] = [NoTunnel EXCEPT !.st = "deleted"]]
  /\ UNCHANGED publicHost /\ MachineUnchanged
-----------------------------------------------------------------------------
(* frpClientSetup, buildFrpcToml, sampleTunnel *)
SampleTunnel == [id |-> 0, protocol |-> "tcp", port |-> IF 6000 \in Port THEN 6000 ELSE frpPortStart]
Proxy(t) == [id |-> t, protocol |-> frpTunnels[t].protocol, port |-> frpTunnels[t].port]
EnabledRows == {t \in TunnelRows : frpTunnels[t].enabled}
FrpcToml == IF EnabledRows = {} THEN {SampleTunnel} ELSE {Proxy(t) : t \in EnabledRows}

RowsUnchanged == UNCHANGED <<frpTunnels, publicHost>>
Offline(ps) == [u \in ProxyId |-> IF u \in Generated /\ ps[u].status = "online" THEN [ps[u] EXCEPT !.status = "offline"] ELSE ps[u]]

(* The install script writes the file and enables the service, which starts if it does not run. *)
InstallFrpc ==
  /\ publicHost
  /\ frpcFile' = FrpcToml /\ frpcRuns' = TRUE
  /\ frpcLoaded' = IF frpcRuns THEN frpcLoaded ELSE FrpcToml
  /\ UNCHANGED <<frpServer, proxies>> /\ RowsUnchanged

FrpcRestarts ==
  /\ frpcRuns /\ frpcLoaded' = frpcFile
  /\ proxies' = Offline(proxies)
  /\ UNCHANGED <<frpcFile, frpcRuns, frpServer>> /\ RowsUnchanged

(* frpc registers a tunnel; a person registers a proxy under a name, whatever there is *)
(* in the rows.  The server refuses a port that another one holds.                      *)
Serves(u, p, n) == proxies[u] = [status |-> "online", protocol |-> p, port |-> n]
Register(u, p, n) ==
  /\ \A v \in ProxyId : ~Serves(v, p, n)
  /\ proxies' = [proxies EXCEPT ![u] = [status |-> "online", protocol |-> p, port |-> n]]
Registers ==
  /\ frpServer
  /\ \/ \E x \in frpcLoaded : Register(x.id, x.protocol, x.port)
     \/ \E name \in Name, p \in Protocol, n \in Port : Register(name, p, n)
  /\ UNCHANGED <<frpcFile, frpcLoaded, frpcRuns, frpServer>> /\ RowsUnchanged

(* The local service or the connection goes away. *)
GoesOffline ==
  /\ \E t \in ProxyId : /\ proxies[t].status = "online"
                         /\ proxies' = [proxies EXCEPT ![t].status = "offline"]
  /\ UNCHANGED <<frpcFile, frpcLoaded, frpcRuns, frpServer>> /\ RowsUnchanged

(* controlFrpServer: start, stop, restart.  A server that starts knows no proxy. *)
ControlFrpServer ==
  /\ \/ frpServer' = TRUE /\ proxies' = IF frpServer THEN proxies ELSE [t \in ProxyId |-> NoProxy]
     \/ frpServer' = TRUE /\ proxies' = [t \in ProxyId |-> NoProxy]
     \/ frpServer' = FALSE /\ proxies' = [t \in ProxyId |-> NoProxy]
  /\ UNCHANGED <<frpcFile, frpcLoaded, frpcRuns>> /\ RowsUnchanged
-----------------------------------------------------------------------------
FrpNext ==
  \/ SaveFrpSettings \/ CreateFrpTunnel \/ UpdateFrpTunnel \/ DeleteFrpTunnel
  \/ InstallFrpc \/ FrpcRestarts \/ Registers \/ GoesOffline \/ ControlFrpServer

FrpSpec == FrpInit /\ [][FrpNext]_frpVars
-----------------------------------------------------------------------------
(* readFrpToken, dashboardRequest, containerState: the protocols whose list is answered; none of them *)
(* when the container is not seen to run, the token cannot be read or the dashboard is late.           *)
Answers == SUBSET Protocol

(* dashboardData *)
Listed(answered) == {u \in ProxyId : frpServer /\ proxies[u].status # "none" /\ proxies[u].protocol \in answered}

(* findFrpTunnelProxy: by id, name or port, of the same protocol; one that is online if there is one. *)
(* The dashboard lists the proxies of each protocol in an order of its own.                            *)
IsOf(u, t) == u \in {t, frpTunnels[t].name} \/ proxies[u].port = frpTunnels[t].port
Found_AnyProtocol(t, answered) == {u \in Listed(answered) : IsOf(u, t)}
Found(t, answered) == {u \in Listed(answered) : proxies[u].protocol = frpTunnels[t].protocol /\ IsOf(u, t)}
Preferred(s) == IF \E u \in s : proxies[u].status = "online" THEN {u \in s : proxies[u].status = "online"} ELSE s

(* tunnelStatus, in frpOverview; nothing writes last_error or the status "error". *)
MayShow(t, answered) ==
  IF ~frpTunnels[t].enabled THEN {"disabled"}
  ELSE IF Found(t, answered) = {} THEN {"offline"}
  ELSE {IF proxies[u].status = "online" THEN "online" ELSE "offline" : u \in Preferred(Found(t, answered))}

FrpTypeOK ==
  /\ frpTunnels \in [TunnelId -> TunnelRow] /\ proxies \in [ProxyId -> ServerProxy]
  /\ {publicHost, frpcRuns, frpServer} \subseteq BOOLEAN
  /\ frpcFile \cup frpcLoaded \subseteq FrpcProxy

(* Once frpc has loaded the configuration of the present rows, the page shows an enabled tunnel as   *)
(* online only if the tunnel itself is served at its public port, or a proxy that a person registered *)
(* under its name or at its port is, whatever older proxies the server remembers (frp.ts:173-187); and *)
(* a tunnel that is served is shown so unless the dashboard's list of its protocol was not answered    *)
(* (frp.ts:57-74, 327-333, 347-377).  Until frpc has loaded the rows, what the page shows of an edited *)
(* one may be another port's status.                                                                   *)
OwnServed(t) == Serves(t, frpTunnels[t].protocol, frpTunnels[t].port)
ServedByHand(t) == \E u \in Name : /\ proxies[u].status = "online" /\ proxies[u].protocol = frpTunnels[t].protocol
                                   /\ IsOf(u, t)
ShownIsServed ==
  \A t \in EnabledRows, answered \in Answers :
    /\ frpcLoaded = FrpcToml /\ "online" \in MayShow(t, answered) => OwnServed(t) \/ ServedByHand(t)
    /\ OwnServed(t) /\ frpTunnels[t].protocol \in answered => MayShow(t, answered) = {"online"}
=============================================================================
