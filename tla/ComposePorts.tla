---------------------------- MODULE ComposePorts ----------------------------
(***************************************************************************)
(* The published ports of a compose file and the check before it is        *)
(* brought up: services/compose.ts and the end of deployment-runner.ts.    *)
(*                                                                         *)
(* A deployment reads the list of containers, which may be a few seconds   *)
(* old, then the listening processes, and is refused if somebody has a     *)
(* port its file publishes; otherwise docker compose brings its containers *)
(* up.  Containers and processes come and go meanwhile, and projects       *)
(* deploy at the same time.  A key is a protocol and a host port.          *)
(*                                                                         *)
(* The check takes the containers that carry the name of the project's     *)
(* folder for its own.  Compose names them after the file: its directory   *)
(* in small letters without dots, or what the file says.  So the name may  *)
(* be another one, or one that two projects share.                         *)
(***************************************************************************)
EXTENDS Integers, FiniteSets, Sequences

CONSTANTS Deployer,        \* projects that deploy
          ComposeName,            \* names of folders and of compose projects
          folderName,      \* the folder of each project
          Files,           \* compose files: the name compose gives the project, and the ports entries
          Inside,          \* TCP keys listened on inside the container that Yanto may run in
          HostPorts,       \* the host ports there are (1..65535 in the code)
          PortRangeLimit,
          MaxComings       \* bound: deployments begun, and processes and containers that come by themselves

ComposeEntry == [protocol : {"tcp", "udp"}, lo : Nat, hi : Nat, variable : BOOLEAN]

ASSUME PortsAssumption ==
  /\ HostPorts \subseteq Nat /\ PortRangeLimit \in Nat /\ MaxComings \in Nat
  /\ Files # {} /\ Files \subseteq [name : ComposeName, ports : Seq(ComposeEntry)]
  /\ folderName \in [Deployer -> ComposeName] /\ Inside \subseteq {"tcp"} \X Nat

VARIABLES
  composed,  \* the containers of each compose project: the keys they publish, and whether they run
  listening, \* the keys other processes of the host listen on
  listed,    \* the list of containers that is kept for five seconds, and what came up since
  checks,    \* the deployment of each project
  comings    \* how much has come

portsVars == <<composed, listening, listed, checks, comings>>

NotComposed == [keys |-> {}, running |-> FALSE]
NotListed == [kept |-> FALSE, rows |-> [n \in ComposeName |-> {}], others |-> {}, came |-> {}]
NoCheck == [at |-> "idle", file |-> CHOOSE f \in Files : TRUE, used |-> {}, ignored |-> {}, lsof |-> "none",
            others |-> {}, unseen |-> {}, unknown |-> {}, came |-> {}]

PortKey == {"tcp", "udp"} \X Nat
Composition == [keys : SUBSET PortKey, running : BOOLEAN]
ContainerList == [kept : BOOLEAN, rows : [ComposeName -> SUBSET PortKey], others : SUBSET PortKey, came : SUBSET PortKey]
PortsCheck == [at : {"idle", "list", "lsof", "accepted", "refused", "up", "failed"}, file : Files,
               used : SUBSET PortKey, ignored : SUBSET PortKey, lsof : {"host", "own", "none"},
               others : SUBSET PortKey, unseen : SUBSET PortKey, unknown : SUBSET PortKey, came : SUBSET PortKey]

PortsInit ==
  /\ composed = [n \in ComposeName |-> NotComposed]
  /\ listening = {} /\ listed = NotListed /\ comings = 0
  /\ checks = [d \in Deployer |-> NoCheck]
-----------------------------------------------------------------------------
(* expandPortRange: nothing for what is no range of host ports, or too long a one *)
ExpandPortRange(lo, hi) == IF lo..hi \subseteq HostPorts /\ hi - lo <= PortRangeLimit THEN lo..hi ELSE {}

(* extractShortPublishedPorts, extractLongPublishedPorts: an entry with a variable is passed over *)
KeysOf(entry) == IF entry.variable THEN {} ELSE {entry.protocol} \X ExpandPortRange(entry.lo, entry.hi)
extractPublishedComposePorts(file) == UNION {KeysOf(file.ports[i]) : i \in DOMAIN file.ports}
Repeated(file) == \E i, j \in DOMAIN file.ports : i # j /\ KeysOf(file.ports[i]) \cap KeysOf(file.ports[j]) # {}

(* What docker binds for the file, checked or not. *)
Binds(file) == UNION {{file.ports[i].protocol} \X (file.ports[i].lo..file.ports[i].hi) : i \in DOMAIN file.ports}

(* parseDockerPublishedPorts: docker writes ports that follow each other as one range, and one that is *)
(* too long is passed over                                                                            *)
Seen(keys) == {k \in keys : ~\E lo, hi \in HostPorts : /\ k[2] \in lo..hi /\ hi - lo > PortRangeLimit
                                                       /\ {k[1]} \X (lo..hi) \subseteq keys}

Runs(n) == IF composed[n].running THEN composed[n].keys ELSE {}
RunBy(names) == UNION {Runs(n) : n \in names}
Others(n) == listening \cup RunBy(ComposeName \ {n})

(* Keys that are taken: every check and the list kept remember what came after them. *)
Takes(keys, cs) ==
  /\ listed' = [listed EXCEPT !.came = @ \cup keys]
  /\ checks' = [d \in Deployer |-> [cs[d] EXCEPT !.came = @ \cup keys]]
Comes == comings < MaxComings /\ comings' = comings + 1
-----------------------------------------------------------------------------
Listen(k) ==
  /\ Comes /\ k \notin listening \cup RunBy(ComposeName)
  /\ listening' = listening \cup {k} /\ Takes({k}, checks)
  /\ UNCHANGED composed
StopListening(k) ==
  /\ k \in listening /\ listening' = listening \ {k}
  /\ UNCHANGED <<composed, listed, checks, comings>>
ContainersStop(n) ==
  /\ composed[n].running /\ composed' = [composed EXCEPT ![n].running = FALSE]
  /\ UNCHANGED <<listening, listed, checks, comings>>
ContainersReturn(n) ==
  /\ Comes /\ ~composed[n].running /\ composed[n].keys # {} /\ composed[n].keys \cap Others(n) = {}
  /\ composed' = [composed EXCEPT ![n].running = TRUE] /\ Takes(composed[n].keys, checks)
  /\ UNCHANGED listening
-----------------------------------------------------------------------------
(* runProjectDeployment has written the compose file and reads it, whatever became of the one before: *)
(* it may have been stopped, or the containers could not be listed.                                   *)
BeginCheck(d) ==
  /\ Comes
  /\ \E f \in Files : checks' = [checks EXCEPT ![d] = [NoCheck EXCEPT !.at = "list", !.file = f]]
  /\ UNCHANGED <<composed, listening, listed>>

(* usedPublishedHostPorts: the ports of the running containers, of which those that carry the name of *)
(* the project's folder are ignored                                                                   *)
Ignored_None(rows, d) == {}
Ignored(rows, d) == Seen(rows[folderName[d]])
Refreshed == IF listed.kept THEN listed
             ELSE [kept |-> TRUE, rows |-> [n \in ComposeName |-> Runs(n)], others |-> listening, came |-> {}]
UsedBy(rows, names) == UNION {rows[n] : n \in names}
HiddenUdp(l) == {k \in l.others \cup UNION {l.rows[n] \ Seen(l.rows[n]) : n \in ComposeName} : k[1] = "udp"}
Recognised(file, d) == file.name = folderName[d]
ListContainers(d) ==
  /\ checks[d].at = "list"
  /\ listed' = Refreshed
  /\ LET l == Refreshed
         file == checks[d].file
         own == l.rows[file.name]
     IN  checks' = [checks EXCEPT ![d] = [@ EXCEPT
                      !.at = "lsof",
                      !.used = UNION {Seen(l.rows[n]) : n \in ComposeName \ {folderName[d]}},
                      !.ignored = Ignored(l.rows, d),
                      !.others = UsedBy(l.rows, ComposeName \ {file.name}) \cup l.others,
                      !.unseen = HiddenUdp(l) \cup (IF Recognised(file, d) THEN {} ELSE l.rows[folderName[d]]),
                      !.unknown = IF Recognised(file, d) THEN own \ Seen(own) ELSE own,
                      !.came = l.came]]
  /\ UNCHANGED <<composed, listening, comings>>
ListExpires ==
  /\ listed.kept /\ listed' = NotListed
  /\ UNCHANGED <<composed, listening, checks, comings>>

(* listListeningTcpPorts: the TCP ports somebody listens on, docker for the containers, when Yanto runs *)
(* on the host; in a container of its own lsof shows those of that container; an error is taken for    *)
(* none.  Then findComposePortConflicts.                                                               *)
TcpPorts(lsof) == CASE lsof = "host" -> {k \in listening \cup RunBy(ComposeName) : k[1] = "tcp"}
                    [] lsof = "own" -> Inside
                    [] lsof = "none" -> {}
Conflicts(c, keys) == Repeated(c.file) \/ extractPublishedComposePorts(c.file) \cap (c.used \cup (keys \ c.ignored)) # {}
assertComposePortsAvailable(d) ==
  /\ checks[d].at = "lsof"
  /\ \E lsof \in {"host", "own", "none"} :
       checks' = [checks EXCEPT ![d] = [@ EXCEPT
                    !.lsof = lsof,
                    !.at = IF Conflicts(checks[d], TcpPorts(lsof)) THEN "refused" ELSE "accepted"]]
  /\ UNCHANGED <<composed, listening, listed, comings>>

(* replaceComposeDeployment: docker compose up fails when a port is taken; then the containers of its *)
(* name that ran before may be gone.  Otherwise they are replaced, whoever brought them up.            *)
replaceComposeDeployment(d) ==
  /\ checks[d].at = "accepted"
  /\ LET name == checks[d].file.name
         keys == Binds(checks[d].file)
     IN  \/ /\ keys \cap Others(name) = {}
            /\ composed' = [composed EXCEPT ![name] = [keys |-> keys, running |-> TRUE]]
            /\ Takes(keys, [checks EXCEPT ![d].at = "up"])
         \/ /\ keys \cap Others(name) # {}
            /\ composed' \in {composed, [composed EXCEPT ![name].running = FALSE]}
            /\ checks' = [checks EXCEPT ![d].at = "failed"]
            /\ UNCHANGED listed
  /\ UNCHANGED <<listening, comings>>
-----------------------------------------------------------------------------
PortsNext ==
  \/ \E k \in {"tcp", "udp"} \X HostPorts : Listen(k) \/ StopListening(k)
  \/ ListExpires
  \/ \E n \in ComposeName : ContainersStop(n) \/ ContainersReturn(n)
  \/ \E d \in Deployer :
       BeginCheck(d) \/ ListContainers(d) \/ assertComposePortsAvailable(d) \/ replaceComposeDeployment(d)

PortsSpec == PortsInit /\ [][PortsNext]_portsVars
-----------------------------------------------------------------------------
PortsTypeOK ==
  /\ comings \in 0..MaxComings /\ listening \subseteq PortKey
  /\ composed \in [ComposeName -> Composition] /\ checks \in [Deployer -> PortsCheck] /\ listed \in ContainerList

(* A deployment is refused only for a port that its file publishes twice,  *)
(* that somebody else had when the containers were listed, or that came to *)
(* be used since then: never for those it is about to replace, except      *)
(* where the check cannot know them for its own, because compose gives     *)
(* them another name than the folder's or because docker writes them as    *)
(* too long a range, and except for a port inside Yanto's own container    *)
(* (compose.ts:138-182, deployment-runner.ts:247-250).                     *)
RefusedForCause ==
  \A d \in Deployer : LET c == checks[d] IN
     c.at = "refused" =>
        \/ Repeated(c.file)
        \/ extractPublishedComposePorts(c.file) \cap (c.others \cup c.came \cup c.unknown) # {}
        \/ c.lsof = "own" /\ extractPublishedComposePorts(c.file) \cap Inside # {}

(* After the check docker compose fails over a port only if that came to   *)
(* be used after the list of containers was read, or if the check cannot   *)
(* know of it: a variable, too long a range, a UDP process or UDP range,   *)
(* containers that carry the folder's name and are another project's, or   *)
(* no view of the host's processes (compose.ts:152-212,                    *)
(* deployment-runner.ts:127-138, 247-262).                                 *)
Unchecked(c) == c.lsof # "host" \/ ~(Binds(c.file) \subseteq extractPublishedComposePorts(c.file))
FailsForCause ==
  \A d \in Deployer : LET c == checks[d] IN
     c.at = "failed" => Unchecked(c) \/ Binds(c.file) \cap (c.came \cup c.unseen) # {}

PreflightSound == RefusedForCause /\ FailsForCause
=============================================================================
