------------------------------- MODULE Nodes -------------------------------
(***************************************************************************)
(* Worker nodes and their join token: services/nodes.ts, the join token of  *)
(* services/settings.ts, routes/workers.ts and the start of worker.ts.     *)
(*                                                                         *)
(* The owner reveals the join token, created on first use; a machine       *)
(* installed with it registers, is given a token of its own, writes that   *)
(* to a file and runs.  A machine may die and start again at any step, and *)
(* any of its requests may time out after the master has served it.        *)
(***************************************************************************)
EXTENDS Naturals, FiniteSets, Sequences

CONSTANTS Machine,     \* the machines workers run on
          Reveal,      \* requests that reveal the join token
          MaxNodes     \* bound: registrations

ASSUME NodesAssumption == MaxNodes \in Nat /\ 0 \notin Reveal

VARIABLES
  joinToken,  \* app_settings "worker.join_token"; 0 is no row
  reveals,    \* requests for it: what each has read or drawn
  handed,     \* the tokens the owner has been shown
  nodes,      \* deployment_nodes: for each row but the master's, whether it was seen within 60 s
  machines,   \* where each worker process is, its token file and the node it runs as
  ranAs       \* the nodes each machine has run as

nodesVars == <<joinToken, reveals, handed, nodes, machines, ranAs>>

AtRest == [at |-> "idle", token |-> 0]
NewMachine == [at |-> "off", join |-> 0, file |-> 0, token |-> 0, unread |-> FALSE]

NodesInit ==
  /\ joinToken = 0 /\ handed = {}
  /\ reveals = [r \in Reveal |-> AtRest]
  /\ nodes = <<>>
  /\ machines = [m \in Machine |-> NewMachine]
  /\ ranAs = [m \in Machine |-> {}]
-----------------------------------------------------------------------------
(* ensureWorkerJoinToken: reads the setting; if there is none, inserts one of its own, keeping *)
(* the value of a row that has come up meanwhile, and returns what the row holds.              *)
Shown(r, t) == handed' = handed \cup {t} /\ reveals' = [reveals EXCEPT ![r] = AtRest]

ReadJoinToken(r) ==
  /\ reveals[r].at = "idle"
  /\ IF joinToken # 0 THEN Shown(r, joinToken)
     ELSE reveals' = [reveals EXCEPT ![r] = [at |-> "insert", token |-> r]] /\ UNCHANGED handed
  /\ UNCHANGED <<joinToken, nodes, machines, ranAs>>

Upserted_Overwrite(t) == t
Upserted(t) == IF joinToken = 0 THEN t ELSE joinToken

InsertJoinToken(r) ==
  /\ reveals[r].at = "insert"
  /\ joinToken' = Upserted(reveals[r].token)
  /\ Shown(r, Upserted(reveals[r].token))
  /\ UNCHANGED <<nodes, machines, ranAs>>
-----------------------------------------------------------------------------
JoinUnchanged == UNCHANGED <<joinToken, reveals, handed>>
MachineGoes(m, r) == machines' = [machines EXCEPT ![m] = r]

(* The operator installs a worker with a token the owner was shown. *)
Install(m) ==
  /\ machines[m].join = 0
  /\ \E t \in handed : MachineGoes(m, [machines[m] EXCEPT !.join = t])
  /\ UNCHANGED <<nodes, ranAs>> /\ JoinUnchanged

(* main, tokenForWorker: with a stored token the loops begin, otherwise the worker registers. *)
(* readStoredToken takes any failure to read the file for a file that is not there.           *)
RunsAs(m, n) == ranAs' = [ranAs EXCEPT ![m] = @ \cup {n}]
StartWorker(m) ==
  /\ machines[m].at = "off" /\ machines[m].join # 0
  /\ \/ /\ machines[m].file # 0
        /\ MachineGoes(m, [machines[m] EXCEPT !.at = "loops", !.token = machines[m].file])
        /\ RunsAs(m, machines[m].file)
     \/ /\ machines[m].file = 0
        /\ MachineGoes(m, [machines[m] EXCEPT !.at = "register"])
        /\ UNCHANGED ranAs
     \/ /\ machines[m].file # 0
        /\ MachineGoes(m, [machines[m] EXCEPT !.at = "register", !.unread = TRUE])
        /\ UNCHANGED ranAs
  /\ UNCHANGED nodes /\ JoinUnchanged

(* POST /api/workers/register: the join token must be the stored one; a row with a new token *)
(* is inserted.  The answer may be lost, and then the worker exits.                          *)
MayJoin(m) == joinToken # 0 /\ machines[m].join = joinToken
RegisterWorker(m) ==
  /\ machines[m].at = "register"
  /\ IF MayJoin(m)
     THEN /\ Len(nodes) < MaxNodes
          /\ nodes' = Append(nodes, TRUE)
          /\ \/ MachineGoes(m, [machines[m] EXCEPT !.at = "truncate", !.token = Len(nodes) + 1])
             \/ MachineGoes(m, [machines[m] EXCEPT !.at = "off"])
     ELSE MachineGoes(m, [machines[m] EXCEPT !.at = "off"]) /\ UNCHANGED nodes
  /\ UNCHANGED ranAs /\ JoinUnchanged

(* writeStoredToken: the file is emptied, then written; only then do the loops begin. *)
FileWritten(m) == machines[m].at = "write" /\ machines[m].file = machines[m].token

TruncateFile(m) ==
  /\ machines[m].at = "truncate"
  /\ MachineGoes(m, [machines[m] EXCEPT !.at = "write", !.file = 0])
  /\ UNCHANGED <<nodes, ranAs>> /\ JoinUnchanged
WriteFile(m) ==
  /\ machines[m].at = "write" /\ machines[m].file = 0
  /\ MachineGoes(m, [machines[m] EXCEPT !.file = machines[m].token])
  /\ UNCHANGED <<nodes, ranAs>> /\ JoinUnchanged
BeginLoops(m) ==
  /\ FileWritten(m)
  /\ MachineGoes(m, [machines[m] EXCEPT !.at = "loops"])
  /\ RunsAs(m, machines[m].token)
  /\ UNCHANGED nodes /\ JoinUnchanged

(* heartbeat, jobs/next and the end of a PATCH: the node of the token is marked as seen *)
MarkNodeSeen(m) ==
  /\ machines[m].at = "loops" /\ machines[m].token \in DOMAIN nodes
  /\ nodes' = [nodes EXCEPT ![machines[m].token] = TRUE]
  /\ UNCHANGED <<machines, ranAs>> /\ JoinUnchanged

(* listNodes calls a node offline when it was last seen more than 60 s ago. *)
NotSeen(n) ==
  /\ n \in DOMAIN nodes /\ nodes' = [nodes EXCEPT ![n] = FALSE]
  /\ UNCHANGED <<machines, ranAs>> /\ JoinUnchanged

(* The worker is stopped, killed, or exits because its start failed. *)
WorkerDies(m) ==
  /\ machines[m].at # "off"
  /\ MachineGoes(m, [machines[m] EXCEPT !.at = "off", !.token = 0])
  /\ UNCHANGED <<nodes, ranAs>> /\ JoinUnchanged
-----------------------------------------------------------------------------
NodesNext ==
  \/ \E r \in Reveal : ReadJoinToken(r) \/ InsertJoinToken(r)
  \/ \E m \in Machine :
       \/ Install(m) \/ StartWorker(m) \/ RegisterWorker(m) \/ TruncateFile(m) \/ WriteFile(m)
       \/ BeginLoops(m) \/ MarkNodeSeen(m) \/ WorkerDies(m)
  \/ \E n \in 1..MaxNodes : NotSeen(n)

NodesSpec == NodesInit /\ [][NodesNext]_nodesVars
-----------------------------------------------------------------------------
RevealState == [at : {"idle", "insert"}, token : {0} \cup Reveal]
WorkerMachine == [at : {"off", "register", "truncate", "write", "loops"}, join : {0} \cup Reveal,
                  file : 0..MaxNodes, token : 0..MaxNodes, unread : BOOLEAN]
NodesTypeOK ==
  /\ joinToken \in {0} \cup Reveal /\ handed \subseteq Reveal
  /\ reveals \in [Reveal -> RevealState]
  /\ nodes \in Seq(BOOLEAN) /\ Len(nodes) <= MaxNodes
  /\ machines \in [Machine -> WorkerMachine]
  /\ ranAs \in [Machine -> SUBSET (1..MaxNodes)]

(* Every join token the owner was ever shown is the one workers are checked against, however  *)
(* many requests created it at once: no install command is dead on arrival                    *)
(* (settings.ts:220-238 against routes/workers.ts:65).                                        *)
JoinTokenAgreed == handed \subseteq {joinToken}

(* A machine that has run as a node never comes back as another one, unless the file of its   *)
(* token could not be read, and no two machines ever run as one node, whatever dies or is     *)
(* lost before the token is on disk (worker.ts:60-99).                                        *)
MachineKeepsNode ==
  /\ \A m \in Machine : ~machines[m].unread => Cardinality(ranAs[m]) <= 1
  /\ \A m, k \in Machine : m # k => ranAs[m] \cap ranAs[k] = {}

NodesSound == JoinTokenAgreed /\ MachineKeepsNode
=============================================================================
