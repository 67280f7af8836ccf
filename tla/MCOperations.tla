---------------------------- MODULE MCOperations ----------------------------
(***************************************************************************)
(* Ten parts that share no state, checked in one run: Init picks the       *)
(* one that moves in a behaviour, the others stay as they started, so that *)
(* the run checks each of them by itself.                                  *)
(*                                                                         *)
(* Publishing: one request at a time, of any kind, with a second tunnel to *)
(* be created; or two at a time with one tunnel, the second request        *)
(* creating a hostname.  The zone comes and goes between requests.         *)
(***************************************************************************)
EXTENDS Publishing, Nodes, Mcp, CodexSignIn, Projects, Frp, DnsView, ProjectEditor,
        CodexHomes, ComposePorts

CONSTANT Parts   \* the parts this run looks at

VARIABLE part

MCCaller == {1, 2}
MCSettings == {[ready |-> {"t1"}, spare |-> {"t2"}, kinds |-> <<Kinds, {}>>],
               [ready |-> {"t1"}, spare |-> {}, kinds |-> <<Kinds, {"create"}>>]}

(* The files two projects deploy, under the name of their own folder or of the other's: they want    *)
(* port 1, a range with it, a range too long to be checked, and one port twice besides a variable.   *)
Entry(protocol, lo, hi, variable) == [protocol |-> protocol, lo |-> lo, hi |-> hi, variable |-> variable]
File(name, ports) == [name |-> name, ports |-> ports]
MCFiles == {File("a", <<Entry("tcp", 1, 1, FALSE)>>),
            File("a", <<Entry("tcp", 1, 2, FALSE), Entry("udp", 1, 1, FALSE)>>),
            File("b", <<Entry("udp", 1, 3, FALSE), Entry("tcp", 1, 1, FALSE), Entry("tcp", 2, 2, TRUE)>>),
            File("b", <<Entry("tcp", 1, 1, FALSE), Entry("tcp", 1, 2, FALSE)>>)}
MCFolder == [d \in Deployer |-> IF d = "d1" THEN "a" ELSE "b"]
MCInside == {<<"tcp", 2>>}

operationsVars == <<publishingVars, nodesVars, mcpVars, codexVars, projectsVars, frpVars, dnsVars, editorVars, homesVars, portsVars, part>>

OperationsInit ==
  /\ part \in Parts
  /\ PublishingInit /\ NodesInit /\ McpInit /\ CodexInit /\ ProjectsInit /\ FrpInit /\ DnsInit /\ EditorInit
  /\ HomesInit /\ PortsInit
  /\ part # "publishing" => setting = CHOOSE s \in Settings : TRUE
  /\ part # "editor" => override = [p \in Edited |-> NoText]

OperationsNext ==
  /\ UNCHANGED part
  /\ \/ /\ part = "publishing" /\ PublishingNext
        /\ UNCHANGED <<nodesVars, mcpVars, codexVars, projectsVars, frpVars, dnsVars, editorVars, homesVars, portsVars>>
     \/ /\ part = "nodes" /\ NodesNext
        /\ UNCHANGED <<publishingVars, mcpVars, codexVars, projectsVars, frpVars, dnsVars, editorVars, homesVars, portsVars>>
     \/ /\ part = "mcp" /\ McpNext
        /\ UNCHANGED <<publishingVars, nodesVars, codexVars, projectsVars, frpVars, dnsVars, editorVars, homesVars, portsVars>>
     \/ /\ part = "codex" /\ CodexNext
        /\ UNCHANGED <<publishingVars, nodesVars, mcpVars, projectsVars, frpVars, dnsVars, editorVars, homesVars, portsVars>>
     \/ /\ part = "projects" /\ ProjectsNext
        /\ UNCHANGED <<publishingVars, nodesVars, mcpVars, codexVars, frpVars, dnsVars, editorVars, homesVars, portsVars>>
     \/ /\ part = "frp" /\ FrpNext
        /\ UNCHANGED <<publishingVars, nodesVars, mcpVars, codexVars, projectsVars, dnsVars, editorVars, homesVars, portsVars>>
     \/ /\ part = "dns" /\ DnsNext
        /\ UNCHANGED <<publishingVars, nodesVars, mcpVars, codexVars, projectsVars, frpVars, editorVars, homesVars, portsVars>>
     \/ /\ part = "editor" /\ EditorNext
        /\ UNCHANGED <<publishingVars, nodesVars, mcpVars, codexVars, projectsVars, frpVars, dnsVars, homesVars, portsVars>>
     \/ /\ part = "homes" /\ HomesNext
        /\ UNCHANGED <<publishingVars, nodesVars, mcpVars, codexVars, projectsVars, frpVars, dnsVars, editorVars, portsVars>>
     \/ /\ part = "ports" /\ PortsNext
        /\ UNCHANGED <<publishingVars, nodesVars, mcpVars, codexVars, projectsVars, frpVars, dnsVars, editorVars, homesVars>>

OperationsSpec == OperationsInit /\ [][OperationsNext]_operationsVars

(* The types of the variables of all ten. *)
OperationsTypeOK ==
  /\ PublishingTypeOK /\ NodesTypeOK /\ McpTypeOK /\ CodexTypeOK /\ ProjectsTypeOK /\ FrpTypeOK /\ DnsTypeOK
  /\ EditorTypeOK /\ HomesTypeOK /\ PortsTypeOK
=============================================================================
