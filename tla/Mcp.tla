-------------------------------- MODULE Mcp --------------------------------
(***************************************************************************)
(* The MCP server: services/mcp-tokens.ts, routes/mcp-tokens.ts, mcp/.     *)
(*                                                                         *)
(* Over HTTP every request authenticates its token and is served by a      *)
(* server of its own; over stdio a process authenticates once, when it     *)
(* starts, and serves calls until its client leaves.  What a client may    *)
(* call is decided when its server is made.  The handler of a tool checks  *)
(* that the call is confirmed, lets a service do the work, writes the      *)
(* audit entry and answers; a step that throws is answered as an error.    *)
(***************************************************************************)
EXTENDS Naturals, FiniteSets

CONSTANTS McpToken,        \* ids of tokens
          Request,         \* POST /mcp requests
          Stdio            \* processes started with YANTO_MCP_TOKEN

ASSUME McpAssumption == Request \cap Stdio = {}

Client == Request \cup Stdio
Level == {"read", "write", "admin"}

VARIABLES
  issued_to,   \* mcp_access_tokens: the access level of each row; "none" where there is no row
  revokedAt,   \* the tokens that have been revoked
  mcpClients   \* where each client is, its token, the tools registered for it and the call it serves
mcpVars == <<issued_to, revokedAt, mcpClients>>

AnyToken == CHOOSE t \in McpToken : TRUE
Off == [at |-> "off", token |-> AnyToken, tools |-> {}, call |-> {}, revokedFirst |-> FALSE]

McpInit ==
  /\ issued_to = [t \in McpToken |-> "none"]
  /\ revokedAt = {}
  /\ mcpClients = [c \in Client |-> Off]
-----------------------------------------------------------------------------
(* createMcpAccessToken, revokeMcpAccessToken *)
CreateMcpToken(t) ==
  /\ issued_to[t] = "none"
  /\ \E l \in Level : issued_to' = [issued_to EXCEPT ![t] = l]
  /\ UNCHANGED <<revokedAt, mcpClients>>

RevokeMcpToken(t) ==
  /\ issued_to[t] # "none"
  /\ revokedAt' = revokedAt \cup {t}
  /\ UNCHANGED <<issued_to, mcpClients>>

(* hasMcpAccess *)
AccessRank == [read |-> 0, write |-> 1, admin |-> 2]
HasMcpAccess(actual, required) == AccessRank[actual] >= AccessRank[required]

(* What the registry offers in each area, by what the handlers do: tools that only look; that change *)
(* something, which the audit log is told; that destroy, reveal or try out something, which want     *)
(* confirm: true first.  The trial of a Cloudflare client's token alone is not told.                 *)
Tool(area, level, does, audits) ==
  [area |-> area, level |-> level, does |-> does, audits |-> audits, confirm |-> level = "admin"]
Looks(area) == Tool(area, "read", "reads", FALSE)
Alters(area) == Tool(area, "write", "changes", TRUE)
Destroys(area) == Tool(area, "admin", "changes", TRUE)
Reveals(area) == Tool(area, "admin", "reveals", TRUE)
SystemTools == {Looks("system"), Destroys("system"), Reveals("system")}
ProjectTools == {Looks("projects"), Alters("projects"), Destroys("projects"), Reveals("projects")}
RuntimeTools == {Looks("runtime"), Alters("runtime"), Destroys("runtime")}
SettingsTools == {Looks("settings"), Alters("settings"), Destroys("settings"), Reveals("settings")}
CloudflareTools ==
  {Looks("cloudflare"), Alters("cloudflare"), Destroys("cloudflare"), Tool("cloudflare", "admin", "reveals", FALSE)}
RouteTools == {Looks("routes"), Alters("routes"), Destroys("routes")}
FrpTools == {Looks("frp"), Alters("frp"), Destroys("frp")}
Resources == {Looks("resources")}
Tools == SystemTools \cup ProjectTools \cup RuntimeTools \cup SettingsTools \cup CloudflareTools \cup RouteTools \cup FrpTools \cup Resources

Registered(l) == {t \in Tools : HasMcpAccess(l, t.level)}

(* authenticateMcpToken: the row, unless it is revoked *)
Authentic_AnyRow(t) == issued_to[t] # "none"
Authentic(t) == issued_to[t] # "none" /\ t \notin revokedAt

ClientGoes(c, r) == mcpClients' = [mcpClients EXCEPT ![c] = r] /\ UNCHANGED <<issued_to, revokedAt>>

(* POST /mcp, or the start of a stdio process: the row is read, lastUsedAt written, a server made. *)
Connects(c) ==
  /\ mcpClients[c].at = "off"
  /\ \E t \in McpToken :
       ClientGoes(c, [Off EXCEPT !.at = "connecting", !.token = t, !.revokedFirst = t \in revokedAt])

Authenticates(c) ==
  /\ mcpClients[c].at = "connecting"
  /\ ClientGoes(c, IF Authentic(mcpClients[c].token)
                   THEN [mcpClients[c] EXCEPT !.at = "open", !.tools = Registered(issued_to[mcpClients[c].token])]
                   ELSE Off)

(* A call of a registered tool *)
CallsTool(c) ==
  /\ mcpClients[c].at = "open"
  /\ \E t \in mcpClients[c].tools, confirm \in BOOLEAN :
       ClientGoes(c, [mcpClients[c] EXCEPT !.at = "serving",
                      !.call = {[tool |-> t, confirm |-> confirm, done |-> FALSE, audited |-> FALSE]}])

(* The service does what the tool is for, unless requireConfirm throws first. *)
Confirmed(k) == k.tool.confirm => k.confirm
Works(c) ==
  /\ mcpClients[c].at = "serving"
  /\ \E k \in mcpClients[c].call :
       /\ Confirmed(k)
       /\ ClientGoes(c, [mcpClients[c] EXCEPT !.at = "worked", !.call = {[k EXCEPT !.done = TRUE]}])

(* recordAuditLog swallows its own failure. *)
Audits(c) ==
  /\ mcpClients[c].at = "worked"
  /\ \E k \in mcpClients[c].call, kept \in BOOLEAN :
       /\ k.tool.audits
       /\ ClientGoes(c, [mcpClients[c] EXCEPT !.at = "audited", !.call = {[k EXCEPT !.audited = kept]}])

(* The answer; a request is closed with it. *)
Answered(c) == IF c \in Request THEN Off ELSE [mcpClients[c] EXCEPT !.at = "open", !.call = {}]
Returns(c) ==
  /\ \/ mcpClients[c].at = "audited"
     \/ mcpClients[c].at = "worked" /\ \A k \in mcpClients[c].call : ~k.tool.audits
  /\ ClientGoes(c, Answered(c))

(* safeTool: the call is not confirmed, or the service throws, having done its work, a part or nothing. *)
Throws(c) == mcpClients[c].at \in {"serving", "worked"} /\ ClientGoes(c, Answered(c))

Leaves(c) == mcpClients[c].at # "off" /\ ClientGoes(c, Off)

McpNext ==
  \/ \E t \in McpToken : CreateMcpToken(t) \/ RevokeMcpToken(t)
  \/ \E c \in Client : \/ Connects(c) \/ Authenticates(c) \/ CallsTool(c) \/ Works(c) \/ Audits(c)
                       \/ Returns(c) \/ Throws(c) \/ Leaves(c)

McpSpec == McpInit /\ [][McpNext]_mcpVars
-----------------------------------------------------------------------------
ToolCall == [tool : Tools, confirm : BOOLEAN, done : BOOLEAN, audited : BOOLEAN]
McpClient == [at : {"off", "connecting", "open", "serving", "worked", "audited"}, token : McpToken \cup {AnyToken},
              tools : SUBSET Tools, call : SUBSET ToolCall, revokedFirst : BOOLEAN]
McpTypeOK ==
  /\ issued_to \in [McpToken -> Level \cup {"none"}] /\ revokedAt \subseteq McpToken
  /\ mcpClients \in [Client -> McpClient]

(* Nobody who comes with a token after it was revoked is served; what a call does is within the     *)
(* level of its token and, when it destroys or reveals something, confirmed; and the audit log says  *)
(* of no call that it did what it did not (mcp-tokens.ts:106-130, registry.ts:137-159, 247-252).     *)
McpSound ==
  \A c \in Client : mcpClients[c].at \notin {"off", "connecting"} =>
    /\ ~mcpClients[c].revokedFirst
    /\ \A k \in mcpClients[c].call :
         /\ HasMcpAccess(issued_to[mcpClients[c].token], k.tool.level)
         /\ k.done /\ k.tool.level = "admin" => k.confirm
         /\ k.audited => k.done
=============================================================================
