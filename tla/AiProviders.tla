----------------------------- MODULE AiProviders -----------------------------
(***************************************************************************)
(* Providers of models and the tasks that use them: ai-providers.ts, its   *)
(* routes, and the way agent-tasks.ts resolves the model of a run.         *)
(*                                                                         *)
(* Each database statement is a step; requests overlap.  The foreign keys  *)
(* of ai_models, ai_providers and agent_tasks are part of the statements.  *)
(* A key, a name or an address of a provider is left out, and the kinds of *)
(* API provider are one.  A task's lifecycle lock is kept as the fact that *)
(* one request at a time is inside it.                                     *)
(***************************************************************************)
EXTENDS Naturals, FiniteSets

CONSTANTS ApiProvider,   \* ids of providers with a key
          ModelName, AiTask, AiRequest,
          MaxModel       \* bound: model rows ever made

ASSUME AiAssumption == MaxModel \in Nat /\ "codex" \notin ApiProvider

VARIABLES
  providers,  \* ai_providers
  models,     \* ai_models, by id
  taskModel,  \* model_id of agent_tasks; 0: no such task
  runModel,   \* what the active run of a task was started with; 0: none
  aiCalls,    \* the requests in progress
  signedIn,   \* whether the Codex account is signed in
  left        \* the account was left: a sign-out was answered, no refresh was storing, nobody signed in since

aiVars == <<providers, models, taskModel, runModel, aiCalls, signedIn, left>>

CODEX_PROVIDER_ID == "codex"
AiProvider == ApiProvider \cup {CODEX_PROVIDER_ID}
NoProvider == [st |-> "unused", enabled |-> FALSE, default |-> 0]
NoModel == [st |-> "unused", provider |-> CODEX_PROVIDER_ID, name |-> "none", enabled |-> FALSE]
NoAiCall == [kind |-> "none", at |-> "idle", provider |-> CODEX_PROVIDER_ID, names |-> {},
           task |-> "none", model |-> 0, resolved |-> 0]

AiInit ==
  /\ providers = [p \in AiProvider |-> NoProvider]
  /\ models = [m \in 1..MaxModel |-> NoModel]
  /\ taskModel = [t \in AiTask |-> 0] /\ runModel = [t \in AiTask |-> 0]
  /\ aiCalls = [c \in AiRequest |-> NoAiCall]
  /\ signedIn = FALSE /\ left = FALSE

ProviderRows == {p \in AiProvider : providers[p].st = "row"}
ModelRows == {m \in 1..MaxModel : models[m].st = "row"}
ModelsOf(p) == {m \in ModelRows : models[m].provider = p}
UsedByTasks(M) == \E t \in AiTask : taskModel[t] \in M

(* resolveProviderModel: one joined read *)
ModelAvailable(m) == m \in ModelRows /\ models[m].enabled /\ providers[models[m].provider].enabled

CallIs(c, r) == aiCalls' = [aiCalls EXCEPT ![c] = r]
MovesCall(c, at) == CallIs(c, [aiCalls[c] EXCEPT !.at = at])
Replied(c) == CallIs(c, NoAiCall)
Stands(c, kind, at) == aiCalls[c].kind = kind /\ aiCalls[c].at = at
FreeCall(c) == aiCalls[c].kind = "none"
RowsKept == UNCHANGED <<providers, models>>
TasksKept == UNCHANGED <<taskModel, runModel>>
AccountKept == UNCHANGED <<signedIn, left>>
-----------------------------------------------------------------------------
(* Providers. *)
CreateAiProvider ==
  /\ \E p \in ApiProvider, e \in BOOLEAN :
       providers[p].st = "unused" /\ providers' = [providers EXCEPT ![p] = [st |-> "row", enabled |-> e, default |-> 0]]
  /\ UNCHANGED <<models, aiCalls>> /\ TasksKept /\ AccountKept

(* updateAiProvider: an account's provider takes a default model only.  Nothing that is read before the *)
(* other fields are written can change their effect, so that writing them is one step.                  *)
EditProvider ==
  /\ \E p \in ProviderRows \ {CODEX_PROVIDER_ID}, e \in BOOLEAN : providers' = [providers EXCEPT ![p].enabled = e]
  /\ UNCHANGED <<models, aiCalls>> /\ TasksKept /\ AccountKept

BeginDefault(c) ==
  /\ FreeCall(c)
  /\ \E p \in ProviderRows, m \in ModelRows :
       CallIs(c, [NoAiCall EXCEPT !.kind = "default", !.at = "check", !.provider = p, !.model = m])
  /\ RowsKept /\ TasksKept /\ AccountKept

CheckDefault(c) ==
  /\ Stands(c, "default", "check")
  /\ IF aiCalls[c].model \in ModelsOf(aiCalls[c].provider) THEN MovesCall(c, "write") ELSE Replied(c)
  /\ RowsKept /\ TasksKept /\ AccountKept

(* The row may be gone, and so may the model: the foreign key then refuses the update. *)
WriteDefault(c) ==
  /\ Stands(c, "default", "write")
  /\ LET w == aiCalls[c] IN
       providers' = IF w.provider \in ProviderRows /\ w.model \in ModelRows
                    THEN [providers EXCEPT ![w.provider].default = w.model] ELSE providers
  /\ Replied(c)
  /\ UNCHANGED models /\ TasksKept /\ AccountKept

(* deleteAiProvider: its models go with it, unless a task uses one. *)
DeleteAiProvider ==
  /\ \E p \in ProviderRows \ {CODEX_PROVIDER_ID} :
       /\ ~UsedByTasks(ModelsOf(p))
       /\ providers' = [providers EXCEPT ![p] = [NoProvider EXCEPT !.st = "deleted"]]
       /\ models' = [m \in 1..MaxModel |-> IF m \in ModelsOf(p) THEN [NoModel EXCEPT !.st = "deleted"] ELSE models[m]]
  /\ UNCHANGED aiCalls /\ TasksKept /\ AccountKept
-----------------------------------------------------------------------------
(* Models.  addAiModel for one name; discoverAiModels, of a provider with a key, for those it lists. *)
AddsModels(p, names, kind) == [NoAiCall EXCEPT !.kind = kind, !.at = "add", !.provider = p, !.names = names]
BeginAdd(c) ==
  /\ FreeCall(c)
  /\ \E p \in ProviderRows, N \in SUBSET ModelName :
       /\ N # {} /\ (p = CODEX_PROVIDER_ID => Cardinality(N) = 1)
       /\ CallIs(c, AddsModels(p, N, "add"))
  /\ RowsKept /\ TasksKept /\ AccountKept

(* addAiModel: the provider is looked for, then the row inserted, or enabled if it is there. *)
InsertModel(p, n) ==
  LET there == {m \in ModelsOf(p) : models[m].name = n} IN
  \/ /\ there # {}
     /\ models' = [m \in 1..MaxModel |-> IF m \in there THEN [models[m] EXCEPT !.enabled = TRUE] ELSE models[m]]
  \/ /\ there = {}
     /\ \E m \in 1..MaxModel :
          /\ models[m].st = "unused" /\ \A k \in 1..(m - 1) : models[k].st # "unused"
          /\ models' = [models EXCEPT ![m] = [st |-> "row", provider |-> p, name |-> n, enabled |-> TRUE]]

(* A provider that is gone ends the request. *)
AddAiModel(c) ==
  /\ aiCalls[c].at = "add"
  /\ LET w == aiCalls[c] IN
       IF w.provider \notin ProviderRows THEN Replied(c) /\ UNCHANGED models
       ELSE \E n \in w.names :
              /\ InsertModel(w.provider, n)
              /\ IF w.names = {n} THEN Replied(c) ELSE CallIs(c, [w EXCEPT !.names = @ \ {n}])
  /\ UNCHANGED providers /\ TasksKept /\ AccountKept

UpdateAiModel ==
  /\ \E m \in ModelRows, e \in BOOLEAN : models' = [models EXCEPT ![m].enabled = e]
  /\ UNCHANGED <<providers, aiCalls>> /\ TasksKept /\ AccountKept

DeleteAiModel ==
  /\ \E m \in ModelRows :
       /\ ~UsedByTasks({m})
       /\ models' = [models EXCEPT ![m] = [NoModel EXCEPT !.st = "deleted"]]
       /\ providers' = [p \in AiProvider |-> IF providers[p].default = m THEN [providers[p] EXCEPT !.default = 0] ELSE providers[p]]
  /\ UNCHANGED aiCalls /\ TasksKept /\ AccountKept
-----------------------------------------------------------------------------
(* The Codex account.  A person signs in; POST models/refresh reads the status, lists the models and *)
(* stores them with the provider enabled; POST logout signs out and disables it.                      *)
SignsIn ==
  /\ ~signedIn /\ signedIn' = TRUE /\ left' = FALSE
  /\ UNCHANGED aiCalls /\ RowsKept /\ TasksKept

BeginRefresh(c) ==
  /\ FreeCall(c) /\ signedIn
  /\ CallIs(c, [NoAiCall EXCEPT !.kind = "refresh", !.at = "sync"])
  /\ RowsKept /\ TasksKept /\ AccountKept

SyncCodexProvider(c) ==
  /\ Stands(c, "refresh", "sync")
  /\ providers' = [providers EXCEPT ![CODEX_PROVIDER_ID] = [@ EXCEPT !.st = "row", !.enabled = TRUE]]
  /\ \E N \in SUBSET ModelName : N # {} /\ CallIs(c, AddsModels(CODEX_PROVIDER_ID, N, "refresh"))
  /\ UNCHANGED models /\ TasksKept /\ AccountKept

BeginLogout(c) ==
  /\ FreeCall(c)
  /\ CallIs(c, [NoAiCall EXCEPT !.kind = "logout", !.at = "out"])
  /\ RowsKept /\ TasksKept /\ AccountKept

(* The account signs out; the request may fail before or after that, and nothing is disabled then. *)
LogoutCodexAccount(c) ==
  /\ Stands(c, "logout", "out")
  /\ \/ signedIn' = FALSE /\ MovesCall(c, "disable")
     \/ signedIn' \in {signedIn, FALSE} /\ Replied(c)
  /\ UNCHANGED left /\ RowsKept /\ TasksKept

Enabling == \E c \in AiRequest : Stands(c, "refresh", "sync")
SetCodexProviderDisabled(c) ==
  /\ Stands(c, "logout", "disable")
  /\ providers' = [providers EXCEPT ![CODEX_PROVIDER_ID].enabled = FALSE]
  /\ left' = (~signedIn /\ ~Enabling)
  /\ Replied(c)
  /\ UNCHANGED <<models, signedIn>> /\ TasksKept

(* A request to the process or to a provider fails or times out. *)
RemoteFails(c) ==
  /\ Stands(c, "refresh", "sync") /\ Replied(c)
  /\ RowsKept /\ TasksKept /\ AccountKept
-----------------------------------------------------------------------------
(* Tasks: createAgentTask, updateAgentTask, startAgentTask, deleteAgentTask. *)
InsideLock(t) == \E c \in AiRequest : aiCalls[c].task = t /\ aiCalls[c].at \in {"again", "claim"}
HasRun(t) == runModel[t] # 0

BeginTask(c) ==
  /\ FreeCall(c)
  /\ \E t \in AiTask :
       \/ /\ taskModel[t] = 0 /\ \A d \in AiRequest : aiCalls[d].task # t
          /\ \E m \in ModelRows : CallIs(c, [NoAiCall EXCEPT !.kind = "create", !.at = "resolve", !.task = t, !.model = m])
       \/ /\ taskModel[t] # 0 /\ ~HasRun(t)
          /\ \/ \E m \in ModelRows : CallIs(c, [NoAiCall EXCEPT !.kind = "change", !.at = "resolve", !.task = t, !.model = m])
             \/ CallIs(c, [NoAiCall EXCEPT !.kind = "start", !.at = "resolve", !.task = t, !.model = taskModel[t]])
  /\ RowsKept /\ TasksKept /\ AccountKept

ResolveModel(c) ==
  /\ aiCalls[c].at = "resolve"
  /\ IF ModelAvailable(aiCalls[c].model) THEN CallIs(c, [aiCalls[c] EXCEPT !.at = "lock", !.resolved = aiCalls[c].model]) ELSE Replied(c)
  /\ RowsKept /\ TasksKept /\ AccountKept

(* The insert of a task, which the foreign key refuses when the model is gone. *)
InsertTask(c) ==
  /\ Stands(c, "create", "lock")
  /\ taskModel' = IF aiCalls[c].model \in ModelRows THEN [taskModel EXCEPT ![aiCalls[c].task] = aiCalls[c].model] ELSE taskModel
  /\ Replied(c)
  /\ UNCHANGED runModel /\ RowsKept /\ AccountKept

(* Inside the lock the task is read again. *)
WriteTaskModel(c) ==
  /\ Stands(c, "change", "lock") /\ ~InsideLock(aiCalls[c].task)
  /\ LET w == aiCalls[c] IN
       taskModel' = IF taskModel[w.task] # 0 /\ ~HasRun(w.task) /\ w.model \in ModelRows
                    THEN [taskModel EXCEPT ![w.task] = w.model] ELSE taskModel
  /\ Replied(c)
  /\ UNCHANGED runModel /\ RowsKept /\ AccountKept

TaskMoved_Never(w) == FALSE
TaskMoved(w) == taskModel[w.task] # w.model
EnterStart(c) ==
  /\ Stands(c, "start", "lock") /\ ~InsideLock(aiCalls[c].task)
  /\ LET w == aiCalls[c] IN
       IF taskModel[w.task] = 0 \/ HasRun(w.task) THEN Replied(c)
       ELSE CallIs(c, [w EXCEPT !.at = IF TaskMoved(w) THEN "again" ELSE "claim", !.model = taskModel[w.task]])
  /\ RowsKept /\ TasksKept /\ AccountKept

ResolveAgain(c) ==
  /\ Stands(c, "start", "again")
  /\ IF ModelAvailable(aiCalls[c].model) THEN CallIs(c, [aiCalls[c] EXCEPT !.at = "claim", !.resolved = aiCalls[c].model]) ELSE Replied(c)
  /\ RowsKept /\ TasksKept /\ AccountKept

ClaimRun(c) ==
  /\ Stands(c, "start", "claim")
  /\ runModel' = [runModel EXCEPT ![aiCalls[c].task] = aiCalls[c].resolved]
  /\ Replied(c)
  /\ UNCHANGED taskModel /\ RowsKept /\ AccountKept

RunIsOver ==
  /\ \E t \in AiTask : HasRun(t) /\ runModel' = [runModel EXCEPT ![t] = 0]
  /\ UNCHANGED <<taskModel, aiCalls>> /\ RowsKept /\ AccountKept

DeleteTask ==
  /\ \E t \in AiTask : /\ taskModel[t] # 0 /\ ~HasRun(t) /\ ~InsideLock(t)
                       /\ taskModel' = [taskModel EXCEPT ![t] = 0]
  /\ UNCHANGED <<runModel, aiCalls>> /\ RowsKept /\ AccountKept
-----------------------------------------------------------------------------
AiNext ==
  \/ CreateAiProvider \/ EditProvider \/ DeleteAiProvider \/ UpdateAiModel \/ DeleteAiModel \/ SignsIn \/ RunIsOver \/ DeleteTask
  \/ \E c \in AiRequest :
       \/ BeginDefault(c) \/ CheckDefault(c) \/ WriteDefault(c) \/ BeginAdd(c) \/ AddAiModel(c)
       \/ BeginRefresh(c) \/ SyncCodexProvider(c) \/ BeginLogout(c) \/ LogoutCodexAccount(c) \/ SetCodexProviderDisabled(c)
       \/ RemoteFails(c)
       \/ BeginTask(c) \/ ResolveModel(c) \/ InsertTask(c) \/ WriteTaskModel(c) \/ EnterStart(c) \/ ResolveAgain(c) \/ ClaimRun(c)

AiSpec == AiInit /\ [][AiNext]_aiVars
-----------------------------------------------------------------------------
ProviderRow == [st : {"unused", "row", "deleted"}, enabled : BOOLEAN, default : 0..MaxModel]
ModelRow == [st : {"unused", "row", "deleted"}, provider : AiProvider, name : ModelName \cup {"none"}, enabled : BOOLEAN]
AiCall == [kind : {"none", "default", "add", "refresh", "logout", "create", "change", "start"},
           at : {"idle", "check", "write", "add", "sync", "out", "disable", "resolve", "lock", "again", "claim"},
           provider : AiProvider, names : SUBSET ModelName, task : AiTask \cup {"none"},
           model : 0..MaxModel, resolved : 0..MaxModel]
AiTypeOK ==
  /\ providers \in [AiProvider -> ProviderRow]
  /\ models \in [1..MaxModel -> ModelRow]
  /\ taskModel \in [AiTask -> 0..MaxModel] /\ runModel \in [AiTask -> 0..MaxModel]
  /\ aiCalls \in [AiRequest -> AiCall]
  /\ signedIn \in BOOLEAN /\ left \in BOOLEAN

(* A run works with the model its task names, although the model is resolved before the lock is held *)
(* (agent-tasks.ts:520-529).                                                                         *)
RunUsesItsModel == \A t \in AiTask : HasRun(t) => runModel[t] = taskModel[t] /\ taskModel[t] \in ModelRows
(* A provider's default is one of its own models, whichever of them are deleted meanwhile.           *)
DefaultIsOwn == \A p \in AiProvider : providers[p].default # 0 => providers[p].default \in ModelsOf(p)
(* After a sign-out that no refresh overlaps, the account's models are not offered until somebody  *)
(* signs in (routes/ai-providers.ts:65-77).                                                          *)
LeftIsOff == left => ~providers[CODEX_PROVIDER_ID].enabled

(* The three together: what a run resolves, a page offers and the rows refer to agree.               *)
ProvidersSound == RunUsesItsModel /\ DefaultIsOwn /\ LeftIsOff
=============================================================================
