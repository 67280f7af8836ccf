# Yanto: a verification project

Yanto is a self-hosted deployment platform. One *master* process (Express, one
event loop, Postgres through drizzle) serves the web client, an HTTP API and an
MCP server; headless *workers* on other machines poll it for deployments; AI
agents work on tasks in git worktrees beside the deployed projects. This
directory holds TLA+ models of the parts where order, concurrency and failure
matter, the TLC configurations that check them on small instances, and proofs
checked by TLAPS. Paths below are relative to the repository
(`src/server/services/...` means that file of the repository).

## 1. Inventory

State is marked **db** (Postgres, survives everything), **mem** (a map or cache
of the master, lost when it dies), **disk**, or **ext** (another service).

| component | state | operations | hard behaviour | what makes it correct |
|---|---|---|---|---|
| agent lifecycle lock (`services/agent-lifecycle.ts`) | mem: `lifecycleTails`, one promise per key | `withAgentLifecycleLock` | callers queue on promises; a release must not wake or forget the wrong one | mutual exclusion per key, one key order, first come first served, no leaked entry |
| agent tasks (`services/agent-tasks.ts`, `routes/agent-tasks.ts`) | db: `agent_tasks`, `agent_runs`, `agent_messages`; mem: `activeRuns`, stop handles | create, update, archive, delete, start, stop, commit, push, cleanup, recovery at start-up, drain at shutdown, the hourly archive sweep | a run goes on after its request released the lock; aborts, timeouts and crashes at any await; two tables and a map must agree; capacity | exactly one owner per running task, one actor per worktree, a cap on runs, nothing finished is rewritten, every run ends |
| agent worktrees (`services/agent-worktrees.ts`) | disk: the checkout and branch of each task | prepare, preview, commit, push, cleanup, prune | a git command fails halfway; people edit the same checkout; a branch may be somebody else's | uncommitted work is never discarded unasked, a task keeps its own branch |
| agent events (`services/agent-events.ts`, `agent-event-payload.ts`, the SSE route) | db: `agent_events`; mem: event bus, sequence numbers | record, publish, replay then follow | an event between the replay query and the subscription, a full buffer, the end of the run during connection | no gap, no duplicate, the stream ends |
| agent workspace and providers (`services/agent-tools.ts`, `agent-provider-runner.ts`, `codex-account-runner.ts`, `codex-auth.ts`) | mem: child processes, abort signals; disk: Codex home; a cached account status | start, execute a tool, stop; provider turns; sign-in | stop races a tool that is being spawned; a provider that answers after the abort | after stop returned no tool process runs |
| deployments (`services/deployments.ts`, `routes/deployments.ts`) | db: `deployments` (status, target, log text); mem: `activeDeployments` | start, rollback, run locally, append log, finish, recovery | a per-project advisory lock, a local and a remote executor, late results, a restart of the master while a worker works | one deployment in progress per project, one at work per checkout, none left running without an executor, no false success |
| deployment runner (`services/deployment-runner.ts`, `compose.ts`, `commands.ts`) | child processes, a log buffer and its flush timer | run the steps, kill on timeout, buffer lines | SIGTERM then SIGKILL, a flush in flight while lines arrive | log order, nothing lost, every command settles |
| workers (`worker.ts`, `services/nodes.ts`, `worker-runtime.ts`, `routes/workers.ts`) | db: `nodes`; disk: the worker's token | register, heartbeat, poll, report logs and result | polling without a claim, lost answers, a crash between registration and saving the token | a job is reported once with its real result |
| deployment events (`services/deployment-events.ts`, SSE in `routes/deployments.ts`) | mem: bus | replay, follow, end | completion while the client connects | the final state is delivered |
| projects (`services/projects.ts`, `project-env.ts`, `project-runtime.ts`, `paths.ts`, `github-webhooks.ts`) | db: `projects`; disk: folders and `.env` | create, update, delete, read and write env, webhook | folder name chosen before the insert; deletion next to tasks and deployments | one folder per project, nothing deleted under a running task |
| accounts and access (`services/accounts.ts`, `passwords.ts`, `turnstile.ts`, `auth.ts`, `authorization.ts`, `routes/auth.ts`, `routes/users.ts`, `cli/owner-reset.ts`) | db: `accounts`, `account_tokens`, sessions, permissions | sign in, set up, invite, reset, revoke | one-time tokens, versioned sessions, lazy password rehash | a token works once, a revoked session never returns, one owner |
| Cloudflare (`services/cloudflare.ts`, `cloudflare-diagnostics.ts`, `routes/cloudflare.ts`) | db: tunnels, hostnames, assignments; ext: tunnel config, DNS records, connector containers | create, delete, publish, reconcile | database and remote change in separate steps, each of which may fail; whole configurations are PUT from a read that may be stale | remote configuration converges to the rows |
| FRP (`services/frp.ts`, `routes/frp.ts`) | db: settings; disk: `frpc.toml`; ext: container | save, start, stop, status | file, row and container in separate steps | the running container has the saved configuration |
| backups (`services/backups.ts`, `r2.ts`, `routes/backups.ts`) | db: `backups`; disk: dumps; ext: R2 objects | create, restore, upload, delete | a dump runs in the background; a crash leaves `running` | no row is stuck, no file without a row |
| docker and system (`services/docker.ts`, `system.ts`, `ssh.ts`, `routes/containers.ts`, `routes/system.ts`) | mem: a cached container list | list, start, stop, logs, terminal | a fill of the cache in flight during an invalidation | an answer is never older than the last change |
| settings and tokens (`services/settings.ts`, `tokens.ts`, `crypto.ts`, `routes/settings.ts`) | db: `settings` | read, save, set-up wizard, worker join token | two first readers create the join token | one join token, all-or-nothing set-up |
| MCP (`mcp/*`, `services/mcp-tokens.ts`, `routes/mcp-tokens.ts`) | db: token hashes | issue, revoke, call a tool | revocation while a call runs | a revoked token starts no call |
| AI providers (`services/ai-providers.ts`, `routes/ai-providers.ts`) | db: providers, models | create, update, delete, resolve | deletion of a model a task uses | a run uses one resolved provider |
| database (`db/index.ts`, `db/schema.ts`, `drizzle/`) | db | idempotent migrations at start-up | constraints the services rely on | the CHECKs, unique indexes and cascades |
| web client (`client/App.tsx`, `client/lib/api.ts`, `client/views/TasksView.tsx`) | mem: caches of reads and views, open editors, an event stream | load, refresh, edit, save | answers arrive late, out of order or for a page that has been left | what is shown and saved belongs to what is chosen |
| audit, logging, configuration, HTTP helpers, shared types | - | - | no state that other parts depend on | - |

How they interact: routes and MCP tools call services; services share Postgres,
the maps above and child processes. `deleteProject` takes the agent lifecycle
lock of its project, as every request about a task does. The deployment routes
and the worker API meet only in the rows of `deployments`. `finishDeployment`
and `recordEvent` publish on buses that the event streams follow. Start-up
migrates, recovers deployments, recovers agent runs and only then listens
(`src/server/index.ts:150-164`). Shutdown stops listening, drains the active
runs for a bounded time and exits; it does not wait for deployments.

`PROJECT.json` lists every component with its status, and under `hazards`
the places in the code that tests hardly reach, with the properties that cover
each of them or the reason why none does.

## 2. Structure

The order followed what is at stake: first the agents' worktrees and the
deployments, which are shared by several actors and survive crashes, then the
streams and helpers around them, then the configuration of other services and
the pages that show it.

| modules | what they are about | abstract specification | checked by |
|---|---|---|---|
| `LifecycleLock` | the locks of agent requests | `KeyedMutex`: first come, first served | `MCServices`, proved |
| `TaskWorktree`, `AgentTasks` | tasks, runs, worktrees | `RunLease`: exclusive, capped leases | `MCAgentTasks`, proved |
| `Deployments` | who deploys what, master and workers | `DeploymentSlot`: one slot per project | `MCDeployments`, proved |
| `DeploymentOutput` | from a child process to the reader of its log | - | `MCServices`, proved |
| `AgentStream` | from an agent's event to the task window | - | `MCServices`, proved |
| `RunnerStop` | how runs, tools and the server stop | - | `MCServices`, proved |
| `Accounts`, `Containers`, `Backups`, `ViewLoads` | users and links, the container cache, dumps, reads of the client | - | `MCServices`, proved |
| `Nodes`, `Mcp`, `Projects`, `Frp` | workers, tokens, folders, public ports | - | `MCOperations`, proved |
| `AiProviders` | the model of a run | - | `MCServices`, proved |
| `CodexSignIn`, `CodexHomes` | the account and its copies | - | `MCOperations`, proved |
| `DnsView`, `ProjectEditor`, `ComposePorts` | two pages, and the port check of a deployment | - | `MCOperations`, proved |
| `Publishing` | hostnames and tunnels at Cloudflare | - | `MCOperations`, proved |

"Proved" is said of the safety properties of the runs. The proofs are in modules
of their own: `LifecycleLockProofs`; `AgentTasksLemmas` and `AgentTasksProofs`;
`DeploymentsProofs`; `PublishingProofs`; and, one section for each of the smaller
models, `AgentServicesProofs` (`RunnerStop`, `CodexHomes`, `CodexSignIn`,
`AiProviders`, `AgentStream`), `DeployingProofs` (`Projects`, `ComposePorts`,
`DeploymentOutput`, `Frp`) and `ConsoleProofs` (`Accounts`, `Mcp`, `Nodes`,
`Containers`, `Backups`, `ViewLoads`, `DnsView`, `ProjectEditor`).

`AgentTasks` uses the lock by its abstract specification. `RunnerStop` looks
inside the `Work` and `Crash` steps of `AgentTasks`, `DeploymentOutput` inside
`RunLocal` and the worker's job of `Deployments`, `ComposePorts` inside its last
step, and `CodexHomes` inside the `Prepare` step of a run with the Codex account.
These are separate models of one stretch of the code at a finer grain; the
models do not share variables, and no refinement between them is claimed. The
parts in `MCServices` and in `MCOperations` share no state in the program
either, beside the database: one run explores each of them by itself (the
variable `part` is chosen in `Init` and never changes), which is not a
composition but several model-checking problems with one configuration.

## 3. The models

One step of a model is what happens between two awaits that somebody else can
observe: a database statement or transaction, a git command, a request on the
wire, or a synchronous stretch of the event loop. Statements in one transaction
are one step, but where a row lock is held over several awaits, as in
`Accounts`. In the models of the agents, the deployments and the streams any
database, git or network step may fail where the code has a path for it. The
smaller models have the failures their property is about; what a model takes to
succeed is said in its section below or at the head of its module. Each module
ends with its type invariant; those of the modules in `MCServices` and
`MCOperations` are joined as `ServicesTypeOK` and `OperationsTypeOK`.

### LifecycleLock (`services/agent-lifecycle.ts`)

`tails` is `lifecycleTails`; the promise `tail = previous.then(() => held)` is
represented by the operation that created it, and `prev[p]` by the one whose
tail it awaits. `Call`, `Enqueue`, `Resume`, `Enter` and `Finish` are the call of
`withAgentLifecycleLock`, one synchronous `acquireLifecycleLock`, its
continuation, the start of the operation and the `finally` block. `line` is a
history variable: the order in which operations asked for each key.
`KeyedMutex` says what callers rely on, and `ImplementsKeyedMutex` maps to it.

### TaskWorktree and AgentTasks (`services/agent-worktrees.ts`, `agent-tasks.ts`, `projects.ts`, `index.ts`)

`TaskWorktree` is the checkout of one task as a value: is there a tree, is it
dirty, does the branch exist here and on origin, is it ahead; and what each git
operation makes of it, complete or half done.

`AgentTasks` has three kinds of actors. *Requests* (`at`, `kind`, `target`)
follow the code of their handler under the lock of their project. All take the
project's key first, so a task key is never contended and the lock of the
project is all that is modelled (`LockFree`). *Runs* (`stage`, `snap`,
`outcome`, `abort`) follow `executeAgentRun`, which continues after its start
released the lock: `ReadTask`, `Prepare`, `SaveWorktree`, `Work`,
`ProviderReturns`, `AutoCommit`, `AutoPush`, `AutoCheck`, `AutoClean`,
`ReconcileTerminalRun`, `Complete`. `active` is the map `activeRuns`. `Abort` is
the stop endpoint, the run timeout and the drain at shutdown: all abort the same
controller. *The process* crashes anywhere (`Crash`) and recovers row by row
(`Recover`) before it listens (`Listen`). `EditByHand` is a person, or a tool,
that changes the checkout. `RenameFolder` is a project that is given another
folder, once, whatever its tasks do (`updateProject` takes no lock and looks at
no task); `Sweep` is the removal of the project's own directories after a
deletion released the lock, of the folder that was read under it.

A removal looks for `task.worktreePath || taskWorktreePath(project, task)`. When
the row records no path and the project was renamed since the checkout was made,
the computed path is another one, nothing is found there, and the removal
succeeds without one. `NoOrphanWorktree` excepts this case and names it
(`Lost`): a checkout made before the rename whose path was not recorded, since
the run was stopped between `agent-tasks.ts:385` and `387`. It contradicts
`improvement.md:209`, "Project deletion leaves no worktree directories or live
runner containers."

Abstractions: what the agent does in the checkout is "leave it as it was or make
it dirty"; the four automation levels stand for the cumulative flags
`autoCommit`, `autoPush`, `autoCleanup`; messages, events and listings are left
out; the runner's own stop is part of `Work`, and `RunnerStop` looks into it.

### Deployments (`services/deployments.ts`, `worker.ts`, `nodes.ts`, `worker-runtime.ts`, `routes/workers.ts`)

A *request* walks through `startDeployment`: `LookInMemory` (the cache),
`TakeLock` and the look for a running row, `ReadTarget`, `Insert` with the
commit, `Launch` after the commit, and its answer. A *local run* follows
`runLocalDeployment`: `RunLocal`, `RecordSuccess`, `ReconcileTunnels`,
`RecordFailure`, `CompleteLocal` (the `finally` block). A *worker* follows
`deploymentLoop` and `runJob`. `posts` holds its results on their way to the
row: one may be lost, its answer may be lost, and the handler may run after the
worker has given up. `Retarget` and `DeleteProject` are the project's owner.
`Crash` also stands for a failure handler that throws, which is an unhandled
rejection and ends the process.

Abstractions: deployments are numbered in the order of `startedAt`; equal
results of one deployment in flight are one post; the outcome of a commit is
known (the database answers, or the process ends); commit metadata and pending
environment files are left out, and logs are in `DeploymentOutput`. `brought` is
a history variable: the deployments whose containers have been brought up.

### DeploymentOutput (`commands.ts`, `deployment-runner.ts`, `deployments.ts`, `routes/deployments.ts`)

The items a process prints go through its pipe, the writer's `pending` text with
its cap, the database calls of `drains`, the row, and the streams of readers.
Timeout, abort, SIGTERM and SIGKILL are steps of the process, which closes its
pipe when it exits; descendants that keep a pipe open, or outlive the command,
are in `RunnerStop`. Where a worker executes, `calls` are requests that may
fail, or time out while their handler goes on. `InOrder` is TRUE where the
master learns of updates of one row in their order. The code does not ensure
that: a log update that reads its row before the end and arrives after it
replaces the waiting final state of a slow reader
(`routes/deployments.ts:71-72`). `OutputEnds` is therefore checked with `InOrder
= TRUE`, the order of one database connection; the safety of the log is checked
without it.

### AgentStream (`agent-tasks.ts`, `agent-events.ts`, `routes/agent-tasks.ts`, `client/views/TasksView.tsx`)

The handler of the stream subscribes, reads the task, the run and the events in
separate queries, writes the snapshot, the buffered events above the watermark,
and then what it is told. The window keeps the keys it has shown, loads the task
by itself and reconnects. `NothingMissed` is about what the handler passes on.
What the window makes of it is weaker: a late answer to a load, or a key that
was evicted after 1,000 others, may hide or repeat an event that was shown.

### RunnerStop (`agent-provider-runner.ts`, `agent-tools.ts`, `agent-tasks.ts`, `index.ts`)

`body` is the run's own code, `stopper` the promise of its stop, `ws` the
workspace with its launch and clean-up promises, `proc` the command: whether it
has settled or was sent a signal, and who lives of its process group and outside
of it. `runCommand` settles at "close" (`commands.ts:106-111`), when the child
has exited and nobody holds its output any more. That is not the end of the
group: a background process that redirected its output lives on, also after the
run is recorded as ended and possibly in its worktree, since nothing signals the
group of a command that has settled. And a descendant that left the group
(`setsid`) and holds the output is out of SIGKILL's reach and keeps the command,
and the run, from ending. So `EndedIsQuiet` and `ShutdownWaits` are about
commands under way and whoever holds their output, and `StoppedRunEnds` excepts
the run whose output such a descendant holds. A start still in admission when
the drain reads the map registers its run after it (`agent-tasks.ts:727`):
`srv.waits`, and `ShutdownWaits`, are about the runs the drain found. The stop
of a run with the Codex account only aborts (`codex-account-runner.ts:184`);
this module has the runs with an API key.

### Accounts (`accounts.ts`, `auth.ts`, `authorization.ts`, `routes/auth.ts`, `routes/users.ts`, `cli/owner-reset.ts`)

Transactions take a row lock in one step and commit in another. A sign-in reads
the hash, computes, and writes a rehash back: it may restore the old password
over a reset made meanwhile (`accounts.ts:102`), which the model contains and no
property forbids. The viewer is one event stream with its guard, which reads in
one step and decides in the next.

### Containers (`docker.ts`, `project-runtime.ts`, `routes/containers.ts`)

Every action raises the version of what Docker holds. One whose command exits
with an error throws before it invalidates the cache (`docker.ts:186-188`,
`project-runtime.ts:24-27`), though it may have taken effect in part, and
deployments do not invalidate it at all: a list may be five seconds behind both.
`ListIsCurrent` is about actions of the service that answered success.

### Backups (`backups.ts`, `r2.ts`, `routes/backups.ts`)

The child, the gzip pipe and the file of a dump end in every order Node allows.
The model has one restore at a time. A dump has no time limit
(`backups.ts:30-77`), so nothing is assumed of its child: `DumpEndsInARow` starts
once that has ended. The catch block removes the file and then writes the row
(`backups.ts:279-287`), and either may fail: then the row stays `running` though
the server is up (`settled` is `"stuck"`), as it does after a stop of the server,
and no request deletes a running row. The child is not killed when the file
fails. A restore drops the schema in statements joined by `;`
(`backups.ts:128-135`), so it may answer success over a schema that refused to be
dropped, with older contents beside the dump's (`database.old`); a failed one may
leave the schema dropped, and nothing keeps two restores of one database apart.

### ViewLoads (`client/App.tsx`, `client/lib/api.ts`)

One resource stands for all. Reads in flight and loads of a view are shared; a
view loaded a moment ago is not loaded again. Answers may come in any order: an
older one may overwrite a newer one until the next refresh. What was loaded is
not cleared on sign-out, so that another user who signs in at once sees it until
the first load; the model contains that.

### Publishing (`cloudflare.ts`, `routes/cloudflare.ts`)

A request is a list `todo` of calls: statements on the rows, then the ingress
(`put`) and the DNS record. Two requests overlap, and a call may fail before or
after it took effect. A publication goes to a tunnel there is or makes one first
(`serve`). The settings may name a zone or not, and a request reads them once;
without one, in the settings or in the row, records are neither written nor
removed (`cloudflare.ts:881`, `907`) and the answer is success all the same:
`SuccessIsKept` then promises nothing of the record. `SuccessIsKept` says that a
successful answer given when no other request was under way holds afterwards.
What the code does not promise, and no property claims: a failed set-up of a
managed tunnel leaves a row whose remote tunnel is gone, which cannot be deleted
(`cloudflare.ts:375`, `397`), a failed token leaves a tunnel at Cloudflare
without a row, a deletion that overlaps a creation leaves a DNS record, an
assignment is disconnected before the foreign key refuses its deletion (`498`),
`deleteProject` leaves the ingress and the record in place, and overlapping
requests may leave the older ingress.

### Nodes (`nodes.ts`, `settings.ts`, `worker.ts`, `routes/workers.ts`)

`JoinTokenAgreed`: every join token that was ever shown is the one workers are
checked against, also when two requests create it at once. `MachineKeepsNode`: a
machine that has run as a node never comes back as another one, and no two
machines run as one. A machine that died, or lost its answer, between
registration and the write of its file registers anew and leaves a row nobody
runs as, which the model contains; so does one that cannot read its file, which
`readStoredToken` takes for none (`worker.ts:60-67`): `MachineKeepsNode` excepts
it (`unread`). A token given by `YANTO_WORKER_TOKEN`, and a join token set in
the environment of the master (`settings.ts:212`), are not modelled. The other
settings are rows that are read, changed and written back: the R2 settings
(`settings.ts:105`) and the set-up wizard (`151`) lose one of two concurrent
updates, and are not modelled.

### Mcp (`mcp/`, `mcp-tokens.ts`, `routes/mcp-tokens.ts`)

Over HTTP each request authenticates; over stdio a process does once, and goes
on serving after its token is revoked. A call is a handler's steps: the check
that it is confirmed, the work, the entry in the audit log, the answer; any of
them may throw, which is answered as an error. Tools are told apart by what they
do: look, alter, destroy, or reveal a secret. `McpSound` says that nobody who
comes after the revocation of a token is served with it, that a call does
nothing above the level of its token, that what destroys or reveals was
confirmed, and that the audit log has no entry of what was not done. A
revocation between the look-up of a token and the call does not stop that call;
tokens have no expiry and no owner in the code. A stdio server is a second
process and shares none of the in-process locks and caches of the master.

### CodexSignIn and CodexHomes (`codex-auth.ts`, `codex-account-runner.ts`)

`CodexSignIn` has the child, its notices and the cached status with its revision.
A device code survives the child's exit, in the code and in the model; the
child's initialisation, for which a third caller does not wait
(`codex-auth.ts:34`), is left out.
`CodexHomes` has the copies of the credentials that runs use. Copying a file is
one step and two writes never share a modification time. A process that
refreshes after somebody else signed in keeps the earlier account, and a
sign-out whose answer is lost leaves the copies; `CodexHomesSound` excepts both.

### AiProviders (`ai-providers.ts`, `routes/ai-providers.ts`, `agent-tasks.ts`)

Providers, models, and the model a task names and its run resolved: before the
lock is held in a start, again under it. `RunUsesItsModel`: a run uses the model
its task names. `DefaultIsOwn`: the default of a provider is a model of its own,
or none. `LeftIsOff`: after a sign-out that was answered and that no refresh
overlapped, the Codex provider is off until somebody signs in. A refresh
that overlaps a sign-out turns it on again without an account
(`routes/ai-providers.ts:72-78`), a failed sign-out leaves it on, and discovery
turns a disabled model on (`ai-providers.ts:131`); the model contains these.

### Projects (`projects.ts`, `project-env.ts`, `paths.ts`)

Requests overlap in any way; `FoldersAreKept` holds but for two races, which
`clashed` remembers. A folder is found free for a project while a request for
another one has found it free as well, or is about to write its env there or to
remove it (`TakesFolder`, `Held`): then two projects may share a folder, or one lose
its files to the other's removal. And a project is given another folder while its
env is on the way to the old one (`MovedUnder`). No unique index and no lock keeps
these apart (`projects.ts:92-93`, `164-175`); every other overlap of creations,
moves, deletions and saves is harmless, and that is what the property says.

### Frp (`frp.ts`, `routes/frp.ts`)

Rows, the file on the machine, what frpc loaded and what the server remembers
are four things. People also register proxies of their own, under a name and on
a port they choose, and a row is matched by its id, by its name and by its port
(`frp.ts:173-187`: `Found`, `IsOf`). The dashboard is asked for each protocol's
list and may not answer for one or both - no token, a time limit of 2.5 s, a
failed list or inspection (`frp.ts:57-74`, `329-332`, `347-377`) - in which case
a tunnel that is served may be shown as offline: `MayShow(t, answered)`.
`ShownIsServed` has the two directions that hold. Once frpc has loaded the
present rows, an enabled tunnel shown as online is served, or a person's proxy
of its name or port is; and one that is served is shown as online if the list of
its protocol was answered. `Port` is the range a public port may be in
(`frp.ts:108`); the run has one port. The install script's `systemctl enable
--now` does not restart frpc when it runs (`frp.ts:295`), so a new file is
loaded at the next start only.

### DnsView and ProjectEditor (`client/App.tsx`)

Two pages and the answers on their way to them. `DnsShowsSelected` excepts an
edit answered after another client was chosen and a client that vanished;
`EditorSavesItsOwn` excepts an editor in which a late answer was put
(`mixed`): a fetch begun for one project fills the editor of the next
(`App.tsx:1208`, `1241`).

### ComposePorts (`compose.ts`, `deployment-runner.ts`)

Files are the name that compose gives their project and a list of port entries;
`HostPorts` and `PortRangeLimit` are small, so that a range past the limit, a
variable, and a port named twice occur. The check is what the code can know, which
is less than what docker does:

* the containers it takes for its own, and ignores, are those labelled with the
  project's folder (`compose.ts:172`), while compose is run with `-f` only and names
  its project after the file's directory, in small letters and without dots, or
  after its `name:`. The two may differ, or be one for two projects;
* docker writes neighbouring ports as one range, and `expandPortRange` drops a range
  past the limit on this side too (`compose.ts:145`), own ports included (`Seen`);
* `lsof` sees the listeners of its own network namespace: those of the host, docker
  for the containers (with its default userland proxy), or, when Yanto runs in a
  container, those inside it (`Inside`); a failure is taken for none. It lists TCP only.

`RefusedForCause`: a refusal is for a port the file publishes twice, that
somebody else had or came to have, that is the project's own and cannot be known
for it (`unknown`), or that is listened on inside Yanto's container.
`FailsForCause`: when compose fails over a port after the check passed, that
port came after the lists were read, another deployment included, or one of
these gaps is the reason (`unseen`, `Unchecked`).

Each file stands for one service with one container, and host addresses are left
out: a key is a protocol and a port. `createProject` runs the same check
(`projects.ts:98-105`) and deploys nothing.

## 4. The runs

| run | instance | what it shows |
|---|---|---|
| `AgentTasks_one` | 1 task with a person in its checkout, 2 concurrent requests of all nine kinds, 2 runs, automation none or full | running tasks have an owner, one actor per worktree, no lost changes, finished runs stay finished |
| `AgentTasks_two` | 2 tasks of one project (one resumes a branch, one works on its source branch), cap 1, automation up to push, the project's folder renamed or the project deleted | the two tables agree, no orphaned checkout, refinement of `RunLease` |
| `AgentTasks_live` | 1 task, 2 requests (start, push), 2 runs, fairness | every run ends, every request is answered |
| `Deployments_safety` | 1 project, 3 deployments, 2 concurrent requests, the master and 1 worker | deployments in progress are owned, no false success, refinement of `DeploymentSlot` |
| `Deployments_live` | 1 deployment, 2 concurrent requests, fairness | deployments end |
| `Services` | the nine parts of `MCServices` | `ImplementsKeyedMutex` (lock), `SuccessHasWholeLog` (output), `NothingMissed` (stream), `EndedIsQuiet`, `ShutdownWaits` (runner), `AccountsSound`, `ListIsCurrent`, `DumpsAreWhole`, `RefreshFollowsMutation`, `ProvidersSound` |
| `Services_live` | seven of them, fairness | `Served`, `OutputEnds`, `StoppedRunEnds`, `RevokedStreamCloses`, `LogStreamEnds`, `DumpEndsInARow`, `ViewCatchesUp` |
| `Operations` | the ten parts of `MCOperations` | `SuccessIsKept`, `NodesSound`, `McpSound`, `StatusIsCurrent`, `FoldersAreKept`, `ShownIsServed`, `DnsShowsSelected`, `EditorSavesItsOwn`, `CodexHomesSound`, `PreflightSound` |
| `AgentTasks_archived`, `AgentTasks_startable`, `Deployments_reused`, `Services_window` | small instances | four findings, see section 7 |

Why the bounds are enough.

* *AgentTasks*: two requests for every race of a start with another handler, two
  runs for a run that follows a finished, aborted or recovered one; the cap of one
  is reached by one run. Different projects share only the cap, so a second task
  of the same project exercises more.
* *Deployments*: a first deployment that is being wound up, a second that has
  started, and a third start that meets what the first left in the cache.
  Deployments of different projects meet only in a worker's queue; one project
  with one worker already has a job that is executed again, abandoned and
  overtaken.
* *Lock*: three operations, for a release to meet one waiter and one newcomer,
  over a project's key and two tasks' keys.
* *Output*: five items against a `pending` of two and a log of four, so that both
  caps cut. *Stream*: four events, a snapshot limit of two and one load. *Runner*:
  one run with two tools, one of which may be past its checks at the abort.
* *Accounts*: two users, two transactions, two links and two session versions: a
  link, its replacement and the request that uses the first. *Containers*: two
  callers and one action, with three reads, of which one is before, one during
  and one after it. *Backups*: dumps of two chunks, so that a part of one exists,
  and one stop of the server. *Views*: two changes and two reads in flight.
* *Publishing*: one hostname and one mishap, with one request of any kind and a
  second tunnel, or two requests of which one creates; the zone comes and goes. *Nodes*: two machines and
  three registrations. *Codex*: two callers, two changes, two reads; two accounts
  and five writes of an auth file in one task's home. *Projects*: two rows, two
  folders, two requests. *Frp*: two tunnels and a person's proxy for one port. *Pages*: two clients with
  three fetches, two projects with one fetch. *Ports*: two projects, four files
  under the folder's name or the other's, and three arrivals. *Providers*: one with a key and the Codex one, two model
  rows, one task, two requests.

Every bound is a constant named in its module (`Max...`, or a set of ids) and
appears in guards only. In `AgentTasks` and `Deployments` starts fail or are
refused when all identifiers are used up, so their runs check for deadlock. The
parts of `MCServices` and `MCOperations` stop when their bounds are reached or
their one stream, dump or shutdown is over, so their runs say
`CHECK_DEADLOCK FALSE`; that nobody waits for ever is the subject of `Served` and
the other properties of `Services_live`.

Symmetry is used over requests and runs (`AgentTasks_one`, `AgentTasks_two`,
`Deployments_safety`), and never in a run with a liveness
property; the refinements checked there are of safety specifications without
fairness, and no mapping mentions a symmetric identifier.

## 5. Fairness

* *Enter, TakeLock*: strong fairness. Both locks are first come, first served:
  the promise chains by `ImplementsKeyedMutex`, Postgres advisory locks by their
  wait queue.
* *steps of requests, runs and local deployments*: weak fairness. Each follows an
  await that ends: commands are killed after their timeout
  (`commands.ts:39-50`), a provider by the run's timeout, and
  `reconcileTerminalRun` retries until the database answers.
* *workers*: weak fairness of polling and of each stage of a job
  (`deploymentLoop` polls for ever, a failed poll only delays the next). Strong
  fairness of reaching the end of a job, and of the handling of a result: the
  worker's restarts and the network do not fail it at the same point for ever.
  Whether a job succeeds is not assumed.
* *Recover, Listen, Restart*: weak fairness. Compose restarts a dead process
  (`restart: unless-stopped`), and start-up is finite.
* *output*: weak fairness of the writer's timer, the timeouts, the signals, the
  handler's steps and of the death of a process after SIGKILL; none of what a
  process prints, nor of its exit before SIGKILL.
* *stream, runner, guard, log stream*: weak fairness of each handler's next step
  and of timers; the members of a process group end after SIGKILL, and nothing is
  assumed of a process that left it. The shutdown's time limit may cut it short
  (`srv.late`).
* *dump*: weak fairness of what follows the end of its child, none of the child.
* *views*: weak fairness of the refresh timer and of the server's reads; strong
  fairness of the arrival of an answer, since the timer asks again and the
  network does not lose every answer.
* No fairness of crashes, aborts, edits, new requests, lost messages, retargeting,
  deletion, or anything a person does.

## 6. What is proved

All proofs are checked by TLAPS without omitted steps, for any number of
operations, keys, tasks, projects, runs, workers, deployments, users, tokens,
events and so on. The assumptions are the named `ASSUME`s of the modules: sets
of model values are disjoint from the "none" values (so `"nobody"` is no account,
0 no join token, and `"codex"` none of the API providers), a task belongs to a
project, bounds are naturals. Where a bound may not be 0 the module says so: a
dump has a chunk, a process may print an item, the writer's `pending` has room
for a notice and an item, the row for a notice, an item and the message of a
failure, the numbers of a run's events for those of its end, and FRP's range has
a port.

Every theorem about a safety property has the same form: an inductive invariant
`...Inv` (or `IInv`, `OutputFits`) that holds at first and is kept by every
action, checked by TLC on the instances of section 4 before it was proved, and
the property as a consequence of it.

**LifecycleLockProofs.** `LineCorrect` is inductive: for each key, `line` has no
duplicates, the map holds exactly its last member, each member waits for the one
before it, and only the first holds the key. Mutual exclusion, the absence of
leaked entries and the order of keys follow; so does `ImplementsQueue`, the
refinement of `KeyedMutex` on which `AgentTasks` relies. Without the history of
the queue the invariant is not inductive: the map alone does not say whose tail
a waiter awaits.

**AgentTasksLemmas, AgentTasksProofs.** `Invariant` shows `IInv`, a conjunction
of named parts: `RequestAt` (each place of a handler belongs to its kinds of
request), `ClaimHasHandle`, `OneHolder` (the lock), `HeldIsQuiet` (what a holder
checked, that its tasks do not run, stays true while it holds the lock),
`HandlesMatch` (`activeRuns` and the stages of runs are inverse to each other),
`CapKept`, `RowsMatch` (what the stage of a run says of both rows), `TreesMatch`
(deleted tasks have no worktree, nor have those whose removal is behind the
request) and `SnapshotCurrent`. `HeldIsQuiet` and `HandlesMatch` carry the
argument: a request that holds the lock and a run exclude each other although
the run does not hold it, since only a holder can start a run and a run leaves
the running state only when it no longer touches its worktree. `RunsAreOwned`,
`TablesAgree`, `WorktreesAreExclusive`, `SettingsAreCurrent`, `NoOrphans`,
`FinishedIsFinal` and `ChangesAreKept` follow.

Its last section proves `RunsAreLeases`: every step of `AgentTasks` grants one
lease, ends some, or is a stutter of `RunLease`.

**DeploymentsProofs.** `IInv` of `Deployments` says what each request, local run,
worker and result may count on: `Rows` (rows are inserted in order and disappear
with their project), `LockHeldOnce`, `NoneWhileHeld` (the holder of the advisory
lock has seen that nothing runs, and nothing can make a row run but an insert by
a holder), `RequestAt`, `LaunchedOnce`, `LocalAt`, `WorkerAt`, `PostsAt` (a
success in flight is of a deployment that was brought up), `WorkOnce` (of one
project, one deployment is at work or about to be) and `DownIsQuiet`. That a
running row keeps its owner is needed for `WorkOnce`: a second launch needs an
empty `Running`, and what the master executes is still running until it is
finished. The theorems `OneIsRunning`, `OneIsAtWork`, `RunningHasOwner`,
`SuccessIsTrue`, `CacheIsLive` follow, and `DeploymentsAreSlots` is the
refinement of `DeploymentSlot`.

**PublishingProofs.** A request changes rows, an ingress, a DNS record and a
connector by calls of its own, so while it is under way they do not agree, and
`SuccessIsKept`, which is about the answer, says nothing yet. The invariant
`PublishingInv` therefore counts the calls a request has left, and says for each
number what already agrees.

* `RowsFit` and `JobsFit` hold with any number of requests at once: a hostname is
  of one row, whose tunnel has a row too; a request under way has a call left; a
  request that is `alone` has nobody beside it; and the connector is checked
  before it is removed and started.
* `OnTrack` is about the request that is `alone` and whose answer will be success.
  `ConfigIsOfRows`: the ingresses it has written are still the rows of their
  tunnels, and each is written from rows read in the call before, so nothing that
  changes a row may come after a `put`. `Serving`: the row is written first, then
  record and ingress in the order of the request; the record the request has seen
  is the one there is until it is replaced, and then its id is the one that will
  be saved. `Removing`: when the row is erased the record is gone or not the row's,
  or the answer will warn, and no row has the hostname when the ingress is
  written. `Ordered`: the other requests change no row or write no ingress.
* The lists of calls are concatenations of the lists of the helpers of
  `cloudflare.ts`, with parts that may be missing: the record and the tunnel of the
  route a publication takes over. What such a list has at each number is a lemma of
  each kind of request (`CreateTasks`, `RemoveTasks`, `PublishTasks`,
  `EnableTasks`), and `GoingOn` and `ThrownKeeps` say once what any call that goes
  on, or throws, does to the rest.

From `PublishingInv` and an empty list of calls `PromiseKept` reads off what was
promised, and `SuccessIsAlwaysKept` follows.

**AgentServicesProofs.**

* `RunnerStop`: `RunnerInv` ties the body of a run, its stop, its workspace and
  its command together. A command is under way, and its output is held, only while
  the body is at its command, which the body leaves only when that settles; one
  command at most is past its checks at an abort, and it keeps the body from ending. `EndedRunsAreQuiet`
  and `ShutdownsWait` follow.
* `CodexHomes`: what a copy may be is known by its time. A copy as new as the
  account's file was made from it, or a process has refreshed it since
  (`CopyIsOfAccount`), so the comparison of times in the preparation decides
  rightly; a home behind the sign-out keeps no copy that no process has written
  since (`SignOutFits`).
* `CodexSignIn`: what is cached, and what a read of the present revision found,
  is something the account has been since the service last knew of every change;
  whoever waits may be told any of that. A change the service hears of raises the
  revision, which is why an older read is not believed.
* `AiProviders`: a model keeps its provider for ever, so a default that was
  checked before its row was written is still one of the provider's own or was
  deleted; a start that holds the lock of its task has looked at the task there;
  nobody enables the Codex provider after it was left (`LeftIsQuiet`).
* `AgentStream`: `SnapshotFits` is the argument of the route: an event its
  snapshot does not show is older than all it shows, or above the watermark and
  in the buffer, or still being written. It rests on the order of the events of
  a run (`StoredFits`, `Distinct`), on what a query with a limit returns, and on
  what a buffer sorted by `Ascending` contains.

**DeployingProofs.**

* `Projects`: as long as neither race was lost, requests that are at work on one
  folder are about one project (`Apart`), so that what each has found free stays
  free (`RequestHolds`), and no one else removes or fills the folder of a row
  (`RowHolds`).
* `ComposePorts`: every port in use is in the list of containers that is kept,
  for the one who has it, or came since (`ListSound`); `CheckFits` carries that
  through the check: a port of others is compared with, or is a TCP port that is not
  ignored, or cannot be seen; what is ignored is nobody else's.
* `DeploymentOutput`: `Chain(s, a, b)` says that a piece of log leads from item
  `a` to item `b` without a gap that no notice shows. As long as nothing has
  failed, the row's log, the call under way and the pending text are chains that
  join, and the pipe has the newest items (`GoingFits`); cutting a chain to a cap
  behind a notice leaves a chain. From the call that records the success on
  nothing is added but the message of the catch block, once (`SuccessFits`): also
  when the answer to that call is lost and a worker takes its success for a failure.
* `Frp`: no two rows have one port of one protocol, and what the server serves under
  an id is in what frpc has loaded; so a proxy
  that is online for a row is the row's own or a person's.

**ConsoleProofs.**

* `Accounts`: `TxFits` says that what let a transaction go on still holds while
  it has the row locked, and `RowsAreLockedOnce` that nobody else has it.
* `Mcp`: a client that is coming in with a revoked token can still be found out;
  one that is in has the tools of its level, and its call is past the check for
  confirmation before anything is done.
* `Nodes`: the node of a machine is in its file or, until it is written there,
  with the process, and nobody else holds it; a machine has run as another only if
  its file could not be read.
* `Containers`: what is cached, and what a read of the present revision saw, is as
  new as the newest action that has answered success.
* `Backups`: `DumpFits` orders the ends of child, pipe and file.
* `ViewLoads`: reads are shared anew when a mutation is sent, so that a read
  shared since has seen at least what was there then.
* `DnsView`: what is on its way was asked for the client that is shown, as long as
  nothing was asked since.
* `ProjectEditor`: what the open editor shows, and what is being fetched for it,
  is of its project; a text that was only opened is known to come from the file.

Two limits of the prover shaped these modules. Induction over data is out of its
reach, so what is said of positions in a sequence goes by counting: `Ascending`
sorts by the number of smaller members, and `LeastNatural` takes the least member
of a set of naturals. And several fields of one entry of a function are changed
by one nested `EXCEPT` (`[f EXCEPT ![i] = [@ EXCEPT !.a = ..., !.b = ...]]`, the old
values written out), never by two paths through the same entry, which tlapm 1.4.5
does not translate as TLA+ means it.

Some proved invariants are stated in the modules but listed in no run, since each
follows from the refinements that are checked, or from an invariant that is:
`MutualExclusion`, `EntryIffInLine` and `AscendingOrder` of the lock, `IInv`,
`SnapshotCurrent`, `OneRunning`, `OneAtWork`, `CacheHasRun`, and the type
invariants; the inductive invariants of the smaller models are in the proof
modules, which no run extends.

**Only model-checked.** Liveness, which needs fairness and is out of the prover's
reach: `RunEnds`, `Answered`, `RunningEnds` and everything in `Services_live`.
Every safety property of a passing run is also proved.

## 7. Findings

* **An archived task that is not done** (`AgentTasks_archived`). `pushAgentTask`
  writes `review` without a look at `archivedAt` (`agent-tasks.ts:646` and
  `656`), and the archive sweep takes no lock. `agent-tasks.ts:247`: "Only done
  tasks can be archived."
* **A start that spoils its task** (`AgentTasks_startable`). A run stopped between
  the creation of its branch and the update that records it
  (`agent-tasks.ts:386`) leaves a branch that, after a cleanup, every later start
  refuses as somebody else's. `improvement.md:21`: "A failed start must leave the
  task in its previous usable state."
* **A start answered with a finished deployment** (`Deployments_reused`). The
  cache is asked before the row (`deployments.ts:152`) and its entry is deleted
  after the row is finished and the tunnels are reconciled (`131`, `133`, `141`).
  A push that arrives in between is answered as reused, and not deployed; the
  client says "Deployment is already running." (`src/client/App.tsx:1064`).
* **A stream that never ends** (`Services_window`). The event stream reads the
  run's status (`routes/agent-tasks.ts:123`) before its events (`127`). When the
  run ends in between, its last event is in the snapshot, the watermark of line
  `154` drops it from what was buffered, and the snapshot says the run is not
  done: the window shows a running task until it is opened again.
  `improvement.md:178`: "The client always observes a terminal state, including
  completion during connection setup."

One more disagreement is excepted in a property instead of shown by a run of its
own: the checkout that a deletion misses after its project was renamed (`Lost` in
section 3, against `improvement.md:209`).

## 8. Not modelled

Components marked `not_modelled` in `PROJECT.json`: webhooks (checks of one
request, which then starts a deployment), Cloudflare diagnostics, system and SSH
keys (reads, and one file), password hashes, encryption and Turnstile (functions
of their input), audit, logging, configuration, HTTP helpers and shared types,
and the migrations (idempotent statements before the server listens).

Of the components marked `partly`: conversation messages and listings of tasks;
the text of diffs and the selection of paths; the wire formats of providers and
the JSON-RPC framing of the Codex app server; what file tools do to files; commit
metadata, pending environment files and the choice of a rollback target;
container and log requests to a worker; the clone of a project; account settings
and zone listings of Cloudflare; terminals and statistics of containers; edits of
the YAML text; rendering.

Hazards that no property covers are listed with their reason: a sign-in that
writes back an older hash, a Codex stop that returns before its child has ended,
and a commit whose answer is lost (the deployment's row is committed, nobody
executes it, and it blocks its project until the next start of the master). The
code handles none of the three, and nothing in the repository promises more.

Also left out everywhere: more than one master, clocks (every timeout and age is
"at some time"), and limits on the rate of requests.
