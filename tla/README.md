# Abbenay in TLA+

This directory holds TLA+ models of the Abbenay daemon and of the parts of its
VS Code extension that talk to it, TLC configurations that check them on small
instances, and proofs, checked by TLAPS, of what holds for every instance. All
paths below are relative to `packages/daemon/src/` unless they say otherwise;
`DR-n` are entries of `docs/decisions.md`.

- [1. The system](#1-the-system)
- [2. What is modelled](#2-what-is-modelled)
- [3. What is checked](#3-what-is-checked)
- [4. What is proved](#4-what-is-proved)
- [5. What the models show about the code](#5-what-the-models-show-about-the-code)
- [6. What is not modelled, and the plan](#6-what-is-not-modelled-and-the-plan)

Run TLC with `tlc -config MCSessionStore_all.cfg MCSessionStore` and so on for
each `.cfg` (the module is the part of its name before the underscore), and the
proofs with `tlapm <module>.tla` for each module whose name ends in `Proofs`.

## 1. The system

Abbenay is a daemon that gives programs on a machine one place to reach language
models, their secrets, and the tools those models may call. Clients speak gRPC
over a Unix socket (VS Code, Python, the command line) or HTTP (dashboard,
OpenAI-compatible API, MCP).  It is one Node process: nothing runs in parallel,
everything interleaves, at every `await`.  Nearly all its hard behaviour is of
that kind: state is read, something is awaited, and what was read is acted on.

| component | state | operations | talks to |
|---|---|---|---|
| Session store (`core/session-store.ts`) | `<id>.json` per session, `index.json`, their `.tmp` files, the promise chain `writeLock` | create, get, list, delete, appendMessage, updateTitle, updateSummary, replayMessages | the file system; called by chat turns, RPCs and HTTP |
| MCP client pool (`daemon/mcp-client-pool.ts`) | clients, statuses (source, scope, connected), the health timer, recent denials | connectAll, connect, reconnect, connectDynamic, disconnect, by scope, by client, syncWithConfig, runHealthCheck, callTool | tool servers through the MCP library; tool registry; the operator (stdio approval) |
| Tool registry (`core/tool-registry.ts`) | tools by namespaced name in order of registration, session scopes, aliases | register, unregisterSource, clearSessionScope, setAliases, listForChat, resolve, buildExecutor | filled by the pool and by VS Code windows; read by chats and by the MCP server |
| VS Code backchannel (`daemon/state.ts`, `packages/vscode/src/daemon/backchannel.ts`) | connections in order, workspace paths, pending requests with timers; in the window, the request loop | VSCodeStream, handshake, sendVSCodeRequest, handleVSCodeResponse, tool notifications, invokeVSCodeTool | tool registry; VS Code's tools and models |
| Daemon lifecycle (`daemon/daemon.ts`, `daemon/transport.ts`) | PID file, socket or address file, signal handlers | startDaemon, shutdown, stopDaemon, killDaemon | every command of `abbenay` |
| Chat (`core/state.ts`, `core/engines.ts`, `core/tool-approval.ts`) | one stream: the policy it read, the tools it was offered, the calls it made | resolve a virtual model, list tools, stream, judge a call, execute it by name | AI SDK; registry; policy |
| Session chat and summarizer (`daemon/server/abbenay-service.ts`, `core/session-summarizer.ts`) | one turn | append, stream, persist tool calls and answer, title, summary | session store, chat |
| Approvals (`daemon/web/server.ts`) | four maps of pending requests, three with time limits | ask, decide, expire, abort when the client goes | chats, MCP server, pool |
| MCP server (`daemon/mcp-server.ts`) | sessions with the tools they were created with, remembered clients | initialize with consent, tools/call with policy, forget, revoke | approvals, registry |
| Web server, OpenAI API (`daemon/web/`) | the HTTP server, event streams | routes | all of the above |
| gRPC service (`daemon/server/abbenay-service.ts`) | registered clients | RPCs | all of the above |
| Configuration (`core/config.ts`, `core/config-schema.ts`) | `config.yaml`, user and workspace, nothing in memory | load, merge, validate, save | handlers of both servers, which read, change and write it whole |
| Secrets (`core/secrets.ts`, `daemon/secrets/`) | keychain; or the secrets file with a cache and a write chain; environment | get, has, set, delete, by store | configuration handlers, chat |
| Access control (`daemon/server/consumer-auth.ts`, `daemon/web/http-security.ts`, `daemon/grpc-tls.ts`, `core/provider-endpoint.ts`) | none | decide on one request | gRPC and web server |
| Extension services (`packages/vscode/src/extension.ts`, `daemon/client.ts`, `providers/`) | one client object (channel, client, client id), the language model provider, the backchannel handler, `reconnectPending` | activate, reconnect on changed settings, connect, register, refresh models, reopen the stream | the daemon; VS Code's model registry |
| Chat sidebar (`packages/vscode/src/webview-ui/chat/`, `webviews/chat/`) | in the view: session, answer being streamed, input lock, prompt put by; in the host: one abort function | send, inject, cancel, new and deleted session, stream | SessionChat through the host |
| Other clients: command line, provider panel, Python | connections, views | user interface | the daemon |

What makes each of the central components correct:

- **Session store**: an acknowledged message stays; a deleted session stays
  deleted; the index lists exactly the sessions there are; no failure of one
  call blocks the next; to its callers the store is an atomic map.
- **Pool and registry**: no connection (and no child process behind it) outside
  the pool; tools in the registry exactly while their server is connected; tools
  of a session in that session alone; nothing left of a session once it is
  deleted; a dead server goes.
- **Chats, approvals, MCP server**: what runs was offered, is not disabled, and
  is either approved by policy or was allowed by the user; a request is listed
  as long as someone waits for it; whoever waits with a time limit, or whose
  client has gone, does not wait for ever.
- **Session turns**: the model never sees a tool's call without its result; a
  turn that is done is stored whole; the title stays; a cached summary is of
  everything there is; a summary that is due is made.
- **Backchannel**: whoever waits has a pending request and the other way round;
  a closed window leaves neither requests nor tools; registered tools are the
  window's; every request settles even if the window hangs.
- **Lifecycle**: one daemon at a time, the one the files name; nothing a crash
  leaves behind keeps the next one from starting; `stop` stops.
- **Configuration and secrets**: an acknowledged change stays; a provider in the
  file names a secret that is there; a stored secret is never dropped by a write
  of something else.
- **Extension services**: after any changes of the settings the services run on
  one connection, made with the last of them; one provider is registered; no
  change is lost.
- **Chat sidebar**: cancel reaches the answer under way; an answer stands under
  its prompt; a prompt is sent once; the input does not stay locked.

The hazards behind these properties are in `PROJECT.json`, each at its line.

## 2. What is modelled

One rule for all modules: the code between two awaits (or two file operations of
different processes) is one action, because Node lets nothing in between, and
every await is a point where every other action may happen.  Loops over a
snapshot keep the snapshot.  History variables are marked `history` where they
are declared; no action's guard reads them.

### SessionMap, SessionStore

`SessionMap` is what a caller may assume: a map from ids to sessions, changed one
session at a time, whole operations at a time; ids are not reused after a
deletion.

`SessionStore` is the code. `file`, `tmp`, `index`, `indexTmp` are the files,
`queue` the promise chain (its head runs), `pc`, `op`, `target`, `seen`,
`seenIndex` the local state of the method calls. A locked call goes `Invoke`
(enqueue), then `BeginCreate`, `BeginUpdate` or `BeginDelete` (up to the first
write), `WriteTmp`, `RenameTmp` or `Unlink`, `ReadIndex`, `WriteIndexTmp`,
`RenameIndex`, and `Settle`, which hands the chain on. `updateSummary()` is the
one writer that does not take the lock (`core/session-store.ts:290`): the same
steps, without a place in the queue. `IOError` makes any file operation throw,
`Crash` ends the process: calls are `lost`, files stay.

Abstracted: a message, a title and a summary are the call that wrote them;
timestamps, owner, model, policy and metadata, which never change after
creation, are left out; `writeFile` is one step, so torn temporary files, which
two writers of one `.tmp` could produce, and power loss without `fsync` are not
modelled. `Session` bounds how many ids are drawn.

### McpClientPool

`client`, `status`, `timer` are the pool's maps and timer; `tools`, `scoped` the
registry's view of the pool's servers; `open` is the outside world, the
connections that are up. Calls have local state as above (`held` is the client
object a call took out of the map before it awaited `close()`). Waiting labels
are the awaits: `approval` (operator's decision on a stdio command),
`connecting` (`createMCPClient`), `listing` (`listTools`), `closing`
(`close`), `probing` (the health check's `listTools`), `next` (between two
servers of a loop). `ServerDies` is external: a connection goes down, and the
library may or may not report it through `onUncaughtError`.

The tools of a server come and go together, as in the code, so the registry is a
set of servers here. Two history variables delimit the properties: `spoiled`
(servers on which two calls overlapped, or whose `close()` failed) and `late`
(registrations for a session that was deleted meanwhile).
Section 5 says what happens inside those limits.

Merged or left out: a continuation on a promise that is already settled runs in
the same action; two health checks never overlap; `callTool`, `disconnectAll` at
shutdown and the list of recent denials.

### Backchannel

`conns`, `path`, `pending`, `registry`, `shake`, `call` are the daemon's;
`busy`, `folder`, `offered` the windows'; `out` and `back` the two directions of
each stream, ordered and lost with it. `Open`, `Handshake`, `WorkspaceKnown`,
`ToolsKnown` follow the VSCodeStream handler: 100 ms after a window connects the
daemon asks for its folder, then for its tools. `Notified` is a change of tools,
which the window may announce at any time. `Invoke` is a chat's call of a
workspace tool. `Timeout` is the ten-second timer of any request; nothing says
that the window answers at all. `Ended` is what the daemon does when the stream
ends, `Break` the window's or network's doing.

Folders are names because the code keys tools by the folder's base name, so two
windows may share one. The registry records who registered a tool last, which the
code does not: the properties need it.

### DaemonLifecycle

Every `abbenay daemon` (or `web`, `chat`) is a process `d` of `Daemon`, every
`abbenay stop` a process of `Stop`; they share `pidFile` and `socket` and nothing
else. Each file operation is an action (`CleanSocket`, `WritePid`, `Bind`,
`RemoveStalePid`, ...), `Signal` and `Wait` are `killDaemon()`: SIGTERM, poll,
SIGKILL. A daemon in `draining` waits for its open streams and may do so for
ever. `Kill` ends any process anywhere, `MaxKills` times.

`overlap` is a history variable: a start or a stop began while another was under
way. Process ids are not reused. The Windows address file is removed with the
socket and is not a file of its own.

### ToolNames, ToolCalls

`ToolNames` is the registry and the policy as operators: a registry is the
sequence of its tools, `With` and `Without` are `register()` and
`unregisterSource()`, `ListForChat` is `listForChat()` (session scope, disabled
tools, the first of each bare name), `Resolve` the lookup by bare name,
`Classify` the tier of a tool under a policy whose patterns are given by what
they match.

`ToolCalls` has two kinds of callers on one registry and one policy that change
under them. A chat (`kind`: dashboard, RPC or terminal) reads the policy once and
is offered one tool per name (`StartChat`); `Propose` is the model's call and the
validator's verdict, `DecideChat` the user's, `Leave` a client that goes away,
`ExecuteChat` the executor. The name is resolved when the tool is offered, again
when the call is judged, and again when it is executed. An MCP session is let in
by consent or as remembered (`Initialize`, `DecideConsent`, `ExpireConsent`),
captures the tools of its moment (`Establish`), may be revoked or its client
forgotten, and each `CallTool` is judged by the policy of *its* moment.

Two history variables delimit the properties. `rival`: while the caller held an
offer, another tool of the same bare name was in the registry, so the three
lookups may disagree. `late`: a web chat asked for approval after its client had
gone. Left out: aliases (nothing calls `setAliases`), tools and tool filters that
come with a request, what a tool returns.

### SessionTurns

A turn is `Read`, `Send` (store the message), `StoreCall` and `StoreResult` per
tool, `EndStream`, `StoreText`, `Conclude` (title, then `maybeSummarize()` is left
to itself); turns are of the servers or of the terminal, which titles and
summarises by other rules. A summary, after a turn or on request, is
`ReadForSummary` and `WriteSummary`. A store call is one step that succeeds,
fails (`faults`), or finds the session deleted. `updateSummary()` is atomic here
although it takes no lock; what becomes of that is `SessionStore`'s subject.
`overlapped` are the turns beside which another was under way, `raced` says two
summaries were made at once.

### ConfigStore

`file` is `config.yaml`, loaded, changed and saved whole by each handler;
handlers that touch a secret await it between load and save, with the loaded
`copy` in hand. `disk`, `broken` are `secrets.json`; `cache`, `unparseable`,
`chain` the file store's memory, one access of the chain at a time
(`LoadSecrets`, then `Answer`, `Refuse` or `Commit`; then `Resume` in the
handler). `Configure`, `ConfigureAtOnce`, `Remove`, `UpdateConfig`,
`ChangeSecret` are the handlers of both servers. `CutOff` is a save that stops in
the middle, since `writeFileSync` truncates first; `Crash` ends the daemon,
`Break` and `Repair` are hand edits of the secrets file.

The rest is history, which no action's guard reads. `meant` has for each provider
the entry last acknowledged and what saves cut off since may have left; `stored`
the secrets that were acknowledged. `overlap`, in the state of a waiting call,
collects the providers that other calls have saved, or tried to, since it loaded
its copy (`Over`). When it saves, those are `clouded` until a later call saves
them (`Clouds`): only there may an acknowledged change be undone. A provider that
a save alters without having meant to, and that nobody else touched in between,
is not clouded, so a handler that carried over too much or too little would break
`ChangesKept`. A cut-off save clouds no more than a complete one; what it loses is
in `meant`. `Versions(p)` are the entries that provider `p` has in the file or in
the copy of a waiting handler; `excused` are the secrets that were deleted by name,
or with a provider although another one had picked the name in one of its
versions.

### ExtensionServices

`phase` is where `startDaemonServices()` or `reconnectDaemonServices()` is,
`work[a]` how far attempt `a`'s `connect()` and `register()` have come: the
extension waits twenty seconds for it and then gives it up without cancelling it,
and the rest of its work is done to the client object that the next attempt uses
(`late`). `Restart`, `GiveUp`, `StartFailed`, `Started` are the loop;
`ChangeSettings` is the handler that either starts it or sets `reconnectPending`;
`Refreshed`, `ModelsChanged` the provider; `StreamBreaks`, `Reopen` the
backchannel's five-second timer. `strays` are providers stopped while they
fetched models, `heard` the last change a handler was called for (none is
registered until activation is over).

### ChatPanel

View and host are joined by `toHost` and `toView`, ordered queues. The view's
part is `Send`, `Inject`, `Cancel`, `NewSession`, `DeleteSession` and `Receive`
(one disjunct per message); the host's `Handle` and `SessionMade`; the streams'
`Text`, `Failed`, `Done`, `End`, `Breaks`, `Stop`. `Hide` and `Close` lose the
page: the view is registered at `packages/vscode/src/extension.ts:52` without
`retainContextWhenHidden`, which the provider panel has. `beside` and `muddled`
are the streams and prompts that section 5 excuses. Tool cards are left out, and
so are approval gates and loaded sessions, which cannot occur at this commit:
`SessionChat` sends no prompt for approvals and the view never asks for a
session.

### How the parts fit

The pool and the backchannel both fill the tool registry, under different
sources (`<server id>` and `ws:<folder>`), and `unregisterSource` never touches
another component's source. `ToolCalls` therefore takes the registry's changes as
an environment of sources that connect and disconnect, which is what both do to
it. `SessionTurns` stands on an atomic store: the theorem
`LockedStoreImplementsMap` licenses that for the calls that take the lock.
`DeleteSession` appears in the pool with the session store's part reduced to "the
session is gone", for the same reason. `ChatPanel`'s streams are `SessionChat`
turns seen from the client; `ExtensionServices` and `Backchannel` share the
stream, one modelling when it is there and the other what goes over it.

## 3. What is checked

Every run lists its properties in its `.cfg`; every property has a mutant of the
code in the module (an operator marked `Mutant`) that breaks it. Deadlock is not
checked where behaviours end because calls are used up or processes are gone;
that nobody waits for ever is a liveness property instead.

| run | instance | states | what it shows |
|---|---|---|---|
| `store_all` | 2 sessions, 3 locked calls, 1 summary, 1 fault | 250,889 | For sessions nobody summarises: `AckedMessagesKept`, `HistoryAppendOnly`, `DeletedStaysDeleted`; `IndexAgrees` in behaviours without summaries. |
| `store_locked` | 2 sessions, 3 locked calls, 1 fault | 169,534 | `ImplementsMap`: the files implement `SessionMap`. `EveryCallSettles`. |
| `store_history` | 1 session, 2 locked calls, 1 summary | violated | `FullHistory` fails: section 5. |
| `pool_safe` | 2 servers, 1 session, 3 calls (see Bounds), health check, 1 fault | 1,133,417 | `NoOrphans`, `ToolsBacked`, `ScopedToSession`, `SessionCleaned`. |
| `pool_live` | 1 server, 1 session, 1 client, 2 calls, health check, 2 faults | 347,660 | `DeadFound`. |
| `backchannel_safe` | 2 windows, 1 folder name, 1 tool, 1 call, 1 change | 503,147 | `PendingAwaited`, `NamedToolsOwned`, `CallsSettle`. |
| `lifecycle` | 3 daemons, 1 stop, 2 kills | 351,005 | `SingleDaemon`, `Reachable`, `StartsAgain`, `StopStops`. |
| `tool_calls` | 2 sources with a tool each of one name, 1 session, a chat with 2 calls, an MCP session with 1 call, 2 policies, 3 changes | 378,962 | `PolicyHolds`, `OfferedRuns`, `RequestsWaited`, `McpAnswers`, `LeftChatsEnd`. |
| `session_turns` | 2 turns, 1 client asking for summaries, interval 2, 1 tool call, 1 fault | 574,568 | `CallsAnswered`, `TurnsStored`, `TitleStays`, `CacheIsCurrent`, `SummaryComes`. |
| `config` | 2 calls, 2 providers, 1 shared secret, 2 faults | 3,328,133 | `ChangesKept`, `KeysBacked`, `SecretsKept`. |
| `services` | 2 changes of settings, 2 notices, 2 breaks | 78,179 | `LatestSettings`, `OneVendor`, `ChangeTakesEffect`. |
| `chat_panel` | 2 prompts, 1 chunk each, 2 sessions, 1 reload, 1 fault | 660,591 | `CancelReaches`, `AnswersInPlace`, `PromptOnce`, `InputUnlocks`. |

Every module has a `TypeOK`. `store_all` and `lifecycle` check it; it is proved
of every module (section 4).

**Bounds.** Two calls on one session or server are enough for every race between
a read and the write that uses it; the third locked call of the store runs
behind or ahead of them in the chain, so that a lost place in the queue shows.
One session beside another matters only to the index, which two have in common.
In `pool_safe` chats of other sessions, and of none, are the `None` of the
visibility properties, so one session suffices; two servers are needed for the
limit and the loops. `Fits` in `MCMcpClientPool` lets a third call begin as long
as only one server is known and nothing has failed: a registration, a reconnect
of its server and the deletion of its session take three (a reconnect that is
refused leaves the client under a status without a scope, which no two calls
show). One fault at any point covers each single failure; the second in
`pool_live` lets a close fail on a server that then dies. Two windows are what
it takes to share a folder name; the third daemon of `lifecycle` is started
after two others have left something behind. In `tool_calls` the two sources
share a bare name, one of them scoped to a session; with three changes a source
can come and go and the policy change, or both sources change places, between
any two of the three lookups. `session_turns` has an interval of two so that the
second turn is the one that is due. The third file change in `config` that could
matter is the earlier configuration, which `Init` leaves open; its invariants, and
the stronger ones they are proved from, were also found to hold with three calls
and no fault (4,547,705 states), and with three calls and one fault without the
shared secret. `services` lets
the settings change during an attempt and again during the next. Two prompts are
what it takes for one stream to end another's cancelling; the invariants of
`chat_panel` were also found to hold with three prompts, one session and no
reload (1,513,945 states), which is a matter of changing the numbers in its
`.cfg`. `pool_safe` uses symmetry of calls and servers, and `config` one of
calls and providers, which is sound there because they check no liveness.

**Fairness.** Each is weak fairness of steps the program or its runtime takes by
itself:

- store: of every step of a call, since the file system answers, with success or
  an error; the promise chain has to do the rest;
- pool: of the calls' steps, because every request of the MCP library ends in an
  answer or an error and an approval in a decision or its time limit, and of the
  health timer while it is set;
- backchannel: of the daemon's timers only; a window may never answer;
- lifecycle: of the steps of starting, stopping and leaving processes; not of
  draining, which open streams can prolong for ever;
- tool calls: streams end, tools return, time limits pass; users need not answer,
  clients need not leave;
- session turns: store calls return and streams end; nothing is said of clients;
- services: of the loop, as the twenty-second timer bounds its one open wait and
  its other requests settle, and of refreshes; nothing is said of the work of
  attempts, which may hang;
- chat panel: posted messages are delivered and a stream goes on to its end; of
  nothing the user does.

`config` checks safety alone.

## 4. What is proved

The theorems hold for every value of the constants, from the assumptions that are
named in the modules: the sentinels (`None` and its like) are none of the things
they stand beside, kinds of processes do not overlap, tools belong to one source
each, and bounds are naturals. Faults, kills and changes are therefore unbounded in
the proofs, as their bounds may be any number. Every proof has an inductive
invariant (`IInv`, or one named for its part) that adds to the property what each
process knows at each of its awaits, one lemma per kind of step, and the properties
at the end.

**Store.** `TypeCorrect`, `MessagesKept`, `DeletedForGood`, `HistoryGrows`,
`LockedStoreImplementsMap` and `IndexListsSessions`. `AckedMessagesKept` is not
inductive: between read and rename a call holds a copy that is to replace the
file. `IInv` adds

- `CallShape`: what a call has in memory, by how far it has come;
- `ChainInv`: the chain holds each locked call once, and only its head has
  begun, so at most one locked call is between its read and its settling;
- `IdsInv`: what is on disk or was unlinked was issued, so `create()` meets no
  file;
- `Current`: on a session without summaries, what a call is about to store is its
  own edit of what the file holds *now*, and the temporary file holds that too.

`Current` is where the lock matters: another call that wrote the session would
have to be the head of the same chain, or a summary. Two lemmas carry the proof:
`FileStep` (every step leaves all sessions alone or changes one, by creating,
appending, retitling or removing) and the preservation of `IInv`, one lemma per
kind of step. `IndexInv` does for the index what `Current` does for a session: what
the call that updates it is about to write is the entry that its session's file
calls for, and every other entry as it is on disk (`Relists`); a session on which a
call was cut off is left out of it for good. Refinement then maps each kind of
change to its operation of `SessionMap`, under the hypothesis that `SummaryCall` is
empty.

**Lifecycle.** `TypeCorrect`, `OneDaemon`, `RunningIsReachable`,
`NothingInTheWay`. Outside `overlap` the invariant `Apart` says: one command at a
time; at most one daemon process alive; from the moment a daemon has written the
PID file until it has removed it, the file names it (`Named`); the socket path is
free until it binds and its own from then on (`Bound`); a stop waits for the one
daemon there is and sweeps only when there is none (`Awaited`). `NobodyAlive` is
the heart: a command that begins when no other is under way and finds no running
daemon is alone, because any daemon that serves or leaves still has the PID file.
`Named` for the leaving steps is why the PID file has to be removed last.

**Tool calls** (`ToolCallsProofs`). `TypeCorrect`, `RequestsListed`,
`PolicyKept`, `OffersKept`. The lemmas on `ToolNames` come first: what
`FirstOf`, `Resolve`, `With`, `Without` and `ListForChat` return, in particular
that a chat is offered tools of its scope alone, none of them disabled. `Sound`
says what is known of a caller. A caller that is no rival was offered names that
no other tool in the registry has, so each later lookup of such a name finds the
tool that was offered, or none; what was judged is then what is executed. The
proof does not go through for an MCP call whose tool was away when it was judged,
which is how that exception (`found`, section 5) was found: three changes of the
registry reach it, two do not.

**Configuration** (`ConfigStoreProofs`). `TypeCorrect`, `SecretsStay`,
`ChangesSurvive`, `KeysAreThere`. `Mirror` is the reason for the first: once
loaded, the cache is what the disk holds, unless the file was taken for an empty
one, and then the cache is empty and is never written. `ChangesKept` is not
inductive: what a handler saves was loaded before its wait. `VersionsMeant` says of
every version of a provider what `ChangesKept` says of the file. Each save writes,
besides what it changes, only versions of the others or entries that another call
has replaced meanwhile (`Carried`, shown of every handler in `ConfigSteps`), and
`SaveVersions` says what that leaves of the versions. `KeysBacked` has the
same shape: `VersionsBacked` says of every version that its secret is there. It
needs to know what a call has found out by the time it saves:
`Standing` says that the secret it has set or looked up is still on the disk, for
nobody writes the store while a handler has yet to go on (`NobodyResumes`), and
that a removal deletes its own provider's name only and that others with a version
that names it are excused (`Spared`). `KeysFile` carries this through every step
that leaves the disk alone.

**Backchannel** (`BackchannelProofs`). `TypeCorrect`, `NobodyForgotten`,
`ToolsHaveOwners`. `Awaited` ties each pending request to the one place that
waits for it; `FolderLate` says that a connection's folder is not known before
the daemon has its answer, so tools that were filed earlier are not under it.

**Session turns** (`SessionTurnsProofs`). `TypeCorrect`, `CallsGetAnswers`,
`CacheStaysCurrent`, `TitlesKept`, `TurnsLeaveTheirMessages`. `Apart` says that
turns under way together have noted it; `TitleKnown` that a turn which is alone
has read the title the session has; `Counted` that every summary, stored, served
or in the making, is of the number of messages it is filed under;
`CallsFollowed` that a call in the session is followed by its result, or is the
last message and its turn is about to store the result. `Logged` says what a
turn under way has left in the session so far, position by position.
`TurnsStored` itself speaks of positions for the same reason: a subsequence, as
`SelectSeq` takes it, is defined by recursion, and what it yields could only be
proved by induction.

**Extension** (`ExtensionProofs`). Sidebar and services share no state and no
name, so one module extends both and proves what is to be proved of each.

*The chat sidebar*: `PanelTypes`, `CancelReachesTheAnswer`, `AnswersStayInPlace`,
`PromptsSentOnce`. Everything here depends on what is on its way in the two queues,
so the invariant, `PanelInv`, is about positions in them. `Posted` and `Fresh` say
that a prompt is in `toHost` at most once and only until the host has opened its
stream, and that what is put by or in the text area was never sent; `PromptOnce`
follows. `CancelInv` says of an answer that is wanted where it waits: its stream is
the active one or its prompt is the queue's i-th message, and before any later
prompt in the queue, and before the view unlocks its input for one, there is a
cancel. That is why a single abort function is enough without `beside`. `Told` says
what the messages on their way to the view allow of the streams they come from.
For a prompt that is not `muddled`, `InPlace` has two cases: it is `Underway`, with
the text in the bubble and the chunks in `toView` adding up to those sent, none of
any other prompt's behind or before them, and `done` last; or it is `Settled`, with
all of its chunks in their place. `Clean`, which is what `muddled` is defined by, is
what takes one case to the other when the next prompt is sent (`CleanSettled`).

*The services*: `ServicesTypeCorrect`, `LastSettingsUsed`, `OneProvider`. `Counted`
is what types need: an attempt is made, pending or about to begin for activation and
for each change, so their number is bounded by that of the changes. `Informed` says
that an attempt whose settings are stale is followed by another, `Holding` what an
attempt has of the channel, the client and the registration at each of its awaits
while no other attempt has come between, and `Registering` that whoever may yet
register a provider is the current one or a stray.

**Pool** (`McpClientPoolProofs`). `TypeCorrect`,
`NothingLeftRunning`, `ToolsCanGo`; `ScopesKept`, `SessionsCleaned`. The first
three rest on `Alone` (on an unspoiled server one call at a time is between its
awaits) and `Known` (what that call knows of it: the client it is closing is the
one in the map, there is none while it connects, there is its own while it
lists). `PoolStep` says once what every stretch of `connect()` and `disconnect()`
does, whoever runs it, and `MoveKeeps` that a step about some servers cannot
disturb the others. The last two add `JInv`: a call that has not begun has left
no trace (`Fresh`); a registration connects to its one server (`One`) and its
status and scope stay until a reconnect takes over (`Matched`); a
`DeleteSession` has met, or has still to do, every server of its session, and
nobody waits for an approval for that session unless it is late (`Gone`). `Right`
and `Offered` then give `ScopedToSession`: an entry in a session's scope is in
the registry, and is of the session that the server was registered for.

**Only model-checked**: liveness, which is beyond this prover: `EveryCallSettles`,
`DeadFound`, `CallsSettle`, `StopStops`, `McpAnswers`, `LeftChatsEnd`,
`SummaryComes`, `ChangeTakesEffect` and `InputUnlocks`. Every invariant and every
action property that a passing run checks is stated by a theorem.

## 5. What the models show about the code

One run states what a document says and finds a behaviour of the code that
contradicts it; the finding in `PROJECT.json` quotes the line.

- `store_history`: `updateSummary()` reads and rewrites a session outside the
  write lock (`core/session-store.ts:290`). A message appended between its read
  and its rename is overwritten. The same race brings back a deleted session, or
  drops another session's entry from the index.

The conditions of the other properties mark where the code goes wrong. Each
condition is necessary: without it TLC finds the behaviour described.

- `spoiled` (pool): two calls on one MCP server at the same time can leak a
  connection or drop a fresh one.
- `late` (pool): a registration admitted before its session is deleted survives it.
- `op[client[s]] = "register"` and `~Static(s)` in `ForSession`: a `reconnect()`
  turns a session's server into one without a scope
  (`daemon/mcp-client-pool.ts:487`), and its tools appear in every session; a
  `reconnect()` that is refused, because the daemon's ports have changed and the
  server's address is now its own, still replaces the status that had the scope
  (`daemon/mcp-client-pool.ts:734`), and `DeleteSession` no longer finds it.
- `status[s].connected` in `DeadFound`: the health check, which is to remove dead
  servers, does not look at those whose death the MCP library has reported
  (`daemon/mcp-client-pool.ts:779`).
- `NamedToolsOwned` speaks of folders' names only: a window that announces its
  tools before the daemon knows its folder has them filed under `ws:vscode`, and
  closing it clears the folder's name (`daemon/state.ts:250`).
- `overlap`: two daemons started in the same instant can both serve, and a third
  process's clean-up can then remove the files of either.
- `rival`: with two tools of one bare name about, a call may be judged as one of
  them and executed as the other (`core/tool-registry.ts:333`).
- `found`: a call of an MCP client whose tool is not in the registry at that
  moment is judged by the name alone, which the user is asked about; if its source
  is back when the user agrees, a tool the policy disables can run
  (`daemon/mcp-server.ts:261`).
- `Judged`: DR-019 says that "all tool calls require user approval unless the tool
  is explicitly listed in `tool_policy.auto_approve`" (`docs/decisions.md:294`), and
  the comment at `core/state.ts:744` that there is "no bypass". But
  `core/state.ts:746` makes a validator only when the caller passes
  `onToolApprovalNeeded`, which the dashboard (`daemon/web/server.ts:1340`) and the
  terminal (`daemon/chat.ts:163`) do. Chats over gRPC do not
  (`daemon/server/abbenay-service.ts:840` and `:1594`, the latter being the session
  turns of the sidebar, which ask for tools), nor does the terminal in JSON mode
  (`daemon/chat.ts:264`). For such chats, of kind `rpc`, `Propose` goes straight to
  the execution, and a tool of any tier the policy does not disable runs unasked;
  disabled tools are merely not offered (`OfferedRuns`). `PolicyHolds` leaves these
  chats out.
- `late` (tool calls): an approval asked for after the browser has gone is waited
  for without limit, unless a chunk is still on its way
  (`daemon/web/server.ts:1340`).
- `overlapped`, `raced`: turns beside each other both name a session, or step over
  a due summary (three turns do, so the run with two would pass without that
  condition); two summaries may be stored in reverse order.
- `clouded`: a provider changed while another handler waits for the secret store is
  set back by that handler's save (`daemon/web/server.ts:1438` loads, `:1562`
  saves).
- `None` in `meant`: a save that is cut off leaves a file that loads as one without
  providers, or without some, and the next save makes that permanent
  (`core/config.ts:434` and `:343`).
- `excused`: `RemoveProvider` deletes its own secret although another provider has
  picked that name (`daemon/server/abbenay-service.ts:2158`).
- After a secrets file that did not parse is repaired, the store refuses to write
  until the daemon starts again, because `unparseable` is never reset
  (`daemon/secrets/file-store.ts:93`); nothing is lost by that.
- `late` (services): a given-up attempt goes on with the client of its successor
  (`packages/vscode/src/daemon/client.ts:919`). `strays`: a refresh that returns
  after the provider was stopped registers it again. `heard`: a change of the
  settings during activation is heard by nobody (`packages/vscode/src/extension.ts:59`).
- `beside`: one abort function serves all streams, and the end of any clears it.
  `muddled`: after a cancel the next answer goes on in the cancelled bubble.

## 6. What is not modelled, and the plan

`PROJECT.json` lists every component with its status. The access-control
decisions, the OpenAI translation and the user interfaces keep no state between
requests; what can go wrong in them is a matter of single inputs, for which the
repository has unit tests.

Known hazards that no model covers yet:

- both writers of a session use one `<id>.json.tmp`, so that a summary can rename
  it while another call still writes (`core/session-store.ts:326`); a second
  process, `abbenay chat` beside a daemon, has a lock of its own
  (`daemon/chat.ts:46`);
- a dynamic registration that fails after its client was stored deletes the status
  only (`daemon/mcp-client-pool.ts:379`); the model does this, no property says
  what should hold instead;
- an unregistered server keeps its status
  (`daemon/server/abbenay-service.ts:1887`), so does its place in the limit;
- `invokeVSCodeTool()` goes to the first connection, whatever window the tool
  came from (`daemon/state.ts:327`);
- the PID in the file may be another program's after a reboot
  (`daemon/transport.ts:300`);
- a listen error leaves the web server set as if it ran
  (`daemon/web/server.ts:2204`).

Next, in this order:

1. Starting and stopping of the web server and its MCP endpoint, from several
   clients at once.
2. Windows address files and reused process ids in `DaemonLifecycle`.
