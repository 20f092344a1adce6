# A TLA+ model of touchdesigner-mcp

touchdesigner-mcp lets MCP clients (an editor, a CLI) drive TouchDesigner (TD)
processes. A long-lived local process, the **hub**, keeps the list of TD
processes ("peers", by target id) and a *sticky* selection; each TD dials a
WebSocket to the hub (the *reverse tunnel*) and the MCP server sends its HTTP
calls through the hub's proxy. This directory specifies that system in TLA+,
model-checks it with TLC on small instances and proves its most important
invariants with TLAPS for every instance.

Paths below are relative to the repository, line numbers are those of the
commit the models were written from.

## 1. Inventory

| Component | Source | State | Operations | Talks to |
|---|---|---|---|---|
| Peer registry | `src/hub/peerStore.ts` | Map of peers in insertion order, last heartbeats, `selectedId` | register, heartbeat, remove, select, list, sweep | called by the server and the tunnel manager |
| Tunnel manager | `src/hub/tunnelManager.ts` | `expects`, `sockets`, one `PeerSocket` per accepted socket (`pending`, `queue`), `persistTimer` | hello, response, close, error, proxyRequest, timeout, detachPeer, closeAll | TD over WebSocket, the registry, the server's persist callback |
| Hub server | `src/hub/server.ts`, `persistence.ts` | snapshot file, sweep interval | the HTTP routes, sweep, persistStore, restoreStore, close | MCP servers and TD over HTTP |
| ensureHub | `src/hub/ensureHub.ts` | lock file, pid file | health poll, lock, spawn | concurrent MCP servers, CLI, TD |
| Target registry | `src/core/targetRegistry.ts`, `portAllocator.ts` | local targets, local selection | syncFromHub, select, upsertOwned, removeOwned | the hub over HTTP |
| Target queue | `src/core/targetQueue.ts`, `targetContext.ts` | promise chain per target, async-local holder | withTargetQueue | tool handlers, lifecycle |
| Lifecycle | `src/lifecycle/tdProcess.ts`, `features/tools/handlers/tdTools.ts` | owned processes, `.tdmcp/state.json` | create, start, wait for the bridge, stop | hub, operating system |
| Dialogs | `src/lifecycle/tdDialogs.ts` | none (reads windows) | detect, dismiss, wait | operating system |
| TD client | `src/tdClient/touchDesignerClient.ts`, `core/compatibility.ts` | cached compatibility result and its time | API calls, verifyCompatibility | TD |
| HTTP transport | `src/transport/*`, `server/connectionManager.ts` | sessions, transports, cleanup timer | create, touch, expire, close | MCP clients |
| Expansion cache | `src/toe/expandCache.ts` | entries, locks, in-flight expansions | open, refresh, sweep, mark dirty | file system, `toeexpand` |
| Graft and inject | `src/toe/graftManifest.ts`, `injectMcp.ts` | files of an expanded project | graft, inject, collapse | expansion cache, file system |
| Digest, wires, refs | `src/toe/digest.ts`, `wires.ts`, `nodeInspect.ts`, ... | none (reads an expanded project) | walk, resolve, summarise | tools |
| Tunnel client in TD | `td/modules/utils/tdmcp_tunnel.py` | socket, worker thread, request queue, pause/stop flags | start, stop, pause, resume, reconnect loop, process_pending | hub over WebSocket |
| Hub helper in TD | `td/modules/utils/tdmcp_hub.py` | heartbeat thread | register, heartbeat, ensure | hub over HTTP |
| Bridge status in TD | `td/modules/utils/tdmcp_status.py` | bounded log, visible state | log, refresh | TD UI |
| API service in TD | `td/modules/mcp/services/api_service.py` | the TD network | node and parameter operations | TD |

What is hard about it:

* **Interleavings.** The hub is one event loop, but its handlers interleave at
  every event: two sockets for one id, a close event that arrives after the
  socket was replaced, a response after its timeout, a DELETE between a request
  and its answer. In TD a worker thread and the cook thread share the tunnel.
* **Failure.** The hub dies and restarts from a snapshot; TD quits or hangs;
  the machine sleeps past every TTL; a start times out and is retried.
* **Agreement of copies.** A peer's liveness is kept three times (the socket, the
  `tunnelConnected` flag, the TTL); the sticky selection three times (hub
  memory, hub disk, MCP server); a nonce three times (expect, record, TD).

`PROJECT.json` lists every hazard at its line with the properties that cover it.

## 2. Modules

### PeerStore
Pure operators on a store record; one operator per method of the class. The
Map's insertion order is kept as a rank per id, because the order decides
which peer the sticky selection falls to (`First`). A peer's record keeps the three fields
the hub's logic reads (transport, tunnelConnected, nonce). Time is counted in
sweep periods (10 s, `HUB_SWEEP_INTERVAL_MS`), so `age` is an abstraction of
`Date.now() - lastHeartbeatAt`: a peer is expired once its age is above
`TtlTicks` (the code: 45 s).

### TunnelManager
The state of `tunnelManager.ts` and its event handlers, one action per handler:

| Action | Code |
|---|---|
| `Dial` | wss `connection` -> `attachSocket`; the socket carries the one hello TD will send |
| `RejectHello`, `AcceptHello` | `handleHello` with the replacement of an older socket |
| `Response` | the `response` branch of the message handler |
| `TdLeaves`, `CloseEvent`, `SocketError` | the peer goes away; the `close` and `error` handlers |
| `ProxyRequest` | `proxyRequest` up to the chained run (and the run, if nothing is ahead) |
| `Timeout` | a request's timer |
| `ExpectExpires` | an expect's `ttlMs` passes |

`Settle` is what the code writes as a promise chain: when requests of a
PeerSocket settle, the next queued run starts at once, on that PeerSocket, even
if it was replaced or closed meanwhile. An action is one macrotask of the event loop together
with the promise callbacks it resolves. `PeerSocket` objects are named by their
WebSocket, and a WebSocket name is dialled again only when its PeerSocket has
drained, so a name never stands for two live objects.

### HubServer
EXTENDS TunnelManager with the HTTP routes, the timers, the snapshot and
restarts; `Next` composes both. A route has no `await` between its first and
its last change of state, so it is one action; `POST /peers/expect`, for
example, sets the expect, registers the placeholder peer, persists, and arms
the persist timer in one step. `Persist` is `persistStore`, including its order
(the selection is read before `list()` sweeps). `Restart` is a crash, or
`close()`, followed by a new process that runs `restoreStore`.

### TunnelClient
TouchDesigner's end of the tunnel, `tdmcp_tunnel.py`: the cook thread (the
calls in `Calls`, two steps each where they read and then write shared
state) and the worker threads it starts. `pc` is where a worker is in
`_reconnect_loop` and `_session_loop`; a step ends at each access to `_paused`,
`_stop`, `_thread`, `_ws_sock` or the request queue. `conn` is the state of a
socket, `handle` the global `_ws_sock`, which another thread may clear, `sock`
the worker's local variable. A frame arrives in two parts (header and body),
because TCP keeps no message boundaries. The hub is an environment: it answers a hello
with yes or no, sends requests, drops connections. `Collected` frees a socket
name when nothing refers to it. `face` is the state `set_status` reports.

### TargetLock, TargetQueue
`TargetLock` is what `withTargetQueue` promises: a first-come, first-served lock
per target. `TargetQueue` is how it does it: a map from targets to the promise
of the last call, which is never cleaned, each call waiting for the promise it
found. `ahead` is a history variable, the unfinished calls a call found; the
lock is the abstract state `at`, `want`, `ahead`, and `QueueIsLock` says that
every step of the chain is a step of the lock. `Nest` is a nested call for the
target in `holding`; `EnterNested` is a nested call for another target, which
queues while its parent holds. `Lock == INSTANCE TargetLock WITH ...` is the
refinement mapping; `QueueIsLock` is the lock's specification under it.

### TargetTools
EXTENDS TargetQueue and PeerStore: the tool calls of one MCP server process
(`use` stands for any node tool, `info` for get_td_info, `list` and `select` for
the target tools), the registry they share, and the hub. `pc` is the await a
call is at. A request to the hub is handled in one step (`HubLists`,
`HubSelects`) and its answer is used in a later one, so it can be stale and be
overtaken. `HubFails` is a refused or timed-out request. `Elsewhere` is
everything other processes do to the hub's registry. With `attached` FALSE the
process has no hub and trusts its own selection.

### EnsureHub
The callers that look for a hub and start one: `Node` callers run `ensureHub`
(`pc` is where in its loop they are), `Td` callers the lock-free `ensure_hub` of
`tdmcp_hub.py`. A health check is answered in one step and used in a later one,
and it may time out although a hub is there. `Listen` is the end of `main` in
`hub.ts`: the first process to bind the port serves, the others exit, having read
the snapshot only. `CallerDies` leaves the lock file behind. The pid file is
never read and is left out.

### SessionTransport
The HTTP mode: `TransportRegistry`, `SessionManager` and the Express handlers,
with the SDK's transports as the callbacks they make. A session is in two maps
(`transports` and `sessions`) that different callbacks fill and clean; the
module keeps both, each session's age, the requests in transit and the open
streams. `Sweep` is the cleanup timer's callback, `Shutdown` the stop with its
steps over awaits. Ages are counted in cleanup periods, up to the TTL; `Tick`
waits for a sweep that is due.

### ExpandCache
`ensureExpandedToe` for one cache entry, which the MCP servers of a machine
share: callers of one process share a promise, those of several a lock file.
Code between two awaits is a step of its process, split where another process
can get in between: between two accesses to the lock file (create and write, read and
unlink), and within a refresh's `rmSync`, which lists the entry's directory (`Begin`),
removes what it has listed in any order, the expansion file by file (`Remove`), and then
the empty directory (`Cleared`), or throws (`NotSpawned`). toeexpand is a child process: it
fills the directory, writes the .toc last, and outlives a killed parent. `stolen` and `harm`
are history variables: `stolen` says that a lock file was removed under the call or the tool
at work; `harm` is `overlap` once two were at work on the entry at the same time, and `spoilt`
from the beginning of a removal, or the failure of a tool over an earlier one's .toc, until
the entry is gone or a tool has ended.

### Lifecycle
`create_td_project`, `start_td_project` and `stop_td_project` for one project: a
call is a sequence of steps between awaits, calls are not serialized. `file` is the
pid in `.tdmcp/state.json` (`NoFile` before create), `alive` and `kind` the
TouchDesigner processes of the project and of copies of its directory; of the hub
the module keeps what these calls see of it: the pending expect, the process that
holds the target's socket, and the record, which is that of a hello, or the
placeholder (`blank`) which an expect and a register put in its place.
`waitForBridgeWithDialogs` is the cycle `Look`, `Probe`, `Sleep`. Users open the
project (`kind` "user") or a copy ("copy"), processes exit, the hub forgets and restarts.
The history variable `past` records what went on beside the calls: `alone` means nothing;
`stranger`, that something could hold the target's socket that is not the started TD (a TD or
a copy that a user opened, a connection not yet closed); `disorder`, that calls overlapped, or
that two TDs of the project ran at once.

### CompatCache
The version check that `TouchDesignerClient` makes before every API call, whose
verdict it caches once, for all calls and all targets. A call is synchronous up
to the request for TD's version; `Answer` is its return, and `Passed`, `Rejected`
or `Throws` is what the call goes on to do, while other calls may have changed
the cache. `Verdict` is the policy of `compatibility.ts`. `Age` lets a cached
verdict's TTL pass, and `about` remembers which answer a success was made of.

### Graft, Inject
`Graft` is the operations of `graftManifest.ts` on an expanded project: a set of
files, each the networks it lies in, its operator and what it holds, and the
.toc that lists them in order. `Inject` is `injectTdMcp` over it: a call copies
a project into an empty workspace, expands, grafts, collapses and verifies the copy,
and writes `.tdmcp/state.json` last. `ws` is what each workspace holds and who
put it there, `kit` the cache of the expanded template that all calls share,
`tools` the toeexpand processes at work on it. A call ends well, fails (and
wipes what it staged), is refused, or dies with its server (`Kill`), which
leaves the directories as they are. `dedupeToc`, `mergeTocEntries` and
`removeTocLines` are recursive functions on the .toc. `Exts` is the extensions
a file of a project may have. What a .toe or an expansion holds is said by a descriptor
(`Holding`: its kind, the extent of the kit's manifest that was used, and what toecollapse lost), and
`TreeOf` computes the tree of it. toecollapse packs what its .toc lists, and may lose any of the
files, up to `MaxLost` of them.

### ApiService
The API inside TouchDesigner: `Routes` and `Matching` are the router (an exact pattern,
or else the first that fits), `Args` the arguments (the body's win over the query's, and
those over the path's), `Handler` the generated
handlers with their argument checks, `Service` the services. `net` is the
operators below the root with parent, type, place and values; `last` the last
request with its answer. Requests are served one at a time on TouchDesigner's main
thread, so a request is one action; what a service does before it fails
is in its `Outcome`. `FreeCell` is the search for a free place of `node_layout.py`.
A script is a sequence of lines with the effects the services tell apart. A method of a node
(`ExecMethod`) is any of `Methods`: it leaves the project as it was, without the node and what is
below it, or with another value of a parameter, and then succeeds or fails. `Created` is
the project with the new node; `Below` and `Executed` are recursive functions, for the
proofs.

### ToeDigest
`get_toe_digest` and `get_toe_node` on an expanded project: one operator per
mode, over the parsers of .n, .network and .parm files (`NInputs`,
`CompInputs`), the walk with its depth and filter, the wires with their
ego graph, outputs, references and extensions, and the cut at `max` with what
was omitted. The operators are functions of the project; the behaviour is one
query on one of `Projects`. `Walk` goes down level by level, `Near` hop by hop. `IsProject`
says what is assumed of an expanded project: each operator is in the directory of its
parent, and the pairs of a file are in one block, the grammar which the comments of
`parseExpand.ts` (76-106) call observed. `IsQuery` says that a brief or a node view names a
node, and that limits are numbers. The wires of a brief and of a node view are cut like all
else: at `max` edges (`maxNodes`) and at `room`, which stands for `maxChars` and counts the lines
that fit.

### Proof modules
`PeerStore_proofs`, `HubServer_proofs`, `TargetTools_proofs`, `TouchDesigner_proofs` (of
`TunnelClient` and `ApiService`), `McpServer_proofs` (of `EnsureHub`, `CompatCache` and
`SessionTransport`), `ExpandCache_proofs`, `Lifecycle_proofs` and `Toe_proofs` (of `Graft`,
`Inject` and `ToeDigest`): section 5.

### MC modules
`MCHubServer`, `MCTunnelClient`, `MCTargetTools`, `MCExpandCache`, `MCInject`,
`MCCompatCache`, `MCApiService` and `MCToeDigest` give the constants that a .cfg cannot write down (symmetry sets, functions, views, sets of
requests, jobs and projects).

## 3. Runs

All runs use `TtlTicks = 1` (a peer survives one full period without a
heartbeat and expires in the second: the same order of events as 45 s against
10 s periods, with fewer intermediate ages). Symmetry is used for ids, sockets
and requests in the safety runs; `First` picks by rank, and ranks of present
peers are distinct, so the model is symmetric in the ids.

| Run | Instance | Question |
|---|---|---|
| `hub_requests` | 2 ids, 2 sockets, 2 requests; no TTL steps; fair timers | requests never overlap on a socket, are never lost, misdirected or settled twice, and every one is answered |
| `hub_registry` | 2 ids, 1 socket, 1 restart, all routes and timers | registry, flags and sockets map agree; connected peers are kept; the disk follows; what is restored is consistent (replacements and other nonces: by the theorem, see below) |
| `client` | 2 workers, 3 sockets, 1 request, all calls, fair threads | one worker at a time, a green face only in a session, a request is queued once; a pause disconnects; without a pause, the client comes back from every failure |
| `mcp_targets` | 2 targets, 2 tool calls of any kind, hub changing at will | a call works on a target the hub selected during the call, one call at a time per target, in order, and every call ends |
| `startup` | 2 Node callers, 1 TD, 2 hub processes | the lock admits one, every caller gets a hub whoever starts it, redundant hubs go; a lock file left behind does not hold a caller for ever |
| `sessions` | 2 clients, 3 sessions, a TTL of one sweep period; every request, DELETE, stream, sweep and shutdown | the two maps agree, no session expires under a client that uses it, an abandoned one does expire, a shutdown ends them all |
| `toe_cache` | 3 calls in 2 processes, one of which may ask for a refresh; kills, stale and empty locks, tools that fail | locks and promises are released on every path, expansions overlap only after a lock was stolen, a returned entry is whole unless they did or a refresh was removing it, every call ends |
| `lifecycle` | 2 calls of any kind, 2 TDs or copies, users, exits, a hub that forgets | a running TD that a start has spawned is the one state.json names, a stop ends it, a start returns its own TD, a copy's TD is never named; every call ends |
| `inject` | 2 calls, 2 workspaces, 16 sources with an earlier bridge, without one, or with names like its; tools that fail, a toecollapse that loses any file, 1 kill | state.json is only beside a whole project, what is not the bridge's stays but what is swept, a call writes and wipes only what it staged, the kit's cache is whole or not used |
| `compat` | 2 callers, 2 targets of 3 versions, unknown or down | the cached errors and successes never contradict, and once all targets are good, a refusal goes away |
| `api` | 3 nodes of 2 shapes, a grid of 2 columns; every route, scripts and methods that fail half-way | new nodes are placed clear of their siblings, and what an answer says was done was done |
| `digest` | 144 projects of 4 operators and one inside; every mode | the ego graph is the wires within the radius of the definition, an answer that is not marked as truncated is complete, the node view agrees with the lists |

Why these sizes are enough: two requests on one socket are one in flight and
one queued, and the queue is a FIFO whose later entries behave like the second;
two sockets are a replacement and its predecessor; two ids are enough for a
selection to move and for a socket to be bound to the wrong one. The proofs of
section 5 cover every size for the registry side.

Bounds: `MaxRestarts` bounds how often the hub dies; after the last restart
nothing reads the snapshot and it is kept fixed. `RoutingNext` leaves out the
steps that touch neither sockets nor requests. The event loop is assumed to
keep up with its timers (`Tick` waits for the previous callback).

`hub_registry` gives TLC a VIEW without the requests: no route reads them, so
states that differ in them only are one state of the registry. It has one socket and one
nonce. The replacement of a socket while the routes are at work, and an expect with
another nonce than the connected TD's, are therefore not in this run: for them `RegistryInv` is the
theorem `RegistryIsConsistent` (section 5), and `hub_requests`, which has two sockets,
has replacements without the routes.

Deadlock is checked in `api` and `compat`. Elsewhere the system may rightly have
nothing left to do: a hub without requests, calls that have all ended.

Fairness: `hub_requests` assumes weak fairness of `Timeout` only. A timer armed
with `setTimeout` stays armed until it is cleared, and Node runs expired
timers; nothing else (no response, no close event) is assumed to happen.

The client's runs assume that threads run (weak fairness of a worker and of the
second half of a call), that the cook thread keeps cooking frames (strong
fairness of `Drain`: it may be busy with a call each time), and that the hub
answers a hello or drops the connection. `KeepsDialling` further assumes
that from some time on the hub is up and accepts and
`state.json` asks for the tunnel. Two workers are needed for a thread that is
exiting and its successor; three sockets for one that the queue still refers
to, one being closed and one being dialled.

`mcp_targets` assumes that the event loop runs what it can and that the hub and
TD answer (weak fairness of `Handler` and `HubStep`). The second is an
assumption about TD: the proxied requests carry no timeout of their own beyond
the hub's, and a direct HTTP call to a TD that never answers holds its queue for
as long. `CallsEnd` is stated for runs with at most one get_td_info, because two
can deadlock (section 4). Two tool calls have four possible queue entries
(each may nest one), enough for a waiting, a holding and a nested entry at once.

`startup` assumes that processes run, that a hub process that was started
gets to listen, and that a clock passes a caller's deadline (strong fairness of
`Deadline`, as a poll looks at the clock only between its awaits). The first half of
`HubComesUp` holds unless a holder of the lock is killed: its lock file is never
removed, and callers that find it poll until their deadline and go without a hub. The
second half is what is left then: if from some time on there is such a lock file,
every caller still gets to an end again and again. A deadline (8 s and more)
does not pass while another caller holds the lock (0.8 s and a spawn): who met a
holder looks at least once more (`Again`).

`sessions` assumes that the event loop runs its timers and handlers; that a
client answers, reads or says goodbye is not assumed. The stdio transport, which has
one client and no sessions, and a `close()` that throws are left out.

`toe_cache` needs three calls: two of one process, which share a promise, and
one of another, which meets the lock. One call that may refresh is enough to
steal a lock. It is the one that is alone in its process, so that its removal of the entry is seen by two
readers; a refresh that replaces another call's promise in its own process is left to
the theorems, which are about any calls. Fairness: processes run (strong fairness of a call,
whose turn comes between those of others in its process), a tool ends or is killed by its
timer, a lock grows old, and a wait past its deadline ends. `ReturnsWhole` excepts the
entries that were spoilt (`harm`), and TLC finds that each exception is needed: a reader takes no lock, so
it finds .toc and meta over a directory that a refresh of another process is removing (section 4).
That the tool writes the .toc last is an assumption about toeexpand, which is not part of the repository.

`lifecycle`: two calls are enough to overlap, two processes for an older TD (or
a copy) beside the new one; a process id is used once, so the reuse of a pid by
the system is out of the model. Fairness: requests are answered or time out (every
awaited one has a timeout, and `Fails` is that timeout), and the deadline of a
start comes (strong fairness of `TimesOut`: between two polls it may be checked
at any of them). That a bridge ever comes up is not assumed. `NamesNoCopy` and `EveryCallEnds` hold
whatever happens. `RunningIsRecorded` and `StopEndsIt` are about the TDs that a start has spawned, since
nothing records one that a user opens; they hold in every life in which calls do not overlap
and two TDs of the project do not run at once, with users, copies and connections of others
at any time. `ReturnsItsTd` also needs that nobody else could hold the socket. TLC
finds a counterexample when one of these premises is left out (section 4).

`inject` has no liveness: a call is a sequence of steps and its tools are killed
by their timers. Two calls share a workspace or the kit, or both; the second has
fewer sources than the first, which is enough to be in the other's way. One kill is enough
because a new server finds what the old one left and refuses the
workspace; a second kill could only leave more of the same. The sources are a project
without a bridge, with a whole or a partial one, with the older bridge's name, with
names in another case, with a boot script of its own, with operators inside an onstart or a boot
and files of another extension beside them, with a doubled line in the .toc, and one without `project1`.
`MaxLost = 1`: a loss of several files is noticed if one of them is. As in
`toe_cache`, toeexpand writes the .toc last; it overwrites files in place, so two at work on
one directory write the same files.

`compat` has one version for each level of the policy, a component without a
version and one that is down. Two callers are one that asks while the
other's verdict arrives; two targets are one that the verdict is of and one that
gets it. `Recovers` assumes that requests are answered or time out, that the clock
runs, and that somebody keeps calling: an expired error goes when the next call
looks at it.

`api` checks that no state is a dead end, and explores every sequence of the
requests in `MCApiService`. Its properties are about steps, so `last` is kept out of the VIEW,
and as the next request does not depend on the last, no step is lost by it. One method, `cook`,
stands for all: what it leaves and whether it fails is open; that none creates a node is a bound. `MaxCells = 3`
(the code: 100 000) lets the search for a free cell fail, and `Wrap = 2` keeps values
small. Three nodes are a new one between two, or below one of them.

`digest` asks every query of every project, one step each. The projects vary in what
decides an answer: wires inside a directory and across, a cycle and a wire of a node to
itself, COMP inputs with and without a connector, extensions on one operator or
two, references of each kind. Limits are tight for some queries and wide for others, so that
answers are cut and not cut. `missing` asks for a node that is not there.

## 4. Where code and documentation disagree

Found while modelling; the models do what the code does. References are
`document or comment: what it says`, then what happens.

The hub and TD's end of the tunnel:

* docs/hub.md:61 "Liveness = socket": the close event of a replaced socket
  detaches its live successor (tunnelManager.ts:163), whose peer is then marked
  as not connected until its next hello.
* docs/hub.md:33 "reconnected by TD": expects are not in the snapshot
  (server.ts:273), so the redial of a TD whose expect died with the hub is
  refused.
* docs/hub.md:30 "Poll health until ready; release lock": `ensureHub` releases its
  lock right after the spawn, so callers that poll meanwhile spawn more hubs.
* docs/hub.md:45 "drop tunnel if any": DELETE leaves the WebSocket open.
* docs/hub.md:59 "Per-peer FIFO queue": the FIFO is per socket; after a replacement,
  later requests overtake the stranded ones.
* server.ts:317 "keep alive while connected": after a sleep of the machine, `list()`
  sweeps connected peers before the keep-alive loop reaches them.
* docs/AGENT_MCP.md:88 "persisted on hub": a target the hub does not list is
  selected in this process only, until the next sync.
* docs/AGENT_MCP.md:89 "Does not start TD or select": a create moves the selection
  when nothing else is selected; after a stop it falls to the hub's first peer
  (line 179 "sticky falls back to lab").
* docs/AGENT_MCP.md:90 "wait for tunnel hello matching nonce": a start returns without
  a hello of its TD when an older connection is up, because its own expect blanks
  the record that the probe compares.
* A new expect relabels the record of a connected peer, so `findConnectedByNonce`
  can return a peer whose TD presented another nonce; a hello does not
  consume the expect (tunnelManager.ts:211).
* `tdmcp_tunnel.py` line 565 "always retries (never silent-death)": `start()` trusts a
  thread that is about to exit, and `resume()` starts no thread for the one that
  `pause()` ended. A read timeout inside a frame makes the reader take the
  rest for a new frame (`Misread`).

The MCP server:

* targetQueue.ts:8 "nested calls do not deadlock": two get_td_info calls
  (toolDefinitions.ts:177), each holding one target's queue, queue for each other's.
* expandCache.ts:263 "Concurrent calls for the same toe are serialized (in-process
  Promise + lockfile)": a refresh removes its own lock file with the directory
  (line 199), and a second call expands the entry beside it. Readers take no lock
  (184, 292): while the refresh of another process removes the entry, or after it died or failed over that,
  a call finds the .toc and meta over what is left of the directory and returns it. The cache also hashes the .toe
  before it waits for the lock and copies it after, when it may have changed.
* docs/architecture.md:616 "protects every tool call from running against outdated
  TouchDesigner `.tox` files": the verdict is one for all targets
  (touchDesignerClient.ts:232); within its TTL, a call to a target that was never
  asked passes, or is refused, on another's version.
* tdProcess.ts:384 "Only kill a PID we recorded after verified hello / spawn": so it is, but the pid recorded may be
  lost. A stop writes back what it read before it waited (430), over the pid of a start that
  overlapped it; and a second TD of the project takes the first one's place in state.json. The
  first one then runs on, and no stop finds it. A TD that a user opened by hand is never recorded, and a
  stop ends it only if the quit reaches it through the tunnel.
* tdProcess.ts:336: the start's own expect blanks folder and pid of the hub's record, so the probe
  accepts the connection of a TD of a copied directory, or of an older one; its pid is not taken
  (`NamesNoCopy`).
* An initialize request in transit when the HTTP server stops opens a session
  after the registry was cleaned up.

The expanded projects:

* templates/mcp_project/README.md:38 "Legacy name `mcp_webserver_base` is wiped on
  `onConflict: "replace"` only": a project with only that name has no bridge for
  the conflict check (graftManifest.ts:619-677), so it is grafted under every option,
  and the wipe takes every reserved name.
* wipeGraftOwned, graftManifest.ts:752 "plus matching .toc lines": the children of a sibling
  onstart are removed with its directory, as is all in `local/tdmcp_boot`, although
  `isGraftOwnedRel` (161-183) does not take them for the bridge's; their lines stay in the .toc. The
  TOC_DUPLICATE finding cannot be reached, as the .toc was deduplicated before; and a
  manifest.json torn by a kill makes later injections fail until the cache is removed.
* injectMcp.ts:376-385: the check of the collapsed copy looks for the bootstrap, .build and the
  sidecars only. An operator of the user's that toecollapse leaves out, which often exits non-zero, is
  lost without notice (`ForeignKept` excepts what it lost).
* docs/toe-digest.md:64 "`wires` | Edge list; use `around` + `radius` for ego graph":
  only the wires below or above the path of `around` are collected
  (digest.ts:298-305), so the wires from a node to its siblings are missing
  from its ego graph.
* wires.ts:326 "within `radius` hops": the wires of the outermost nodes are kept,
  which bring nodes `radius + 1` away.
* The `omitted` of a brief does not count the nodes that were cut; references and wires of a
  path include those of its ancestors, extensions do not; a relative reference
  such as `../const1` is not normalised; and the reader of a `compinputs` block
  can take a family word for the name of a connector.

The API service in TD:

* api_service.py:423-427 "Merging them makes scripts behave the same as Python written
  inside a DAT or the Textport": the last line of a script is evaluated again after
  the script ran (471-496), even if it stood in a branch that was not taken.
* `raise error_result(...)` raises a dict: a TypeError takes its place, the
  message is lost and every failure of a service is a VALIDATION error; answers with
  an error have the status 200. A method of a node that fails half-way (388-399), or whose result
  cannot be processed, is refused although it has changed the project.
* The parameters of create_node that could not be set are only logged; and get_nodes
  with a pattern searches all depths.

## 5. Proofs

`PeerStore_proofs` proves what each operator of the registry returns: the
store's type, the set of known ids, the records that stay, and that `Sticky`
is kept. `First` needs that a non-empty set of naturals has a least element;
the library states that only for an operator, so `LeastNatural` derives it from
the well-foundedness of strict inclusion of finite sets.

`HubServer_proofs` proves `Spec => []RegistryInv`, which has them as parts, and `[]TypeOK`,
`[]StickyIsKnown`, `[]ConnectedIsBacked` and `[]RoutedIsAlive`. None of the
last three is inductive alone:

* a flag is backed by a socket only because a detached record is corrected, and
  `Detached` corrects nothing for an absent id or an http record: `FlagsOf`
  says those carry no flag, `SnapFlags` says the same of the snapshot;
* the sockets map is alive because a close event looks its socket up under the
  id it is bound to; that needs `BoundIsLive`: only a live socket is bound, and
  a live socket has said hello.

`RegistryParts` splits the invariant by the variables steps change together;
one lemma per handler (or group of handlers that write the same variables)
preserves the parts. The assumptions are the named ASSUMEs of the modules:
finitely many ids, the null values outside their sets, a positive TTL. TLC checks
`RegistryInv` itself in `hub_registry`.

It goes on to prove `[]RequestInv`, `SettledForGood`, `[]DiskFollows` and
`ConnectedIsKept`, each with `RegistryInv` as a fact:

* for the requests, `RequestInv` had to say two things more to be inductive:
  a request is in one place (`OnePlace`, so that settling it leaves it nowhere
  else), and what a live socket holds was made for the id it is bound to
  (`Addressed`). `ChainStep` is the heart: all that is in flight on a PeerSocket
  settles and the next of its queue starts, whatever the reason; `Moved` says a
  socket keeps its id until it has closed. `SettledForGood` is the same step
  read for one request;
* the file follows the registry because an id that leaves the registry takes the
  selection along only if it was selected (`Shrinks`), and because the file names a
  selection whenever it lists a peer (`SnapNames`), which is what a restart
  needs;
* a connected peer is at most one sweep period old between the tick and the sweep
  timer, and renewed otherwise (`AliveInv`): with a TTL of one period or more, no
  sweep of any handler finds it expired. `AcceptHelloAlive` and `DetachBoundAlive`
  are the steps where a peer becomes connected and stops being so.

`TouchDesigner_proofs` proves first `[]ClientInv`, for any number of threads, sockets and
requests and any set of calls, with `[]OneWorker` and `[]QueuedOnce` as its parts. The
first half is about the threads: one worker, a green face only in a session, and
a socket wherever the worker reads (`HasSock`). The second is about the requests: that
one waits once needs that its body is on one wire, in one place, and complete
(`BodyOnce`); a part that is read moves the others by one (`PartRead`), and
a socket that nothing refers to any more takes its wire along (`CollectedWire`).

`TargetTools_proofs` proves first `QueueSpec => []ChainInv`, `[]OneAtATime` and the
refinement `QueueIsLock`, for any number of calls and targets. The invariant
needs the history `ahead`: that the call a promise waits for is done says
nothing of the calls before that one unless the chain passes all of them.

It carries this over to the whole process: `ToolsInv` relates
each call's place to its queue entry and says that the selection in every
listing on its way is one the hub had during the call (`seen`), and every step of
the tools is a step of the queue or a stutter. `WorksOnSelection` follows.

`McpServer_proofs` is about three parts that share no state, each for any number
of its actors:

* `StartSpec => []OneHolder`: the lock file admits one caller at a time, as the
  step that creates it needs it absent and only its holder removes it;
* `CompatSpec => []OneVerdict`, for any versions and targets: the cache never
  holds an error and a success at once, and what it holds is the verdict on the answer it
  was made of: whoever writes one drops the other in the same step;
* `[]SessionInv`, `[]TrackedExactly` and `EndsForAReason`, for any TTL. That the maps
  agree is inductive with the callbacks of a session in between; that an expiry is
  one needs that ages only grow when a sweep was due and done (`AgesInTime`) and
  that an age is at most the time the client was quiet (`QuietIsAge`).

`ExpandCache_proofs` proves `[]CacheInv` for any number of calls and processes:
a promise in the map is one still being worked on, a lock file is that of a call
inside or of a killed process, and two calls work on the entry at once (remove it or expand it)
only if a lock was stolen. The last needs `WorkIsLocked` (as long as no lock was stolen, whoever is
at work owns the lock file) and `ToolsHaveCallers` (a tool without a waiting
call is that of a dead process). Steps fall into those that settle a promise,
those that move a call, and those that touch the lock; one lemma each preserves
the two halves `Promises` and `LockInv`.

From it follows `[]ReturnsWhole`, with a second invariant about the files,
`FilesInv`: until an overlap one call is at work on the entry (`OneExpands`), and as long
as `harm` is none, an entry with .toc and meta is whole (`DeclaredIsWhole`), and so is the directory
when a call has seen its tool end with a .toc (`ClosedIsWhole`). A removal counts as work on the entry
from its first file to its last (`ClearingSpoils`).

`Lifecycle_proofs` proves `[]LifecycleInv`, and from it `[]RunningIsRecorded`,
`[]StopEndsIt`, `[]NamesNoCopy` and `[]ReturnsItsTd`, for any number of calls and processes. What a
stop finds in the file is right because one start or stop is at work at a time
(`OneBusy`), one TD runs (`OneTd`), the file and the hub's record name no TD but the one that start has
spawned (`WorksOnFile`), and in a life without strangers nobody else has the
socket (`SeesItsTd`). `NamesNoCopy` needs none of these premises: a start takes a pid from the hub's record
only if that names the project's folder, and a blank record names no pid. Steps are split into those of a call that has the project to
itself, which need only its own conjunct (`CallInv`), and the rest, which leave
all of them alone.

`Toe_proofs` proves, for any number of calls, workspaces and kills, any sources
and any kit, `[]InjectInv` and from it `[]KitIsWhole`, `[]OwnWorkspace`, `[]CommitIsLast`
and `[]ForeignKept`. None is inductive alone; `InjectInv` has four parts:

* `InjectTypeOK`;
* `KitInv`: the kit's directory only grows, and a manifest is written after the .toc, which
  is written last. So two expansions of the kit at once, or a kill during one,
  leave no manifest of a part (a torn one makes later calls fail);
* `OwnerInv`: a workspace that is not empty is that of a call still at work, done,
  or killed, and of no other call; a workspace of another call is not empty, so
  it is refused. A step of one call leaves the other calls' parts alone
  (`OwnersApart`, `OthersKeepTheirs`);
* `WorkInv`: what a call has done to its workspace at each place. State.json comes
  after what was packed has passed `verify`, which `CommitIsLast` reads off.

`ForeignKept` is about what `graft` computes: the files that are neither the bridge's nor
swept stay, nothing but the bootstrap comes, and the .toc lists just the files. Its proof
goes through the code's own steps. `AddNewAdds` says that `dedupeToc` and
`mergeTocEntries` keep a line of every key and add none, `RemoveRemoves` that `removeTocLines`
takes away the lines it is given, and no other. `OneSpelling` says that
in a project that `assertGraftClean` has passed, with no duplicates under a directory,
two files that agree up to the case of their names are one; hence keys tell files
apart (`KeysTell`) and the .toc, which is compared by key, is the set of files
(`TocIsFiles`). The induction over a sequence that this needs is had without an
operator parameter: `SetInduction` is induction for a *set* of naturals,
from the well-foundedness of `<`, and `StepByStep` gives the recursive functions of
`Graft` their existence from it.

The theorem has no hypothesis about the sources but `JobsAssumption`: a .toc, which
toeexpand writes, lists just the files that it writes beside it. Doubled lines, names in another
case, and files within or beside the bridge's directories are all allowed. What is not the graft's to keep is
in the statement instead: `wipeGraftOwned` (graftManifest.ts:758-787) deletes the
directories `project1/tdmcp_port_onstart` and `local/tdmcp_boot` with all that is in them, of
which `isGraftOwnedRel` (161-183) says that it is not the bridge's, and leaves their lines in the .toc
(`Swept`); and toecollapse may lose any file, which `verify` notices only if it is one of the
bootstrap's (`lost`).

The second half of `Toe_proofs` is about the digest, for any project and any query:
`DigestSpec => []BriefIsEgo`, `[]SeenOnce` and `[]NodeAgrees`. That an answer has all there is to tell is
said of those that are not marked as truncated; that it has nothing else, of all. The three properties state
in one piece what the code collects step by step, so each rests on a lemma that says what
such a collection comes to:

* the walk meets the operators up to its depth that the filter admits, and no others, since
  each is in the directory of its parent and the parent of one that passes the filter passes
  it too;
* the nodes near a seed are the ends of the chains of wires of at most the radius: a chain
  grows by one wire at a hop. A brief collects the wires at or below its path and on the way to
  it; those between siblings are among them if the walk's depth reaches the node's directory,
  which a `relative` depth of 0 can prevent: the property is stated for the others, 1
  and above or none;
* a parser takes just the pairs of its block, which the grammar needs: a second block of the
  same word would be ignored by the code, and a pair outside a block lost.

`NodeAgrees` compares the extensions of a node with those of the whole project only down to
the depth 32, where the walk for the project ends (`extensions.ts`).

The second half of `TouchDesigner_proofs` proves `ApiSpec => PlacedClear` and `ApiSpec =>
AnswerIsTrue`, for any nodes, grid, property kinds and requests. Its invariant is `IsNet` (every
node that exists has its parts); `Lawful` says what an answer may do to the
project, and one lemma per service shows it: what `first_free_cell` returns is free,
and when it returns nothing all cells are taken (`FreeCellIs`, which needs the first of a set
of numbers); the loop over the properties sets what it lists (`AssignKeeps`); a script, however many
lines it has and wherever it stops, creates no node (`ExecutedKeeps`), and so does a method of a node
(`MethodIsLawful`). A refusal leaves the project as it was for every request that names neither a script
nor a method: those two may fail half-way. The last steps are the
routes: an update is what PATCH leads to, and for the three services that the
properties name no path parameter is among the arguments (`RoutesAre`, `ArgsAre`). The only
assumption on requests is that a script is a list of lines (`ScriptsAssumption`).

Only model-checked: the liveness properties (`EveryRequestSettles`, `KeepsDialling`,
`PauseDisconnects`, `CallsEnd`, `HubComesUp`, `HubsSettle`, `AbandonedExpires`,
`ShutdownEnds`, `EveryCallEnds`, `DeadLocksGo`, `Recovers`), as liveness under fairness is out
of the prover's reach. All other properties that the runs check are theorems, either by
themselves or as a part of one.

## 6. Plan

Done: the hub (`PeerStore`, `TunnelManager`, `HubServer`), TD's end of the
tunnel (`TunnelClient`), the tool calls of a process (`TargetLock`,
`TargetQueue`, `TargetTools`), the hub's start (`EnsureHub`), the HTTP sessions
(`SessionTransport`), the expansion cache (`ExpandCache`), the life of a
project (`Lifecycle`), the version check (`CompatCache`), the injection
(`Graft`, `Inject`), the API inside TD (`ApiService`) and the digest (`ToeDigest`).

Next, in this order:

1. `HubHelper` composed with `HubServer`: registration and heartbeats over HTTP.
2. `BridgeStatus` (the bounded log and the visible state) and `Dialogs` (the
   wait-and-dismiss loop).
3. More than one entry and version in `ExpandCache`, for a .toe that changes between
   its hash and its copy.

A component's composite invariant (`RegistryInv`, `RequestInv`, `ClientInv`, `CacheInv`,
`SessionInv`, `ChainInv`) stands for its parts in the runs; `InjectInv`, `ToolsInv` and `LifecycleInv` are
the proofs' invariants, and the runs check the properties that follow from them.

## 7. Not modelled

Formatting and presenters, the CLI, the generated API client, build scripts,
the templates (a copy of `td/`), logging. TouchDesigner's dialogs: what is on the
screen is found by an external PowerShell script. The connection manager connects one
server once, and the lifecycle guards only end the process. The bridge status in TD
shows what the tunnel client reports. `PROJECT.json` gives the reason for each component.
