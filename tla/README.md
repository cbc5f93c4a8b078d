# A TLA+ model of the Roblox Studio MCP bridge

An MCP server in Node (`src/packages/core`) and a plugin in every Roblox Studio
process (`src/studio-plugin`) work together: an MCP client calls a tool, the
server turns the call into a request for a *Studio Peer* (a plugin in one
DataModel of one Studio process), the request travels over a WebSocket the
plugin opened, and the plugin's response travels back. Requests change places,
scripts and assets, so what must never happen is that one runs twice, or that
the server says it did not run when it did.

This directory models the parts of the program that decide this, checks them
with TLC on small instances, and proves the invariants that need no bound with
TLAPS. Contents: [inventory](#inventory), [modules](#modules),
[runs](#runs), [fairness](#fairness), [proofs](#proofs),
[findings](#findings), [what is not modelled](#what-is-not-modelled),
[plan](#plan).

## Inventory

Paths are below `src/packages/core/src` (server) and
`src/studio-plugin/src/modules` (plugin).

| Part | State it keeps | Operations | Interacts with |
|---|---|---|---|
| Operation ledger, `bridge-service.ts` | `operations`, `pendingRequests`, `retainedResults`, `pendingCancellations`, counters, lifecycle waiters | admit or join, claim, observe progress, settle, end a waiter, look up, wait, prune | transport (claims, reports, listeners), tools (`sendRequest`) |
| Peer and group registry, `bridge-service.ts` | `peersById`, `multiplayerGroupsById`, `deliveryOwnersByTransportPeer` | register, unregister, create and remove a group, clean up stale peers | HTTP routes, ledger (ends requests of a peer that leaves), transport (closes its socket) |
| WebSocket transport, `studio-transport.ts` | one `ActiveStudioSocket` per transport peer, its acknowledgements, flags of the pump | open, replace, pump, receive, heartbeat, close | ledger, plugin |
| HTTP server, `http-server.ts` | transport tokens, MCP sessions | `/ready`, `/disconnect`, `/studio` upgrade, groups, `/topology`, `/proxy`, MCP | registry, transport, proxies |
| Proxy bridge, `proxy-bridge-service.ts` | cached topology and the number of the poll it is from | poll, forward requests and group changes | the primary's HTTP server |
| Election, `server.ts`, `server-registry.ts` | bridge mode, timers | bind or proxy, promote, clean up, shut down | everything of one server |
| Stdio transport, `stdio-transport.ts` | partial line, pending chunk, blocked output | read, write, drain, end | MCP client |
| Managed-instance registry, `managed-instance-registry.ts` | a directory of records shared by servers, its `.lock` | lock, reclaim, record, sweep | instance manager, other servers |
| Instance manager, `studio-instance-manager.ts` | launched Studio processes | launch, attach, close, reap | registry, host |
| Tools, `tools/` | records of reference uploads | one request each, the multiplayer test tools, uploads | bridge, web APIs |
| Plugin socket, `StudioWebSocket.ts` | phase, generation, `cachedReady`, in-flight requests, pending responses, tombstones | register, upgrade, dispatch, retain, resume, expire, reconnect | server, handlers |
| Plugin session, `PluginSession.ts`, `PlaytestTickets.ts` | peer id, instance id, group, play record and tickets | resolve identity, begin and finish a test, claim a ticket | plugins of other processes, through settings |
| Client broker, `ClientBroker.ts` | proxy entry of each client, calls under way, heartbeats | register clients over HTTP, relay their requests | server, client plugins |
| Stop-play monitor, `StopPlayMonitor.ts`, `TestHandlers.ts` | a request and a result in plugin settings, whether `EndTest` was issued | start, stop, acknowledge, redeliver | the edit session's plugin and the play server's, through settings |
| Script editing, `ScriptEdits.ts`, `ScriptReplace.ts`, `Utils.ts` | per call | plan edits, diff, write, restore | script editor, users who type |
| Other handlers, search, capture, jobs | per call | one Studio operation each | Studio API |
| Everything else (`opencloud-client.ts`, host capture, codecs, installers, scripts) | – | pure I/O or pure functions | – |

What is hard in it, and what would make it correct:

* *Ledger.* Three maps hold the same operations and are pruned by loops that
  stop early. Correct: the maps agree, limits hold, an operation is handed out
  at most once and settled once, and every expired record is found.
* *Delivery.* Two programs, a connection that fails between any two steps, a
  retry that repeats everything unacknowledged. Correct: a handler is entered at
  most once, what is said of an execution is true, an acknowledged response was
  recorded, nothing waits for a wake-up that does not come, the two ends find
  each other again.
* *Registry of peers.* Sessions appear and vanish in any order, and membership
  is kept twice. Correct: the two records agree, a role means one process, no
  client outlives its transport, who is gone leaves, who runs connects.
* *Registry lock.* Several servers, crashes, and decisions from what was read
  some awaits ago. Correct: one operation at a time, no live owner condemned,
  no lock left behind.
* *Managed launches.* Every step writes the whole record behind that lock and does
  not wait for the writes before it; two servers sweep. Correct: a Studio that
  lives has an open record, and only the dead are marked exited.
* *Status waits, callers, proxies.* Shared sets of callbacks, one record for
  several callers, halves of a call that lose each other. Correct: every sleeper
  is woken, "not executed" is final, a proxy does not bring back who is gone.
* *Election and stdio.* Overlapping promotion attempts; input that ends while
  output is blocked. Correct: a served call has a consumer, the port is taken
  again, every line is handled once.
* *Playtests.* Processes that share nothing but plugin settings, where writes are
  lost and arrive late. Correct: a ticket is taken once, a stop ends the play it
  was made for and no other, the server knows exactly the client that plays.
* *Scripts.* A write yields between the comparison and the text. Correct: what
  others wrote survives, and a reported status is true.

`PROJECT.json` lists the parts as `components` and the hazards at their lines.

## Modules

| Module | Models | Uses |
|---|---|---|
| `BridgeLedger` | the ledger's methods as operators on a record | – |
| `BridgeOperations` | the ledger as a specification: any method, any order | `BridgeLedger` |
| `BridgeLedger_proofs` | lemmas on the ledger's operators, for both specifications that use them | `BridgeLedger` |
| `BridgeOperations_proofs` | theorems of the ledger | `BridgeOperations` |
| `StudioTransport` | the server's end of one socket, over a ledger | `BridgeLedger` |
| `StudioPlugin` | the plugin's end | `BridgeLedger` for its constants |
| `StudioDelivery` | both ends, the connection, and its failures | the two above |
| `StudioDelivery_proofs` | its theorems, the refinement of `OperationContract` among them | `StudioDelivery` |
| `PeerTopology` | the registry of peers and groups; also the abstract specification of the next one | – |
| `StudioSessions` | plugins that come and go, and the multiplayer test | `PeerTopology` |
| `StudioSessions_proofs` | theorems of both | `StudioSessions` |
| `OperationContract` | what a caller may rely on, abstractly; `StudioDelivery` implements it | – |
| `StatusWait` | `waitForRequestStatus` | – |
| `OperationCallers` | callers that join, replay and call through a proxy | – |
| `ProxyTopology` | the topology a proxy keeps | – |
| `ServerElection` | who holds the port | – |
| `Servers_proofs` | theorems of `StatusWait`, `ServerElection`, `ProxyTopology`, `OperationCallers`, `StdioTransport`, `ReferenceUploads` | those six |
| `StdioTransport` | the MCP stream on stdin and stdout | – |
| `ReferenceUploads` | the reference image of `generate_model` | – |
| `RegistryLock` | `withLock` of the managed-instance registry | – |
| `ManagedLaunch` | one launch, its record and the servers that write it | – |
| `RegistrySweep` | how observations close a record | – |
| `Registry_proofs` | theorems of `RegistryLock`, `RegistrySweep`, `ManagedLaunch` | those three |
| `ClientProxies` | registration of clients by the server of a playtest | – |
| `ClientCalls` | requests it relays to a client | – |
| `PlaytestTickets` | tickets and claims in settings | – |
| `StopPlay` | `stop_playtest` and the monitor that answers | – |
| `ScriptEdits` | planned edits and their diff, as operators | – |
| `ScriptEdits_proofs` | theorems of `ScriptEdits` | that one |
| `ScriptWrites` | writers of scripts that interleave | – |
| `Plugins_proofs` | theorems of `PlaytestTickets`, `ClientCalls`, `StopPlay`, `ScriptWrites` | those four |
| `MCStudioDelivery`, `MCStudioSessions`, `MCRegistryLock`, `MCManagedLaunch`, `MCBridgeOperations` | constants and symmetry of the runs | the module they name |
| `MCServerParts`, `MCPluginParts`, `MCFairParts` | several parts in one run | the parts they list |

The parts in the second half share state only through what the first half has:
each is a specification of its own. Three `MC` modules check them together: a variable `part`
is chosen in the initial state and never changes, and the steps are those of
that part. So a behaviour is one of one part, each property is checked on all behaviours of
its part, and the states of a run are the sum of those of its parts, not the
product.

### BridgeLedger and BridgeOperations

JavaScript runs a method to its end, and `BridgeService`'s methods call each
other (an admission prunes before and after; a settlement prunes, records,
prunes). So the service is one record `b` and each method an operator from
record to record; a method that calls another applies its operator:

| Code | Operator |
|---|---|
| `admitRequest` | `Admit` (`Prune`, then `Insert` or refuse, then `Prune`) |
| `claimNextRequestForTransport` | `NextRequest`, `Claim` |
| `claimNextCancellationForTransport` | `NextCancel`, `ClaimCancel` |
| `releaseDeliveryClaims` | `Release` |
| `observeTransportProgress` | `Progress` |
| `settleTransportResponse`, `recordResponse` | `Disposition`, `Settle`, `Record` |
| `endRequestWaiter`, `notifyRequestCancelled` | `EndWaiters`, `Tombstone` |
| `unregisterPeer` with its requests | `Unregister` |
| `pruneOperations`, `prunePendingCancellations` | `Prune`, `PruneCancels` |

`older` and `earlier` are the iteration orders of the maps, as relations. They
matter: the prune loops stop at the first entry that is fresh. Ages are counted
in ticks up to the age at which the code forgets. The responses are abstracted
to how the handler ended and whether the caller gets a result
(`Responses`). A request with an id the ledger remembers joins, is replayed or
collides; none of that changes the ledger, so it is `Admit` without effect.

Left out: byte limits and byte counters, what a fingerprint is made of,
`connectionLost`/`connectionRestored` flags, lifecycle waiters (`waitForRequestStatus`),
`clearAllPendingRequests` at shutdown, and `resolveRequest`/`rejectRequest`, which
only tests call.

### StudioTransport, StudioPlugin, StudioDelivery

`server` is the ledger and the current connection: whether a write is under way,
the queued acknowledgements, the heartbeat flag, and the frames on the wire in
both directions. `Pump` is `pump`: acknowledgement, cancellation, request,
heartbeat, in that order, one frame at a time. `StudioTransport` repeats the
ledger's methods with the `notifyRequestAvailable` each ends with (`Submit`,
`EndWait`, `Arrive`, `Leave`), for whether a method wakes the pump is what
`NoLostWakeup` is about. `plugin` has the phase of the connection, whether
`cachedReady` is set, the in-flight handlers, the kept responses, those among
them that are admission rejections, and the tombstones.

`attached` says the plugin's socket is the server's current one. After one end
closes, the other may still read what was sent, until it notices:
`ServerSeesClose`, `PluginSeesClose`. Failures are `ServerDrops`, `PluginDrops`,
a lost `/ready` response, `ServerRestarts` (an empty ledger; what the old server
wrote may still arrive), and a peer that goes stale during its own upgrade;
`MaxFailures` bounds them. A handler may find its request out of time before it
is entered (`StartsWork`), may return any of `Reports`, and need not return.

`history` is what no part of the program knows: which operations entered a
handler since they were admitted, whose handlers ended, and which were declined.
It is only in properties. So is `past` on a frame: it is FALSE when the frame is
written and becomes TRUE when its id is admitted again or the server restarts,
so that a request or acknowledgement of an earlier admission is known from one
of the present. The ledger's promises are, by `docs/large-inputs.md:157`, bounded
to one server session, so an id that a request of the past carries may be
entered once more than the new ledger knows.

A tick is 150 seconds, half of the retention of both ends and longer than every
timeout of a silent socket, so nothing is in flight when it passes. Left out:
bytes, status frames (a turn of the pump like a heartbeat), the socket's
`disconnect` frame and `suspendForShutdown`, the metadata refresh, the
`cancelled` flag a running handler may poll, and `MAX_ACTIVE_STUDIO_SOCKETS`.
`sentGeneration` is not kept because while a socket is open everything has been
sent on it: `Opened` resumes all, and later changes report themselves.

### PeerTopology and StudioSessions

`PeerTopology` is the registry: `peers` with `role` and `groupOf`, groups with
`members` and `controller`, sockets (`open`) and silence (`quiet`). An HTTP
handler does not yield, so each is a step; a refused call is no step.
`TopologySpec` lets the outside do anything the routes allow. `StudioSessions`
says what plugins and the multiplayer tools do with it: sessions begin, end with
or without a `/disconnect`, register with the group they know, accept or refuse
the answer, open sockets, fall silent; `multiplayer_test_start` begins a test,
then makes its group, or fails between; the plugin forgets the test when
`ExecuteMultiplayerTestAsync` returns; `multiplayer_test_end` removes the group
or is never called; `manage_instance` closes a process. A plugin session never
comes back: a reload is another peer of the same Instance.

Left out: metadata of places, aliases of runtime peers
(`connectedInstanceIdCollision`), tokens, `MAX_STUDIO_SESSIONS`, version checks.
Studio plays one thing at a time, and tickets are reduced to their result,
`RunsFor` (which group a runtime session belongs to).

### OperationContract

The ledger, the wire and the plugin seen by a caller: an operation waits for its
caller, ends without its caller, is settled and forgotten; a handler is entered
at most once and never after the caller was told `not_executed`; `success` is only
told of a handler that finished; nothing but `unknown` is ever taken back.
`StudioDelivery` implements it under the mapping `Contract` (in that module): status
and what was told from the ledger's record, entries and ends of handlers from
`history`. `ServerRestarts` is the contract's `Restart`, after which an
operation the dead server had written is `lost` and nothing is promised of it.

### StatusWait and OperationCallers

`waitForRequestStatus` is a condition variable of promises. A waiter keeps the
set it found in `lifecycleWaiters`; whoever leaves a set empty removes the map's
entry. The places of a call separate what JavaScript separates: `asleep` at the
`await`, `woken` or `late` when the race is decided and the microtask has not run.
The operation is reduced to what `canStillSettle` reads.

`OperationCallers` has the two halves of a proxied call (`postProxy` and
`/proxy`): the proxy tells its caller something as soon as its own request fails,
while the primary may receive that request later or go on with it. Joiners of
one record end together. Admissions of an id are numbered. Calls whose arguments
differ are collisions, which change nothing, and are left out.

### ProxyTopology and ServerElection

A poll is numbered when it begins and may answer after a later one (`PollReturns` compares
`topologyGeneration` and `appliedTopologyGeneration`); changes go to the primary, and the
proxy edits its copy when the answer comes. A peer is absent or has the group of
its Instance.

`ServerElection` is `run`: bind or become a proxy, attempt promotion on a timer
that does not wait for the last attempt, swap in the new bridge only when
its bind succeeded, shut down, be killed, start again. The kernel decides a bind
at once and the process hears of it later, so between the two it may have been killed.

### StdioTransport

One symbol of input at a time: `onData` frames lines up to a byte limit, rejects
what is too long or unreadable, and when an answer fills stdout the rest of the
chunk waits in `pendingChunk`. `onEnd` waits for that. Parsing JSON is a
verdict on the line.

### ReferenceUploads

The record of one reference image over the calls of `generate_model` that share
its id: look up, collide, wait for one another, acquire, upload, poll, fail,
retry. The web service is what `opencloud-client.ts` makes of it: a request
that was surely not accepted (`createdNothing`) may be repeated, one of unknown
outcome may not.

### RegistryLock

Every awaited file system call of `withLock` is a step: `mkdir`, the write of
`owner.json` with `wx`, `stat`, `readFile`, the two reads of `isInspectedLock`,
and the two halves of a recursive `rm`. `instance` and `touched` stand for the
inode and the mtime that `isInspectedLock` compares, `stale` for an mtime older
than `LOCK_STALE_MS`. `active` is `activeLockPaths` of each process and `Tokens`
is `activeLockTokens`. Processes in `MayCrash` may crash; with `MaySuspend` a
process may stand still past the stale time between two calls.

Calls of the operations in `MayFail` may fail, at every step where the code has a
`catch` that swallows it: the write of `owner.json`, the `rm` that undoes one, the `stat`s and
the `rm` of a waiter, and all three calls of the release. A recursive `rm` fails at once, or with
`owner.json` gone and the directory left. `failures` remembers who failed to remove
`.lock`. A release that fails drops its token like one that does not and leaves `.lock` behind
without a crash; who may be named by such a lock is the subject of `NothingLeftBehind`. Left out
are a `mkdir` that fails without a `.lock` (it is tried again or ends the call), and a waiter
that cannot read an `owner.json` that is there: it takes the lock for
unnamed, and its age would have to be kept for named locks too.

### ManagedLaunch and RegistrySweep

`ManagedLaunch` is one launch of one server: the control it holds of the process,
the copy of the record in memory, the file, the writes on their way to it, and
the sweeps of that server and of another. A write is the record as it was when
it was asked for; writes land in any order. Processes and platforms are reduced
to whether the Studio lives. How many misses it takes to be marked exited is a
guard there (`SweepsExited`) and the subject of `RegistrySweep`: snapshots of
processes that are taken at one time and used later, again or never, by sweeps
and by the owner's refreshes, and the copy in memory that lands over the file.
It starts with a launch that is released and identified. Three variables are not in
the program. `evidence` is of a copy: the misses it counted since an observation of that copy that
did not miss the process. `sighted` is of the file: when sweeps saw the process or
could not tell. `lost` are the sightings a copy from memory replaced when it landed. They are lost
to the program too, so the property excepts them, and only them: without the exception it is
false (see the findings).

### ClientProxies and ClientCalls

The server Peer of a playtest registers each client over HTTP. `ClientProxies`
has the entry of one Player with its generation, the `/ready` and `/disconnect`
requests under way, their retries, the MCP server's registry and its restart.
Each request has its own coroutine and yields: requests fail and reach the server in any
order, and their answers are heard in any order or are lost once the request was handled.
`copy` tells requests apart that are alike. The registry follows the clients with one exception,
which `leftBehind` names: a `/ready` that is handled after the `/disconnect` of its client,
with an answer that is lost, or that is heard before the answer of that `/disconnect`. Then
the clean-up is skipped, and the peer stays.

`ClientCalls` is one relayed request through a RemoteFunction: admission,
refusal of a channel that does not answer, deadline, cancellation, a Player that
leaves, the client's refusal before it starts, and its answer.

### PlaytestTickets and StopPlay

Both are plugins of different processes that talk through plugin settings.
`PlaytestTickets` is the board of tickets (read and written whole, so that one
window overwrites another's change) and a claim per ticket. Two facts about time
are assumed: a runtime that decided to claim has written its claim before
another one waited for a poll, for it does not yield between; and a window
hears of the end of a play after its runtime ended.

`StopPlay` is `stopPlaytest`, `startPlaytest` and `handleStopRequest`. A write can
be lost without notice (`Sets`), a read can find nothing (no step). Time is
reduced to what follows from the constants: a request made before the monitor's
module was loaded is known as such, and none expires (12 s) while its caller waits
for an acknowledgement (8 s). `EditModeActive` is taken to be false from the start of a play to
the end of its teardown, and a stop is not made in the moment between the two.

### ScriptEdits and ScriptWrites

`ScriptEdits` is arithmetic of lines and offsets: where an edit applies, when
edits overlap, what text comes of them, and the unified diff of whole changed
lines that previews them, for edits and for two whole sources. A text is a
sequence of bytes, one of which is the newline; a line is told with its
terminator, which is what `sameLine` does with `missingFinalNewline`. The
character budget is left out. A loop of the code is a recursive function: what its
state is after its body ran so many times, up to a number of times that is
enough for it to end. The texts are over a constant `Bytes`, of which the proofs
assume nothing. The module asks one question of each
behaviour and keeps the answer; the property compares the diff with a reference
definition of applying one (`Patched`). `JoinsLastLine` is the one corner in which the
diff does not apply: an edit in the empty last line, when what the other edits leave
before it has lost its newline.

In `ScriptWrites` the text of a script is the set of changes that are in it.
`UpdateSourceAsync` is three steps (asked, its callback, the look at what came of
it), the direct assignment is one. The handlers that change one script and
`find_and_replace_in_scripts` all write through it, and a user types and undoes.
`kept` is not in the program: what somebody wrote, or was told is written, and
nobody undid. Reading is taken not to fail, and the user has one draft.

## Runs

| Run | Question | Bounds |
|---|---|---|
| `plugin_parts` | Is the ledger consistent under every sequence of methods? Is a ticket taken once, a relayed call truthful, a stop true to its play, a preview the change that is written, and does no writer lose what others wrote? | ledger: 3 ids, a server and a client peer, window 1, 2 pending, 2 records, 1 result, 1 tombstone, retention 2 ticks. 2 windows and 2 runtimes, 1 play; 2 relayed requests; 2 stops of 2 plays; all texts of up to 3 characters with every list of 1 or 2 edits; 2 scripts, a replacement, a handler's call and a user |
| `server_parts` | Who may condemn the lock, and what do ends, crashes and failed calls leave behind? Is a living Studio recorded, an exit marked on evidence alone? Does a proxy bring back who is gone, is "not executed" final, an image uploaded once? | lock: 3 operations, 2 processes, 3 locks, one process may crash, suspensions, calls of 2 operations may fail. A launch with 1 write under way; a sweep and a refresh, 2 misses, 2 ticks of grace, clock to 4; 1 peer, 1 group, 2 polls; 2 callers, one through a proxy, 2 admissions; 2 calls, 2 peers, 2 uploads |
| `fair_parts` | Do status waits return, is the port taken again, is the stream framed and closed, does the registry follow the clients? | 3 waiters; 3 servers with 2 attempts each; three streams of 4 to 9 symbols cut anywhere, lines of 2; 2 client VMs, 1 renewal or restart, 2 requests alike under way |
| `studio_delivery` | Once, recorded before acknowledged, never asleep, and as the contract says? | 2 ids, 1 acknowledgement, 1 active handler, link of 2 frames, 1 failure |
| `studio_client` | Is the pump never asleep when a client peer comes and goes? | 2 ids, heartbeats, link of 1, no failure |
| `studio_admission` | Is a tombstone reserved for everything taken on? | 3 ids, 2 tombstones of the plugin, 1 rejection; the server keeps no result and no cancellation |
| `studio_live` | Do they reconnect, is every response released, and is what is told of an execution true? | 1 id, handlers that decline, 2 failures, fairness |
| `studio_sessions` | Is the registry right whatever sessions do? | 5 sessions in 4 processes, 1 group, 1 fault |
| `studio_unknown` | Is `unknown` final for waiters too? (violated) | 1 id, a client peer |
| `registry_reclaim` | Is the lock exclusive after a crash? (violated) | 3 operations, 2 processes, 5 locks, no suspension |
| `managed_orphan` | Is only an orphan stopped as one? (violated) | 1 launch, 1 write under way |
| `session_connects` | Does a running plugin connect? (violated) | 3 sessions, no fault, fairness |

Why the bounds are enough to be interesting: each limit is one to three, so that
with the ids given it binds, is exceeded by one and evicts; two ids suffice for
every pairwise race of a request with another one's slot, acknowledgement or
cancellation, and the third of the ledger's and of `studio_admission` makes
an order among survivors. One failure lets a reconnect happen at every step of
a request, and two (`studio_live`) let the reconnect itself fail. With three
operations in two processes the lock has an owner, a waiter of its own process
and one of another; `MaxInstances` is how often `.lock` is made in a behaviour.
Two parties each are the parts: two runtimes of one ticket, two callers of one id,
two stops over two plays, so that the second meets what the first left behind;
two polls overlap; three servers let a proxy be promoted while another tries; a
text of three characters has an empty, an unfinished and a final empty line.

To see whether a bound hides something, the parts were also run alone with larger
ones, all without an error:

| Module | Larger bounds | Distinct states |
|---|---|---|
| `OperationCallers` | 3 callers, 2 of them proxied, 3 admissions | 684 thousand |
| `ReferenceUploads` | 3 calls; or `MaxUploads = 4` | 1.1 million; 2.8 million |
| `ProxyTopology` | `MaxPolls = 3` | 129 thousand |
| `ManagedLaunch` | `MaxWrites = 2` | 2.2 million |
| `RegistrySweep` | 2 sweepers; or `MaxTime = 5` | 2.0 million; 306 thousand |
| `RegistryLock` | calls of all 3 operations may fail | 2.9 million |
| `ClientProxies` | `MaxCopies = 3`: the same states as with 2, so the bound never binds | 287 thousand |
| `PlaytestTickets` | `MaxPlays = 2` | 9.7 million |
| `StopPlay` | 3 requests, 3 plays | 47 million, then ended |
| `ScriptEdits` | texts of up to 4 characters, longer edits | 216 thousand |
| `ScriptWrites` | 3 scripts, 2 calls | 7.8 million |

Type invariants are stated in the modules that have proofs, where they are part of what is
proved and are not run again.
Every property of a passing run has a *mutant* in the module beside it (for example
`OverflowOfAny`, an eviction that forgets the exemption of pending requests);
replacing the definition by it makes the run fail, so no property holds for want
of something to happen.

`CHECK_DEADLOCK FALSE` is in the runs whose system may stop: operations on the lock end,
sessions that are over never come back, and in the parts a launch, a call, an
upload, a stream or a question is over once it has its answer.

## Fairness

*StudioDelivery*. Weak fairness of what takes place by itself: a write
completes, a frame that arrived is read, an end that lost its peer notices
(silence and pong timeouts), the retry timer fires, a registration or upgrade
that was begun is answered or times out, an opened socket resumes. None of
callers, handlers, clients or the clock. It is written with the named guard of
each action in the place of `ENABLED`, which is the same because each action is
enabled and changes the state exactly when its guard holds. Failures are finitely
many, so `Reconnects` says that they recover after the last one.

*StudioSessions*. `CleanupFairness`: the socket of a session that is gone is
closed (heartbeat and pong timeout, `studio-transport.ts`), nothing is heard of
it, and `cleanupStalePeers` runs (the five-second interval of `server.ts`).
`SessionFairness` adds that a running session goes on registering and upgrading,
and that Studio returns from a test that is over. Under this the registration
of a session that is refused each time is still not a connection, which is
what `session_connects` shows.

*The parts.* `WaitFairness`: a promise that was resolved resumes its call; nothing of
deadlines or of the operation. `ElectionFairness`: what a process awaits comes, and its
promotion timer, while set, makes attempts; nothing of starts, shutdowns and kills,
and `PortIsTaken` supposes that these end. `StdioFairness`: `onData` goes on with its
chunk, stdout drains, and the farewell is written; nothing of what the input does.
`ProxiesFairness`: timers fire, answers are heard or lost, the plugin connects again after a
restart, and a request of a client that is made again and again is once handled
and accepted (strong fairness, for each failure is followed by a retry of the
code, and the server refuses only for a time).

## Proofs

Checked by `tlapm` to the last leaf, for all values of the constants that satisfy
the modules' assumptions.

*Ledger* (`BridgeOperations_proofs`). The inductive invariant is `Sound`: the
record is of its type; the three maps agree; a settled operation has no
cancellation; and the order of the map is the order of ages. The last part is
why the invariant has to be stronger than the properties: `PruneComplete` says
an expired record is never left behind, the loop stops at the first fresh one,
so it must be known that everything behind it is fresher, and this of all unpended
records at once. One lemma per operator says that it keeps `Sound` (and `Prune`
has lemmas of what it removes, keeps and expires); the step lemma takes the
actions one by one. `NeverDispatchedTwice` and `SettlementStands` are action
properties proved from the same lemmas through `Keeps`, a relation between
ledgers that every method satisfies and that composes. `WindowHolds` needs the
finiteness of the ids and a count of outstanding requests.

*Lock* (`Registry_proofs`). `LockTypeCorrect`, `LiveOwnersAreSafe` and `LockIsReleased` hold with
any crashes, suspensions and failing calls. The second's invariant `NobodyCondemned` says of every waiter
that is past its judgement that the owner it read is dead or through. The third's invariant
`Attended` says that a lock that names an operation is held by it, one that names none is about to be
named or removed, or else a call failed, and that a path is active only for an operation that has
its token. It is stronger than the property, which only speaks of the end.
`HolderIsSafe` and `LockExcludes` hold without faults
(`NoFaults`: nothing crashes, stands still or fails): then no waiter ever comes to reclaim, `.lock` is made by one operation
at a time and names it. With a crash mutual exclusion is false, which the run
`registry_reclaim` shows, so the hypothesis is needed.

*Sessions* (`StudioSessions_proofs`). `Registry` is the type of the registry with
`GroupsAgree`, `RolesBelongToOneInstance` and `ClientsHaveTransport`; none of them
is inductive alone, since a registration is only refused for the roles of peers
that *carry* the group, and a departure only empties groups whose members are
*listed*. Its preservation is proved for the steps of `TopologyNext`, and
`SessionsImplementTopology` proves that every step of the sessions is one of
those or a stutter, so that the invariants carry over. `IInv` adds what
sessions need of themselves: types, and that a client peer has a client's role.

*Delivery* (`StudioDelivery_proofs`). The properties relate what the ledger recorded to
what a handler at the other end did, so the invariant has to say of everything
between the two, every frame of both directions and every response kept, that it agrees with
the stage of the operation that its id names. `RecordFits` says it for one
operation: `StagesFit` for the ledger, the handlers and `history`, `RequestsFit`, `AnswersFit` and `AcksFit`
for the frames. Two parts more are of each end: `ConnFits` (what is on the wire and
queued), and `PluginFits` (every handler, kept response and rejection has its
tombstone reserved). None is inductive without the others: a request on the
wire is harmless because a claimed operation is not admitted again while it is
remembered, a forgotten one because the request is then of the past, and a late response because the
ledger settles only what it handed over. `Fits` and `PluginFits` with the ledger's
`Sound` are kept by every step (`DeliveryInvariant`); `EnteredAtMostOnce`, `OutcomeIsTrue`,
`AcknowledgedIsRecorded` and `TombstonesReserved` follow. For the refinement each operation is
looked at by itself: what a step does to an id is a relation between its
abstract states before and after (`Goes`), what callers are told a relation on the
record (`Tells`), and every step of the program is shown to be, for all ids
together, one step of the contract or a stutter (`DeliveryImplementsContract`).

*Wakeups and cancellations* (the same module). Whoever makes something ready also pumps, so an
idle connection had nothing to say at the last pump, and nothing may have become ready in
silence since. `WakeInv` has three parts. `Timely`: the maps are in the order of
their ages, and a cancellation that could still be handed out is of an operation that
ended no later than it was made and whose record is kept; a pending operation that
a connection claimed has none. `CancelsSent`: the cancel frames on the wire are of such
operations. `Quiet`: on an idle connection no acknowledgement is queued, no fresh
cancellation is left, and the window is full or nothing can be claimed. From it
`NoWakeupIsLost` and `CancelsAreNotStray`, under two hypotheses. `TableHasRoom`: one
record more always fits; the code's table has 32768 (`MAX_OPERATION_RECORDS`).
`CancelTTL <= Retention`: 60 seconds against 5 minutes there. Both are needed.
`pruneOperations` lets a record go and leaves its cancellation in `pendingCancellations`;
an id that is admitted again then meets the cancellation of its last time. With 3 ids and
2 records TLC violates both properties: the cancellation is handed out for the new
request, and when that request ends its own cancellation is not announced, for there is
one, though a slot of the window came free. The runs' constants keep to both hypotheses.

*Records* (`ManagedLaunch` in `Registry_proofs`, the others in `Servers_proofs`). `LaunchInvariant`: wherever a record says closed, in memory,
on its way or in the file, its Studio is gone, and nobody is in the middle of a step that
would close it before; from it `LiveStudioIsRecorded`, whichever write lands last. `UploadsInvariant`: an earlier call of the same image
is known to have made nothing, a later one has sent nothing, and the record's
stage is true of the service; from it `UploadedOnce`, for any number of calls
and attempts. `StdioInv` has that what waits fits the limits, where in its
chunk the reader stands, and that what was handled is what the reference
`Framed` makes of the input so far. The reference is a recursive function; that it
exists is proved from the first prefix on which it would not (a least
counterexample, `HasLast`), and one symbol more is then one application of its step.

*Diffs* (`ScriptEdits_proofs`). `DiffsAreTheChange`: `DiffIsTheChange` for all texts and
all lists of edits. The property is inductive as it stands, since a behaviour asks one
question; the work is in the operators, in four steps.

1. *Loops.* `Iterates` proves once that a loop, a recursive function on `0 .. N`, is defined and
   what its values are (no library theorem of recursion can be used, for those take
   operators). Everything a loop computes then follows by an induction up to
   `N` (`Upwards`): where lines start, what halving finds (`LineAt`), what edits leave
   (`ApplyLoop`), groups and diffs.
2. *Texts.* A text is cut where lines end and put together again: the lines of two
   texts one after the other are the lines of both, if the first ends in a newline (`Closed`).
   What edits leave of a text is what they leave of its parts, cut between two edits (`ApplySplit`).
3. *Groups.* A group grows until the next edit shares no line with it and its region keeps its
   final newline (`GroupIs`: the loop cannot grow it more often than there are edits and
   lines). So the region ends in a newline in the old text as in the new, or is
   the last (`RegionRight`). That is where `JoinsLastLine` is needed: before the empty last
   line the code does not look whether the newline is kept.
4. *Hunks.* The invariant of the loop of `BuildDiff` (`Caught`): the diff so far, applied to the
   old lines, has led to a place where a line ends in both texts, no edit that is left starts
   before it, `lineDelta` is the difference of the lines up to there, and a hunk may go on from
   there. A step carries the lines before the next region over, for they are alike
   (`CatchUp`), and its hunk, less the lines that are alike at both ends, does the rest.

`BuildDiffRight` follows for any edits that are in order and apart. That planned edits
are (`PlansAreTheChange`) needs that the order of `ResolveEdits` is one: the number of edits before an
edit is different for each and takes every value. That
the edits of `diffSources` are, and make one text of the other, is an induction over its lines
(`DiffsOfTexts`).

*Parts.* Each of these has an inductive invariant of its own, for any number of parties.
`WaitInvariant`: a call that waits has its callback in the set the map holds, and
holds that set; from it follow `SleepersHeard` and `NoSetIsLeft`. `ElectionInvariant`:
whoever bound the port, or is about to hear that it did, is the one holder;
from it `ConsumersAreThere`. `ViewInvariant`: what a view, or an answer on its way,
still has of a peer that went is older than its going; from it
`TheGoneStayGone`, for any number of polls. `NotExecutedIsTrue` (`ClientCalls`): before
it is sent a request is nowhere, and one the client refused was never with a handler.
`TicketsInvariant`: who took the ticket of a play is named by its claim, nobody else is
about to write that claim, and only the ticket's window clears it, when the
play is over; from it `TicketsAreTakenOnce`.
`CallsInvariant`: a caller told that its operation was not executed joined no admission,
or one that was never handed over or was refused back, and that is no longer
pending; from it `NotExecutedNeverRuns`. `SweepInvariant`: no copy of a record,
one on its way to the disk included, counts more misses than there is
evidence for since it was last told of the process, and `FileIsFresh`: what the file counts is newer than every
sighting of a sweep that no copy has replaced; from these `ExitIsConfirmed`.
`StopInvariant`: the request that was acted on last is still known as such for as long as it can come
again; from it a stop is told as done only of the play it ended. `WritesInvariant`:
the other writers only add to the text a run expects, or drop the run's own change, and a script
that the run has settled stays settled; from it what the run reports of each script
is what it did. The last needs `ChangesAssumption`: a replacement is not one of the edits, and the
editor's draft is not one of the writers.

Only model-checked, and why:

* All liveness (`Reconnects`, `ResponsesReleased`, `GoneLeave`, `WaitsReturn`, `PortIsTaken`,
  `EndCloses`, `RegistryFollowsClients`): out of the prover's reach.
* `NoLostWakeup` and `NoStrayCancel` are claimed only under the two hypotheses above; without them
  they are false.

Every invariant and every action property that a passing run checks is stated by a theorem.
No module has a RECURSIVE operator.

## Findings

* `studio_unknown`: `canStillSettle` (`bridge-service.ts:1610`) does not ask what
  `ownedOperation` asks (a registered peer behind the transport), so a status
  wait on a request whose client peer left lasts to its deadline, though the
  response was refused and discarded.
* `registry_reclaim`: between `isInspectedLock` and `fs.rm`
  (`managed-instance-registry.ts:272-273`) the lock can change hands; two waiters of one
  abandoned lock can then both run.
* `managed_orphan`: `completeByLaunchId` drops its launch control
  (`studio-instance-manager.ts:1742`) before the released record is written; a
  sweep of the same process in between takes the Studio it just handed over for an
  orphan and stops it, with its owner alive.
* `session_connects`: an Instance left in the group of an earlier test makes the
  server answer that group to a solo play server that names none; the plugin
  takes the answer for invalid and retries for ever.

Seen on the way and not the property of a run, most because no document says what should hold:

* After a plugin reload an edit peer and its predecessor may share a role of one
  Instance in a group until the older one goes stale (`bridge-service.ts:660`).
* A submission that joins an operation ends with the deadline and signal of the call that
  began it (`bridge-service.ts:1290`).
* `multiplayer_test_start` can leave a group without peers, or throw with the test begun
  (`tools/index.ts:4879`).
* An operation's record is evicted without its pending cancellation (`bridge-service.ts:1666`); an id
  used again within its 60 seconds could be cancelled by it, and the slot it frees stay unannounced. It takes 32768
  operations in between.
* The `rm` after a failed write of `owner.json` is unconditional (`managed-instance-registry.ts:243`).
* A release whose `stat`, read or `rm` fails leaves `.lock` with the name of a live process
  (`managed-instance-registry.ts:297-298`, whose comment has it that the lock was "already reclaimed or
  removed"). Its own process reclaims it, for the token is dropped; the others time out until that process ends.
* A waiter that cannot `stat` or remove an abandoned `.lock` tries again at once, without a delay and
  without a look at its deadline (`managed-instance-registry.ts:274-278`).
* A client can stay registered after it left. Its `/disconnect` is handled first, then its `/ready`,
  whose answer is heard first: `queueProxyDisconnect` finds a disconnect pending and does nothing
  (`ClientBroker.ts:512-514`, `582-586`). Nor is anything queued when the answer of that `/ready` is lost. The peer stays for
  the whole play, for `cleanupStalePeers` (`bridge-service.ts:1063-1070`) spares a peer whose
  transport has an open socket, and that is the server's. `RegistryFollowsClients` excepts it.
* Copies of a record that land late, and `reconcileFromPositiveEvidence`, can take newer observations
  back, although older evidence is never to override newer (`managed-instance-registry.ts:505-506`). With two
  misses and a grace of two: the owner's refresh misses the process at 1, a sweep sees it at 2 and
  resets the file, the copy of 1 lands and brings the count of 1 back, a sweep misses it at 3, and it is
  marked exited though it was seen in between. `ExitIsConfirmed` excepts just the sightings that a
  copy replaced.
* `closeProcess` takes one miss for the end of a process that it was asked to stop.
* A client channel whose heartbeats broke after one timeout stays refused though it may work
  (`ClientBroker.ts:775-791`).
* `stop_playtest` says "No active playtest to stop." of a play by hand whose acknowledgement was lost,
  tells a second call that came meanwhile that `EndTest` failed, and a stop made
  before the play's plugin was loaded is never honoured (`StopPlayMonitor.ts:126`).
* A preview that is not the change: an edit that drops the last newline, beside an insertion in the
  empty line after it, makes two hunks, of which the first ends a line without a newline in
  the middle of the file. A comment (`ScriptEdits.ts:140-142`) has it that such a line is only at the
  end; `ScriptEdits.ts:211` looks for text of the source in the next line, not of an edit.
  `DiffIsTheChange` excludes this (`JoinsLastLine`), and with it only an insertion of nothing in
  that place: in every other state it excludes, with texts of up to 3 characters and edits of
  one, the diff is wrong.
* A failed write of a replacement that landed after all and was typed over before it is looked at
  stays, with the status `failed`.

## What is not modelled

* Pure I/O: web clients (`opencloud-client.ts`, `roblox-cookie-client.ts`,
  `roblox-docs.ts`) but for the outcome of an upload, host capture, sign-in, platform adapters
  and launch gates, plugin installation, entry points.
* Pure functions on bytes and trees: image and mesh codecs, `micro-profiler/`,
  `heap-snapshot.ts`, `rbxm-input.ts`, searches of scripts and instances. TLC could check them
  on toy inputs only, where their tests already do better.
* Tables: tool definitions and the argument checks of `tools/index.ts`, of which each
  tool forwards one request; single calls into the Studio API in `handlers/`.
* Payloads, byte limits and counters, wording, authentication, versions, user interface.
* `CooperativeJobRunner`, `CaptureTransfer`, `Recording`, `LuauExec`, `EvalBridges`: one job at a
  time with a budget, without a party to race but their caller's cancellation.

These are most of the lines of the repository: `tools/`, the vendored profiler library,
the host integration, the web clients, the codecs and the handlers of single calls alone are more than half of it. What
decides whether an operation runs once and is told truly is in the modules
above; for parts they model partly, what is left out is said in their section,
and `PROJECT.json` has a note for every component.

## Plan

Done: ledger, delivery, registry, lock, the contract and its refinement, proxy,
election, callers, status waits, stdio, uploads, launches, sweep, broker, tickets,
stop, scripts, and the proof of every safety property the runs check. Left, in order:

1. `ManagedLaunch` over `RegistrySweep` in one specification, with a second launch of the same
   server and the Wine launch gate.
2. `CaptureTransfer`: chunks of one transfer over several relayed calls, over `ClientCalls`.
3. The metadata refresh and `suspendForShutdown` of the plugin socket.
