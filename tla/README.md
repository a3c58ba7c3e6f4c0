# Qujing, formally

A TLA+ model of Qujing's core: what runs concurrently, what is retired when the
configuration changes, and who cleans up when something fails. The modules are
translated from the TypeScript under `src/apps/cli/src/` and the Go of
`src/apps/cli/native/transport/`; paths below without a directory are relative to
the first, `main.go` is in the second. `PROJECT.json` maps every definition to its lines.

    tlc -workers 2 -config PoolSharing.cfg MCRuntimePool     # any run of the table below
    tlapm RuntimePoolProofs.tla                              # the proofs of a component: any <component>Proofs

## 1. The system

Qujing lets a local coding agent (A) ask a coding agent (B) that works in a
workspace on another machine. One ask passes through these parts:

    Agent A -- MCP/HTTP --> local Node MCP            agent-server, agent-mcp, agent-control
                              AgentApplication        agent-application
                                PeerRuntime           peer-runtime   (one per Peer)
                                  Connector (Go)      native/transport/main.go
    ---------------------------- the link ---------------------------------------------
                            Transport (Go)            native/transport, transport/*
                              remote Node MCP         mcp, server
                                RuntimeCoordinator    runtime/coordinator, runtime/sessions
                                  RuntimePool         runtime/runtime-pool
                                    backend           runtime/pi-rpc, runtime/tanstack-acp

The two Nodes share no state; each has a command line that edits its files
while it runs. A Node notices an edit by polling, brings itself to the new
state and acknowledges it in a file that the command waits for. That
handshake, and the retirement of everything the old state allowed, is where
most of the difficulty is.

### 1.1 Components

| Component | State | Operations | Talks to |
|---|---|---|---|
| **RuntimePool** | `entries`, `creations`, `retirements`, `occupied`; an entry's `busy`, `waiting`, `turnGate` | `answer`, `disposePeer`, `disposeWorkspace`, `dispose`, idle sweep | backends through `RuntimeNodeSession` |
| **RuntimeCoordinator** | `desired`, `blockedPeers`, `blockedWorkspaces`, `leases`, gate | `answer`, `reconcile`, `close` | pool, binding files, configuration under its lock |
| **Node configuration** | `config.json`, `tombstones.json` | add, rotate, revoke a peer; add, remove a workspace; set the Runtime | read by coordinator and server |
| **Node lifecycle** (`server.ts`) | `current`, reload fiber, `node-reload.json` | start, poll, reload, shutdown | coordinator, transport, MCP server |
| **MCP session server** (`mcp.ts`) | sessions, slots, request leases, controllers of calls | POST, DELETE, cancel, sweep, `closeCredential`, `close` | coordinator through `qujing.ts` |
| **PeerRuntime** | `session`, `pending` with its count of waiters, scopes | `getSession`, `listWorkspaces`, `ask`, `close` | Connector process, MCP client |
| **AgentApplication** | `runtimes`, `active` leases, `blocked`, gate | `listPeers`, `ask`, `reconcile`, `retirePeer`, `resumePeer` | PeerRuntime, local configuration |
| **Local Node control** (`agent-control.ts`) | retirement request and acknowledgement files | request, wait, resume, acknowledge, clear | both the command line and the local Node |
| **Local Node server** (`agent-server.ts`) | `current`, reload fiber, `agent-reload.json` | start, poll, retire, reconcile, stop | application, control files |
| **Transport supervisor** | the current serve process, its allowlist (`signature`) | start, reload, close, exit watch | `server.ts`; the serve process (Go) through its stdout, exit and signals |
| **Peer manager** (`main.go`, `connect`) | the shared session, `active`, `idleTimer`, `setupMu` | prepare, bridge a connection, idle close, end | the serve process of the other Node through Tailcat |
| **Backend over Pi** (`runtime/pi-rpc.ts`) | `currentTurn`, `pending` commands, last text, the child process | prompt, abort, wait for idle, dispose, read | Pi through stdin and stdout |
| **Backend over TanStack** (`runtime/tanstack-acp.ts`) | `currentPrompt`, `currentAbort`, last text | the same | an ACP harness |
| **Private files, process locks** | lock files | acquire, recover, release, look for the rival | every store; both Nodes and every command |

### 1.2 What is hard, and what makes each part correct

Everything runs as Effect fibers on one JavaScript thread: the interleavings
are those between two suspension points (`yield*` of something asynchronous).
Interruption (an MCP cancel, a timeout, a closing scope) may hit a fiber at any
suspension that is not `uninterruptible`. Processes (Node, command line,
backends, Connectors) die on their own.

* **RuntimePool.** An entry can be retired by a turn that lost its backend, the
  next ask in its queue, an eviction, the idle sweep, the disposal of its scope
  or that of the pool, while asks queue for it and its own creation may not have
  ended. A slot passes from the evicted entry to the creation that replaces it.
  Correct when `occupied`, `waiting` and `busy` say what is there, the maps agree,
  every backend is disposed of by somebody and never under a turn, no prompt is
  sent twice, and every wait ends.
* **RuntimeCoordinator, configuration, lifecycle.** Asks are admitted against a
  configuration that a command changes in two writes while the Node reconciles
  the one before. Correct when nothing of a removed scope works or survives once
  the change is acknowledged, other scopes lose nothing, an id that comes back
  starts empty, and the acknowledgement comes.
* **MCP sessions.** Five paths remove a session, while other requests are in it
  or opening it; identities are checked twice because a body takes time to read.
  Correct when slots and leases count what is there, no session leaks or keeps a
  name after its end, a closed credential is quiet, and a call whose session is removed
  is aborted unless another call of it used the same id.
* **PeerRuntime.** Callers share one bootstrap, and any may leave; the last one
  aborts it. Calls fail late and `close` comes at any time. Correct when there is
  one Connector, each is closed but for a session whose closing was itself cut, an old
  call never drops a new session, and every request ends.
* **Local Node.** A command replaces a Peer's credential only after the running
  Node has acknowledged that it retired the old one; both may die, time out, or
  meet files of an earlier exchange. Correct when a Peer never uses two
  credentials at once, but for what a cut call had begun to retire, and an
  acknowledgement can be relied on.

* **Backends.** A session outlives its turns, and a turn may be cancelled, or the
  session retired, at any moment of the exchange with a process that may not
  answer. Correct when a turn finds nothing of another, what waits for a dead process
  fails, and a stopped session leaves no process.
* **Locks.** A lock is a file; its owner may be dead, and every call of taking,
  recovering and releasing it may be the last one of its process. Correct when one
  attempt has it, the file says which, a Node and a maintenance exclude each other,
  and what dead processes left never blocks for ever.
* **Transport.** A changed allowlist replaces the serve process under the connections
  of all peers, while it may die, the Node may stop, and peers set up connections
  one at a time. Correct when a removed key is cut off and one process serves at a
  time, but for what a Node on its way out has left; a Node does not stay
  unreachable; no connection is set up for ever or loses its session while it is used.

The list of hazards, each with its line and the properties that cover it, is in
`PROJECT.json`.

## 2. The modules

| Module | Models | Checked by | Proved in |
|---|---|---|---|
| `RuntimePool` | `runtime/runtime-pool.ts` | `MCRuntimePool` | `RuntimePoolProofs` |
| `RuntimeCoordinator` | `runtime/coordinator.ts`, `runtime/sessions.ts`, edits of `config.ts`, `server.ts` | `MCRuntimeCoordinator` | `RuntimeCoordinatorProofs` |
| `McpSessions` | `mcp.ts` | `MCMcpSessions` | `McpSessionsProofs` |
| `PeerRuntime` | `peer-runtime.ts` | `MCPeerRuntime` | `PeerRuntimeProofs` |
| `FileLock` | the locks of `private-files.ts`, `process-lock.ts` | `MCFileLock` | `FileLockProofs` |
| `PiRpc` | `runtime/pi-rpc.ts`, the abort of `runtime/runtime-pool.ts` | in `RuntimeBackend` | `RuntimeBackendProofs` |
| `AcpSession` | `runtime/tanstack-acp.ts` | in `RuntimeBackend` | `RuntimeBackendProofs` |
| `RuntimeSession` | `runtime/session.ts`: the abstract session | refined by `RuntimeBackend` | `RuntimeBackendProofs`: that it is refined |
| `RuntimeBackend` | the choice between both backends in `server.ts` | `MCRuntimeBackend` | `RuntimeBackendProofs` |
| `TransportSupervisor` | `transport/supervisor.ts`, `transport/process.ts`, their use in `server.ts` | in `TransportLink` | |
| `PeerManager` | `connect` of `main.go` | in `TransportLink` | |
| `TransportLink` | both ends and a peer's key between them | `MCTransportLink` | `TransportLinkProofs` |
| `AgentPeers` | `agent-application.ts`, `agent-control.ts`, `agent-server.ts`, the Peer edits of `agent-config.ts` and `cli.ts` | `MCAgentPeers` | `AgentPeersProofs` |

An MC module only gives TLC its model values, sets and symmetry.

All modules use one reading of the code: **a step is what a fiber does between
two suspension points**, so several fibers interleave exactly where the code can
be suspended, and a value read before a suspension is a variable of its own when
it is used after it. Where a lock or gate excludes every other reader of what a
fiber touches, its critical section is one step.

Definitions beginning with `(* Fault: ... *)` are deliberate errors. No
specification uses them: put in the place of the definition they vary, each must
make TLC find a violation, which shows that the property can fail.

### 2.1 RuntimePool

A *runtime* is one attempt to serve a session: it is created, becomes an entry
and is retired. Its `phase` says where it is:

    gone -> forked -> started -> ready -> (aborting ->) disposing -> gone
               \        \-> late -> gone
                \-> gone          ready -> evicted, disposed of by a forked one

`forked` is a fiber of `createEntryEffect` that first disposes of its `victim`,
`started` one that has a backend, `late` one whose backend is refused because its
scope was retired meanwhile. `proc` is the backend itself: up, dead by itself, or
lost when its disposal failed. An ask is at `entry` (in `getEntryEffect`),
`joining` a creation, `queued` at the turn gate, or in its turn; its `at` is the
entry it holds. `disposal` is one `disposePeer`, `disposeWorkspace` or `dispose`:
it refuses new creations of its scope, waits for the ones there are, retires
entries, and `dispose` then drains the retirements others began.

Abstractions: `lastUsed` is not kept, so an eviction may take *any* idle entry
(least recently used is one of them); a timer may fire at any time it is armed; a
scope is the set of sessions of a peer or of a workspace; text of questions and
answers is left out.

### 2.2 RuntimeCoordinator

`config`, `tombstones` and `edit` are the disk and the command that holds the
mutation lock: a removal writes the tombstone first and the configuration second
(`config.ts:314`), and the command may die in between. `ack` is
`node-reload.json`. `reload` is the fiber of `server.ts:141`, one stage per
suspension: block and cancel, dispose, list the bindings, remove them, unblock,
reload the transport, publish `current`, acknowledge. An ask is admitted, reads
its binding, writes it (`touch`), prompts and settles its lease. A write whose ask was
cut is finished later; `revived` remembers the bindings such writes brought back after
a purge (a history variable).

An admission is one step: it holds the coordinator's gate and the configuration
lock from its first read to its lease. The pool below is replaced by what
`RuntimePool` establishes: at most one backend per session in use, a creation
that outlives the ask that began it, and a disposal that leaves nothing of its
scope. Credentials are versions; a workspace's root never changes (no command
changes one). The transport admits the credentials it was last started with. The
wait of `closeCredential` for MCP requests is left to `McpSessions`.

### 2.3 McpSessions

A request is a fiber of `routeEffect` and is never interrupted: HTTP clients that go
away do not stop it. Its steps: take a lease for an identity that was read before and
may be replaced by now (of any version there has been; without a lease the request
leaves nothing), read the body, authenticate again, find or reserve a session, run the
handler of the MCP library (external: it returns, opens a session or fails), return. A
call has an id that its client chose (`callId`), and its session keeps one controller
for each id: a call whose id is in use takes the other's place, and either removes
what is there when it ends (`mcp.ts:578`, `585`). `calls` are the calls whose
controllers are registered, `clashed` (a history variable) those that ever shared an
id with another call in progress. `Cancel` is a notification from another request of
the session. `closeCredential` and `close` collect the leases to drain and may time
out waiting for them.

### 2.4 PeerRuntime

`boot` is the life of one bootstrap and of the session and Connector it ends in;
all three share a scope. `pending` and `waiters` are the fields the callers share.
An aborted bootstrap goes to `aborting` and is `gone` only when its scope has
closed. A caller that failed awaits the settlement of its call, and then drops
the session if it is still the one it used. Closing a scope runs in whoever drops the
session or closes the runtime, and is cut when that is interrupted or when the timeout
of `closeScope` passes (`CutDrop`, `CutClose`): a session is then `left`, and nobody
closes its Connector. A bootstrap is undone by a fiber of its own, which is not cut.

### 2.5 AgentPeers

`cli` is a command that adds, rotates or removes a Peer: clear the old
acknowledgement, publish a request, wait, commit, wait for the reload. It may give
up at every wait and die at every step. `gate` is the semaphore of the
application with its holder, because `reconcile` and `retirePeer` wait for leases
and for runtimes to close while they hold it. `live` are runtimes not yet closed,
whether or not they are still in the map. A call that is interrupted while it retires
stale runtimes (`Cut`) gives the gate back and leaves those it has not closed: they
are out of the map, their calls go on, and nobody closes them before the Node ends
(`left`). A runtime is external: its `close` succeeds, or fails and stops the Node.
`promised` is a history variable: requests acknowledged by the process that runs now.

### 2.6 FileLock

An *attempt* is one run of `acquirePrivateLock` up to its release; it is also the
nonce of the file it links. Its stages are single calls: link, read, rename aside,
read again, link again, remove; other processes come in between any two. `file` is
what lies under a lock's path and `aside` what lies under `path.recovering`: an
attempt's lock, one of a process that died before (`Stale`, `Older`), or a file
without a readable owner (`Torn`). The initial states are everything dead processes
may have left in both places. A live owner is waited for, a young file too; a process
may end at every step and leaves its files.

`withPrivateLock` runs what it protects while the attempt is `held`. A Node and an
offline maintenance take their own lock first and then look for the other's
(`rival`, `pending`, `again`).

Where a path is not in `Races`, one thing is left out: a process that comes to a lock
while a live one recovers it. There the lock excludes and can be relied on; the run
`lock_race` shows what happens otherwise, and the theorem `LocksExclude` (4), for any
`Races`, by which steps alone.

### 2.7 Backends

`RuntimeSession` says what the pool may rely on: one turn at a time, what the session
says belongs to the turn under way, a closed session says nothing. `PiRpc` is the
implementation over a Pi process: `stdin` and `stdout` are queues, a command has an id
that says who awaits which answer, and the reader takes one line at a time. Two
fibers use it: the one that asks (and aborts when it is interrupted), and the one
that retires it, as `runtime-pool.ts` has them. Pi is external: it answers or
refuses, is silent, writes rubbish, ignores SIGTERM, or dies. `AcpSession` is the
other implementation: a run of a harness, its abort controller, its end.
`RuntimeBackend` lets `kind` choose one; both refine the abstract session under the
same mapping: `open` is `~stopped`, the answer is the text kept, or none once stopped.

### 2.8 Transport

`TransportSupervisor` is the Node's end. `reload` goes through closing, starting,
storing and acking; `serves` is the life of every serve process, spawned or killed by
the supervisor, ending when it likes. A Node that stops, for any reason, cuts the
reload where it is, and the reload then refers to no process it was closing, refusing
or about to store: the shutdown neither waits for those nor kills them. They are
`left`, as are those of a Node that dies or is forced out; they may live beside the
processes of the next run, with an old allowlist, and end when they like. A fatal
error before the first reload of a Node has ended does not interrupt that reload in
the code; the model cuts it like any other. `PeerManager` is a peer's `connect` process: a bridge per local
connection, acquired, pinged under `setupMu`, dialled and released, and idle timers
that may have fired before they are stopped. A timer has the name of the bridge that
started it, a session that of the bridge that created it.

`TransportLink` composes them: the routes the peer manager pings and dials over are
the serve processes that are ready and allow its key; an open connection takes one of
them and is carried as long as that process lives.

## 3. The runs

Deadlock is checked unless a process that has ended may leave nothing to do:
`mcp_sessions`, `file_lock`, `lock_race`, `runtime_backend` and `transport_link`.

| Run | Configuration | Question | Result |
|---|---|---|---|
| `pool_sharing` | `PoolSharing.cfg`: 2 asks, 2 sessions of different peers, 1 slot, queue of 1, 5 runtimes | Do slots, queues, maps and backends stay accounted for through evictions, joins, retries, sweeps and disposals? | holds |
| `pool_failure` | `PoolFailure.cfg`: 1 ask, aborts and retirements may fail or time out, 3 runtimes | Does a failure leave only what it reports, and does every ask, retirement and disposal end? | holds |
| `coord_scopes` | `CoordScopes.cfg`: 2 asks of one key, two Runtimes, every edit, crashes of Node and command | Is a scope quiet while it is purged, does nothing of a removed scope outlive the acknowledgement, whatever an interrupt hits, does everything else survive? | holds |
| `coord_live` | `CoordLive.cfg`: 1 ask, a peer and a workspace that start absent | Are edits acknowledged, does shutdown end, does an id come back empty? | holds |
| `mcp_sessions` | `McpSessions.cfg`: 3 requests, 2 credentials, one slot and one rotation each, 2 call ids | Do slots and leases agree with what there is, is a closed credential quiet, does no session leak, is a call of a removed session aborted? | holds |
| `agent_peers` | `AgentPeers.cfg`: 1 Peer, 2 calls, 2 new versions, 2 retirement requests | Is one credential in use at a time, also as a retiring call is cut, and can the command rely on the acknowledgement? | holds |
| `peer_runtime` | `PeerRuntime.cfg`: 3 callers, 2 bootstraps | Is there one Connector, is none lost but by a closing that was cut, and does every request end? | holds |
| `file_lock` | `FileLock.cfg`: two attempts in two processes, over anything that was left before: two Nodes, or a Node and a maintenance, without races; two configuration locks with | Does a lock's file tell its owner, do Node and maintenance exclude each other, does an attempt that is alone get the lock whatever races and deaths left? | holds |
| `runtime_backend` | `RuntimeBackend.cfg`: either backend, 2 turns, 2 unread messages | Are turns kept apart, does every wait for a dead Pi fail, is a stopped Pi killed, do both backends implement the session? | holds |
| `transport_link` | `TransportLink.cfg`: one key, one edit, 2 serve processes, 2 connections | Is a removed key cut off and does one process serve at a time, but for what a Node has left, does nothing stay unreachable, open or undecided for ever? | holds |
| `coord_lease_leak` | `CoordLeak.cfg` | An interrupt right after admission | violates `EditsAcknowledged` |
| `lock_race` | `FileLockRace.cfg` | Two processes recover one lock at once | violates `Exclusive` |

### 3.1 Bounds

* **Pool.** One slot makes the two sessions compete for it, which is what eviction
  is about; a queue of one is full as soon as one ask waits behind the first.
  `Runtimes` are reused once `gone` and forgotten. The 5 ids of `pool_sharing` are
  never all in use when a creation could begin (TLC checked it; 4 would do in
  `pool_failure`); with the 3 of `pool_failure`, which keep liveness checking
  short, an ask may find none free while a disposal still remembers old fibers,
  and then waits for its end or its own timeout.
  `MayFail` separates the failing outcomes, which stop the
  Node, from the run that explores sharing in depth; the theorems hold with both.
* **Coordinator.** One peer and one workspace make one key: with it an edit either
  concerns the ask or changes something else of its scope. `MaxRotation` 2 allows a
  credential that was rotated and one that was added after a revocation.
  `FirstPeers` and `FirstSpaces` are what the first configuration holds: with
  nothing in it, the run covers an addition from the start. `Cuts` names the two
  unguarded points of an ask an interrupt may hit: right after the admission
  (`admitted`) and during the write of its binding (`writing`). `coord_scopes` has
  both; the first breaks liveness (`coord_lease_leak`), so `coord_live` leaves it out.
  `coord_live` uses one Runtime: with two they could be exchanged for ever while
  a reload is under way, and nothing would be left to acknowledge.
* **MCP.** Three requests and two leases: one is refused; two credentials with one
  slot each and two in all: the credential's limit and the server's both refuse.
  `MaxRotation` 1: one identity is stale, one is not. Two ids of calls: equal ones
  replace each other, different ones do not. `MaxActive` is kept below the
  number of requests so that refusal happens; production limits are 64, 16, 32, 4.
* **AgentPeers.** `MaxVersion` 3 and `MaxRequests` 2: an edit can follow another
  one while the Node still works on the first, which is what an acknowledgement
  taken for another request needs.
* **PeerRuntime.** Three callers: two share a bootstrap while one joins, leaves or
  still uses the session before. Two bootstraps: the second replaces a session
  under a call of the first.

* **FileLock.** Two processes; each lock path may have been left free, with a dead
  owner's file or a torn one, and so may its aside. Which attempts come together is
  bounded (`Parties` of `MCFileLock`): two Nodes, a Node and a maintenance, or two
  patient attempts of one configuration lock; `Races` holds the last one's path. Three
  at once (two Nodes and a maintenance) take TLC more than 5 minutes. The age of a file is left open: a young file
  without an owner may be waited for or not.
* **Backends.** Two turns: the second meets what the first left. Two unread messages:
  a text and a settlement of a cancelled turn may both wait behind a response. A
  session accepts one more prompt at a time, so a third turn adds nothing that a
  second does not.
* **Transport.** One key that is on the allowlist or not, one edit, two serve
  processes: the one that is replaced and the one that replaces it, or the one of the
  Node that is started again. Two connections: one is released, or has its timer
  fired, while the other acquires the session. Every reload, the first one of a Node
  too, may be cut at each of its stages.

### 3.2 Fairness

No module assumes that a user asks, a client cancels, a timer fires, a command
finishes, a process dies or a Node is stopped or restarted. Assumed is:

* `RuntimePool`: weak fairness of every continuation of an ask, of the steps of
  creations and retirements and of disposals, since the Effect scheduler runs
  ready fibers and `createSession`, `abort` and `dispose` have timeouts. Also of
  `Interrupt`: the ask timeout cuts every ask that does not end
  (`answerEffect` races each ask against `ASK_TIMEOUT_MS`). Whether a backend ever answers is left open.
* `RuntimeCoordinator`: weak fairness of an ask's continuations, of the reload
  fiber (it polls for ever), of the start and of the end of a shutdown.
* `AgentPeers`: strong fairness of the reload fiber, because calls take the gate
  again and again and the semaphore serves its waiters in turn; weak fairness of
  the steps under the gate, of an admitted call, and of a call's end, which its
  timeout forces.
* `PeerRuntime`: weak fairness of a bootstrap, of a call and its settlement, and of
  `close`; each external step has a timeout in the code.
* `McpSessions` states safety only.
* `FileLock`: weak fairness of every attempt's own loop; strong fairness of its
  deadline, which comes round in every loop, and of the recovery of a file that
  stays, which becomes old. Nobody need release a lock.
* `RuntimeBackend`, over Pi: weak fairness of the reader, of each fiber's
  continuation and of the two signals, and of the end of a process that got SIGKILL.
  Pi need not answer, and may ignore SIGTERM. `SessionSpec` and the TanStack backend
  need no fairness.
* `TransportLink`: weak fairness of the steps of a reload, of the exit watch and of the
  shutdown, and of the end of a signalled process (`forceKillAfter`); of every
  attempt of a bridge, its release and its timer. Strong fairness of `GiveUp`, because
  a bootstrap has a deadline of 35 seconds whatever its attempts do, and of `LockSetup`,
  because Go's mutex hands over to a waiter that starves. Pings, dials and serve
  processes may fail for ever.

### 3.3 What the violations show

* **`coord_lease_leak`** (`runtime/coordinator.ts:137`). The lease is registered
  inside the gate and the lock, and `Effect.ensuring` that settles it is attached
  after both were released, which takes file I/O. An interrupt in between leaves a
  lease that no one settles; the next reconciliation of its scope waits for ever.
* **`lock_race`** (`private-files.ts:259`). Two processes found the same dead owner. The
  first renames its file aside and links its own; the second, which had read the
  owner before, renames that one aside too. When it notices, or before, the first
  removes what lies aside and both return with the lock. A test of the repository
  says that concurrent recovery is serialised
  (`apps/cli/tests/private-files.test.ts:129`).

### 3.4 Known limits of the code

Where a property bounds such a case, or a constant keeps it out of the passing runs, it is named.

* An ask cut during `touch` settles its lease while its atomic write goes on; the
  purge removes the binding and the rename brings it back (`runtime/sessions.ts:61`).
  The reload itself may cut the ask, when it closes the credential of a removed peer
  (`server.ts:151`). `BindingsRetired` says that nothing else brings a binding back
  (`revived`); the next purge takes it.
* Calls of one MCP session with equal ids replace each other's abort controller, and
  the one that ends first deletes the other's (`mcp.ts:578`, `585`): a call may then lose
  its session without being aborted, which `RemovedCallAborted` excepts (`clashed`).
  MCP demands unique ids of its clients; the server does not check it. What closing
  the library's server does to such a call is external.
* A call of a Peer that is interrupted, or runs into its timeout, while it closes the
  session it drops leaves that scope half closed, and so does a cut `close`
  (`peer-runtime.ts:363`, `139`): no one closes the Connector any more, and whether it
  had its SIGTERM is left open. `ConnectorsOwned` says that this is the only way, and
  that no session in use and no bootstrap is left so.
* A stale runtime leaves the map before its calls have settled and it is closed. If
  the call that retires it is interrupted there, nobody closes it before the Node ends,
  and the next call opens one with the new credential beside it
  (`agent-application.ts:253`). `OneCredential` says that such runtimes (`left`) are of
  replaced versions, and that besides them there is one version.
* Scopes are unblocked before `current`, from which the session factory takes the
  Runtime, is set: an ask in between starts a backend of the old Runtime that nothing
  retires (`server.ts:158`).
* An aborted bootstrap stays `pending` until its scope is closed; a caller that comes in
  meanwhile joins it and is told that it was cancelled, which nobody asked for;
  `list_peers` passes that on for all Peers (`peer-runtime.ts:200`).
* A reload of the transport refers to no process while it closes the old one, refuses
  the new one, or has still to store it (`transport/supervisor.ts:59`, `71`, `76`). Cut there,
  by the shutdown of the Node (`server.ts:171`) or by an error of its own, it leaves
  that process, and `closeEffect` neither waits for it nor sends it SIGKILL
  (`transport/supervisor.ts:103`). A Node that is killed outright leaves its own. What is
  `left` may serve an old allowlist beside the next run of the Node; `OneServer` and
  `AllowlistEnforced` say that nothing else does.
* An idle timer that fired before it was stopped forgets the one that was started
  since, and may close an idle session before its second is over (`main.go:268`). No
  session in use is closed by it.
* An ask that is interrupted while Pi is about to refuse its prompt leaves `currentTurn`
  set: the abort waits for a turn that never began until its timeout, which is fatal
  to the Node (`runtime/pi-rpc.ts:255`).
* A line `null` on Pi's stdout ends the reader by a defect, without failing what waits
  (`runtime/pi-rpc.ts:348`); the deadlines of the pool end those waits.
* A TanStack session's `dispose` does not wait for the harness, and an abort that comes
  back as anything but an AbortError is fatal (`runtime/tanstack-acp.ts:136`).
* A patient attempt measures the wait for an incomplete lock from its own beginning,
  so it may report the lock busy early (`private-files.ts:333`). `AloneGetsLock`
  therefore excepts an attempt that could not tell the owner.
* A release that finds its lock renamed aside leaves it there, and the repair of an
  interrupted recovery may rename a dead owner's file over a lock that has just been
  linked (`private-files.ts:316`): both need the race of `lock_race`. A live process
  may thus leave a lock that it does not release before it ends: `AloneGetsLock`
  excepts an attempt that meets one.
* The idle sweep disposes of an entry outside the gate; with a slot free, a new ask
  of that session starts a second backend beside it (`runtime-pool.ts:506`).
* A workspace added, asked and removed between two polls is not seen as an edit, so
  its work is not retired (`server.ts:147`; with an empty `FirstSpaces`, `ScopesRetired` and
  `BindingsRetired` fail). So is a peer that is added, asked while the reload that let it in
  has still to acknowledge, and revoked again: what it says then is what was acknowledged
  before (with an empty `FirstPeers`, the same two fail).
* The purge keeps the bindings of the configuration its reload read; a workspace
  added since may lose the binding its first ask created (`coordinator.ts:248`; with an empty
  `FirstSpaces` and two peers, one of them rotated, `BindingsKept` fails).
* A `notifications/cancelled` that arrives before its call is registered is
  dropped (`mcp.ts:567`).
* A local Node that restarts while a command holds the acknowledgement of its
  predecessor does not block the Peer again (`agent-control.ts:99`). `OneCredential`
  bounds the effect: the next reconciliation retires the old credential first.
* The Node removes both control files with whatever they hold by then
  (`agent-control.ts:125`): a newer request may be lost, its command times out, and a
  Peer whose cancelled request was lost stays blocked until it is edited. TLC
  finds such a block with two Peers.
* `disposePeer` does not wait for retirements already under way (`runtime-pool.ts:401`).

## 4. The proofs

`RuntimePoolProofs` proves every safety property of `RuntimePool` for any finite
set of asks, any sessions and scopes, any number of slots and any queue capacity,
with and without failures. It rests on `PoolAssumption` alone: the asks are a
finite set, the runtime ids are natural numbers, slots and
capacity are at least what the code's schema demands, and `None` is nobody.

No property is inductive by itself. The invariant `IInv` joins them with what
they need of each other:

| Conjunct | Why it is needed |
|---|---|
| `TypeOK` | the domains of everything else |
| `Shape` | an ask points at a runtime exactly when it is past `entry`, and at an entry, not a creation, once it is queued; a creation has a session; only `forked` has a victim |
| `MapsAgree` | `Remove` and `Abandon` clear the map of the runtime they take, and no other; a victim is freed by one creation |
| `SlotsAccounted` | a proof about a count: each action moves at most one runtime in or out of the phases that hold a slot |
| `QueueCounted`, `PlacesBounded` | `waiting` is the cardinality of the queue: a dequeue never goes below zero, and zero means nobody waits |
| `OneTurn`, `BusyInTurn` | the turn gate has one holder and `busy` says that its turn has begun, so ending a turn clears the flag of nobody else |
| `PromptedInTurn` | an ask has prompted once exactly while it is in its turn: no path leads from there back to `queued` |
| `BackendsOwned` | a phase that holds a backend is left only by disposing of it, or by a reported failure |
| `Closing` | what `dispose` has achieved at each of its stages, so that its end means empty |

`TypeStep`, and one lemma for each group of conjuncts, show that every action
preserves it; then `Inductive` states `Spec => []IInv`, and from it follow
`TypeCorrect`, `SlotsAlwaysAccounted`, `QueueAlwaysAccounted`, `MapsAlwaysAgree`,
`PromptedAtMostOnce`, `BackendsAlwaysOwned`, `UsedBackendsAborted` (an action property),
`BackendsAlwaysBounded` and `ClosedAlwaysEmpty`.

`PeerRuntimeProofs` proves the safety properties of `PeerRuntime` for any finite set
of callers and any number of bootstraps, from `PeerAssumption`. Its `IInv` is:

| Conjunct | Why it is needed |
|---|---|
| `TypeOK` | the domains |
| `Links` | a session and a pending bootstrap exclude each other and are in the state their field says; a closed runtime has neither; a caller that waits or calls refers to a bootstrap that was begun |
| `OneInUse` | the pairwise form of `OneConnector`, without a cardinality |
| `Counted`, `AbortedAlone` | the two halves of `WaitersCounted`: the second follows from the first when the last waiter leaves |
| `ConnectorsOwned` | what is left was a session and is none any more; with `Links`: when nothing is pending and there is no session, nothing is coming up or open, so `BeginBootstrap` begins the only one |

The count is about the set `Waiters(stage, on, b)`; `WaiterLeaves`, `WaiterJoins` and
`WaitersKept` say what one caller's step does to it. `OwnSessionsDropped` is an action
property: only `close`, or a call that used the session, takes it away.

`TransportLinkProofs` proves the three safety properties of a peer link, for any keys,
any finite set of connections and any bound on edits and serve processes, from
`LinkAssumption`. Two invariants meet in a third:

| Conjunct | Why it is needed |
|---|---|
| `LastLives` | no process is spawned while another one that is not left may still live, so of two such that live each is the last |
| `Owned` | what lives at each stage of a reload, and is not left, is the current process, about to be it, or told to end: a Node that stops in between ends it or leaves it |
| `Allowed` | the allowlist of the current process, `signature`, and the acknowledged configuration follow each other through a reload |
| `Counted` | `active` is the number of bridges that use the session: it is zero when the timer's function looks only if nobody does |
| `Sessions` | those that use a session all use `peer`, which is not closed; a name that was closed is not used again |
| `Let` | an open connection goes through a process that was spawned with its key, and a process keeps its allowlist |

`SInv` (the first three) and `CInv` (the next two) are each kept by the steps of their
own end and do not see the other's; `Let` needs both. From `SInv` follows
`OneServerAlways`, from `CInv` `SessionsInUseAlwaysOpen`, from all of them
`AllowlistAlwaysEnforced`. None of them assumes anything of when a reload is cut.

`RuntimeCoordinatorProofs` rests on `CoordinatorAssumption`: there is a Runtime
configuration, peers and workspaces have different ids, and `None` is no number. Its
invariant has three layers, because its properties do not all hold of the same code:

| Layer | Conjuncts | Why they are needed |
|---|---|---|
| `IInv`, no assumption | `Types`, `Leased` | a lease has the session of its key, with a number that was drawn |
| | `AtRest` | a Node that starts finds nothing at work, and only one that is up reloads |
| | `Blocked` | between the gate section of a reconciliation and its end the affected scopes are blocked, and whoever worked for them then is waited for; so `ScopeQuiet` begins with an empty wait and nobody enters |
| | `ScopeQuiet`, `Fresh` | a peer in no config and without a tombstone has no binding, ask, backend or late write: that makes `NewPeerStartsEmpty` a property of one step |
| `RetiredInv`, with `NothingAdded` | `Chain` | the configs acknowledged, desired, next and in force each serve no more than the one before, and a credential that survives is no older; the affected ids are those of desired and next |
| | `Served` | whatever is at work is served by the desired config with its credential: at `Unblock` because it is not affected (`Unaffected`), at an admission because the credential in force lies between the allowed and the desired one |
| with `NothingAdded` | `Outlived` | a write that outlives its ask writes the session its key has, or had before a purge for good: it changes no binding |
| | `Bound` | a touch that writes finds the binding it read (`PurgeSpares`: a purge takes nothing that is in use), and a purge leaves a binding only for what the next config serves, or a late write brings it back (`revived`) |

`ScopesQuietWhilePurged` and `NewPeersStartEmpty` follow from the first layer, for any
edits and cuts; `AcknowledgedScopesRetired` from the second; `AcknowledgedBindingsRetired`
and `BindingsAlwaysKept` from the third. `NothingAdded` says that every peer and workspace
is in the config from the start, as in the run `coord_scopes`, so that rotations, changes of
the Runtime and removals are all that happens to it. It is not there for convenience:
`configFingerprint` cannot see an edit that was undone, and TLC refutes the three
properties without it (3.4). An interrupt may hit every point of an ask: `Cuts` is any.

`McpSessionsProofs` proves all four properties of `McpSessions` for any finite sets of
requests and entries, any credentials and any limits, from `McpAssumption`:

| Conjunct | Why it is needed |
|---|---|
| `Standing` | identity, entry and lease of a request follow from where it stands: the leases and users that are counted are those of requests past a certain point |
| `CountersAccounted` | four counts, each the cardinality of a set that a step changes by one, or by a whole credential (`Loses`) |
| `Draining` | a closed server has taken its sessions away and waited for every lease |
| `Named` | an entry without a name has a request that is opening it, so every entry can be deleted |
| `Keyed` | a call in progress that shared its id with no other has its controller under that id |
| `OldDrained` | who acts with a credential retired since is among those its closing waits for; when it returns nobody is |

The lemmas `SessionSteps`, `Opens` and `Released` say what any step may do to the
maps, so that the counts are about four kinds of step and not about thirty actions.
`RemovedCallsAborted` is an action property of the same invariant.

`AgentPeersProofs` proves the three safety properties of `AgentPeers` for any Peers, calls,
versions and requests, and wherever a call is cut.

| Conjunct | Why it is needed |
|---|---|
| `Gated` | the gate has the holder its stage says, and an ended process holds nothing |
| `Known` | a live runtime is in the map, being retired or left, and a lease keeps its runtime live: whoever retires a version knows all of it, so of two versions one is gone |
| `BlockedOut` | a blocked Peer has no runtime and only its own retirement runs; `BlockedQuiet` adds `Known` to it |
| `Replaced` | what is left, or was taken out of the map as stale, is of a version the config has no more |
| `Editing` | what a command read is still the config when it commits |
| `Ids` | request ids are fresh: neither an acknowledgement nor a promise can be about a request still to come |
| `Promise` | from the acknowledgement on the Node has no other request in hand and the Peer stays blocked, whatever was overwritten or removed before |

`FileLockProofs` is about any paths, attempts and processes and whatever locks dead
processes left. `LockAssumption` demands that rivals are mutual and not themselves.

| Conjunct | Why it is needed |
|---|---|
| `Living` | nothing of a process runs once it has ended |
| `OneRecoverer`, `Grounds` | on a path outside `Races` one attempt recovers, what it has read is still there when it renames it, and the path is empty until it links its own file |
| `LockTellsOwner` | with them: linking never meets an owner that lives |
| `Apart` | of two attempts that look for each other's lock, each with its own taken, at most one has found nothing |

`LocksExclude` is about any `Races`, so every process may come in between of every
recovery: a lock has one owner at a time as long as no recovery is *overtaken*, which is
to rename a lock aside that is not the one it has read, or a file back to where a lock
lies by now. Nothing else in taking, recovering, repairing or releasing a lock leads to
two owners; that being overtaken does is what `lock_race` shows. Its invariant, `Kept`,
needs no `OneRecoverer`: each owner's nonce is under its path, and whoever is about to rename has
read a dead owner. `NodeExcludesMaintenance` assumes that the paths that have a rival are
not in `Races`, as the run `file_lock` does; `LocksTellOwners` that of the path it speaks of.
The code does not exclude the race (3.3): what is proved is that nothing else goes wrong.

`RuntimeBackendProofs` proves `TurnsApart`, for any number of turns and any contents of
the pipes, and the refinement of `RuntimeSession`. `TurnOpen` serves both backends; over Pi a
turn is followed through both pipes: a fiber awaits the last command it sent (`Awaited`),
nothing in the pipes is of a turn to come (`Past`), and while the session is not stopped
prompt, run, messages and end come one after the other (`OneAfterOther`), are of the turn
under way (`Belongs`), and a refused prompt leaves none of them (`Refused`). Under the mapping
`open <- ~stopped`, `turns <- turns`, `turn <- turn`, `answer <- IF stopped THEN 0 ELSE text`
the initial states map to the initial state, and each step of either backend to the
beginning, an answer, the end or the stop of a turn, or to a stutter
(`BackendsImplementSession`). Its fairness is no part of the refined specification.

Every invariant and every action property that a run checks is now stated by a theorem.
Only model-checked: the liveness properties, since fairness and ENABLED are beyond the
prover (`AsksSettle`, `BackendsRetire`, `DisposalsEnd`, `NodeResponds`, `ReloadsAcknowledged`,
`RequestsEnd`, `AloneGetsLock`, `DeathEndsCalls`, `StoppedIsKilled`, `NodeReachable`,
`IdleSessionsClose`, `BridgesEnd`). The inductive invariants were checked with TLC on the
instances of the runs before they were proved.

## 5. Not modelled

* **Atomic writes, permissions** (`private-files.ts`): a JSON file is written in one step
  wherever that is not itself the question. The stores of
  `runtime/tanstack-persistence.ts` are such files.
* **Keys of the transport**: their creation, validation and files.
* Rotation of the local bearer, initialisation, the wait of the command for
  `node-reload.json`, files one of which a reader sees old and the other new.
* `cli.ts` beyond the edits, `doctor*.ts`, `service.ts`: commands that run from top to
  bottom and print. `schemas.ts`, `errors.ts`, `paths.ts`, `credentials.ts`, `qujing.ts`: parsing,
  validation, formatting and delegation. `install.*`, `scripts/`: packaging. None has
  state that several steps share.
* Text: questions, answers, prompts and reports appear as the turn or ask they belong
  to.

## 6. The plan

Done, in this order: `RuntimePool` and its proofs, `RuntimeCoordinator`,
`McpSessions`, `AgentPeers`, `PeerRuntime` and its proofs, `FileLock`, the backends with
their refinement, the transport with its composition; then the proofs of all of them.

Next:

1. *Refinement*: a pool of backends per session, as the coordinator assumes it,
   implemented by `RuntimePool` under the mapping of `phase` to running and
   starting sessions; a runtime that calls can lease and somebody closes, as
   `AgentPeers` assumes it, implemented by `PeerRuntime`.
2. *Proofs* of those refinements, in the proof modules of `RuntimePool` and
   `PeerRuntime`: the invariants there are what the mappings need.
