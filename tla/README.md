# edge-gateway: a verification project

`edge-gateway` is one process: a TLS listener for Cloudflare-facing traffic that
routes requests to WebSocket, gRPC and HTTP backends on the loopback interface,
blocks abusive client addresses, and keeps its certificates current by ACME. This
directory models the parts of it in which several tasks, files or peers meet,
checks them with TLC, and proves the most important results for every value of
the constants with TLAPS. Paths below are relative to `src/src/` of the repository.

## 1. The system

| component | state | operations | correct when |
|---|---|---|---|
| IP blocking runtime (`security/ip_blocking.rs`) | durable snapshot and temporary table (two `ArcSwap`), pending activations (mutex), violation windows (sharded mutexes), `accepting` | check and report by request tasks; manager loop, sweep, commit, drain; load | a blocked address stays blocked until its time, across promotion, failed commits, restarts; tables within their limits; every activation is resolved; shutdown ends |
| Block-state file (`security/ip_blocking_persistence.rs`) | file, temporary file, orphan name | atomic replacement call by call, load, state lock | a reported write survives every crash; every content left by a crash loads |
| HTTP upstream pools (`http_proxy/pool.rs`, `runtime.rs`) | semaphores (local, global, active, pending, gate), idle list, HTTP/2 slot, notifications, driver tasks | acquire, wait, connect, send, upload and response bodies, return, reap, upgrade, close | capacities hold for what exists, not for what is remembered; no lost wakeup; a connection is reused only when clean; nothing is cut by housekeeping; close ends |
| Gateway (`gateway/listener.rs`, `admission.rs`, `body.rs`) | transport, handshake and request semaphores, connection tasks, request leases, shutdown token | accept, handshake, serve, admit, answer, shut down in order | capacities cover upgraded connections; shutdown reaches its end and stops components in order |
| WebSocket (`gateway/websocket.rs`, `h2_websocket.rs`, `relay.rs`, `websocket_message.rs`) | relay tasks, two pumps per relay, message sequence state, timers | accept, connect the backend, relay frames, close handshake, idle and lifetime limits | frame sequence legal, both directions end together, one close reason |
| gRPC (`grpc/proxy.rs`) | per backend: the cached sender of one HTTP/2 connection, a connect gate, stream permits; driver tasks | look up or connect, send, stream both bodies, close | one connection to send on; permits cover every stream that exists; no call waits for ever; shutdown leaves no driver |
| The decision about a request (`gateway/listener.rs` `handle_request`; `routes/table.rs`, `http_proxy/routes.rs`, `grpc/routes.rs`, `routing/mod.rs`, `security/client_address.rs`) | immutable tables, the current networks | host and SNI policy, resolve, address the client goes by, refuse or pass on, charge a violation | the most specific route wins under its own policy; only offenders are charged |
| ACME (`acme/manager.rs`, `storage.rs`, `http01.rs`) | account, certificate pairs on disk, challenge tokens, per-certificate schedule | bootstrap, issue, store, publish, retry | a pair on disk always matches; the served pair is never older than the stored one |
| TLS store (`tls/store.rs`, `resolver.rs`) | in-memory certificate map | load, reload, resolve by SNI | a bad reload keeps the old certificates |
| Cloudflare networks (`security/cloudflare.rs`, `network.rs`) | cache file, `ArcSwap`, maintenance task | load, download, persist, store | what is served is one whole download and is on disk; what is due is refreshed |
| Observability (`observability/runtime.rs`) | counters, traffic log queue | record, sample, flush | never blocks the data plane |
| Configuration (`config/mod.rs`, `*_config.rs`), `main.rs` | none after start | parse, validate | - |

How they interact. `gateway::listener::run` builds everything and owns the
shutdown token. A connection task (one per socket) runs `handle_request` for each
request: it asks the client-address policy for the address, the IP blocking
runtime whether it is blocked, the route tables for a target, takes a request
lease, and hands the request to the WebSocket, gRPC or HTTP runtime. Those report
protocol violations to the IP blocking runtime, whose manager task is a peer of
the listener loop. Shared state is either an immutable `Arc`, an `ArcSwap`
snapshot, a mutex-protected table or a semaphore; the only persistent state is
the block file, the Cloudflare cache and the certificate directory.

What is hard: the promotion of a temporary restriction to a durable block happens
under the eyes of lock-free readers and while other reports are in flight; a
commit can fail after its rename; a process can die anywhere, with the wall clock
set meanwhile; a pooled connection has up to four owners; its two halves end in
either order; a waiter can be woken by three events at once; shutdown meets all
of this in any state; a pair of files is replaced by two renames; two pumps share two
writers and either may be cancelled inside a frame; a gRPC call may be dropped while
it holds the gate every other call waits for, and its upload may outlive it.

## 2. Modules

| module | models |
|---|---|
| `AtomicBlockFile` | the promise of the block file: it has one of the contents handed to it, and a reported write is never undone |
| `BlockStateFile` | `persist_client_ip_blocklist_atomically`, one action per file-system call, each of which may fail; process crash and power loss |
| `IpBlocking` | `IpBlockingRuntime` with its file: request tasks, manager, transaction, load, restart, both clocks |
| `UpstreamPool` | `UpstreamPool` and the request path of `HttpProxyRuntime::proxy`, for any number of pools of both protocols |
| `CertificateStore` | the pairs of files, the served index, the ACME manager with its orders and challenges, and the start that depends on them |
| `Gateway` | `listener::run` and `serve_connection`: permits, request leases, what outlives a request, the shutdown of everything in its order |
| `MessageSequence` | `MessageSequence` and `BoundedMessages`: fragments, lengths, streaming UTF-8 |
| `WebSocketRelay` | `relay::run` and `run_tcp_backend`: two pumps, two shared writers, close handshake, cancellation |
| `WebSocketUpgrade` | `WebSocketRuntime::accept` and the task it spawns, composed with `WebSocketRelay`, which it extends |
| `GrpcUpstream` | `GrpcRuntime::proxy` at one backend: cached sender, connect gate, stream leases, drivers |
| `CloudflareNetworks` | the networks of Cloudflare, their cache file and its refresh |
| `RequestDecision` | what `handle_request` decides before anything waits: routes, client address, refusals, violations |
| `Parts` | four small parts that share no state, side by side: `BlockStateFile`, `CloudflareNetworks`, `RequestDecision`, `MessageSequence` |
| `BlockStateFileProofs`, `IpBlockingProofs`, `UpstreamPoolProofs`, `CertificateProofs`, `GatewayProofs`, `WebSocketProofs`, `GrpcProofs`, `PartsProofs` | the theorems of section 5 |
| `MC...` | the instances for TLC |

`IpBlocking` contains the writer of `BlockStateFile` (`INSTANCE`), and
`BlockStateFile` implements `AtomicBlockFile`. `Gateway` abstracts the data plane
to what a request may leave behind, so that `UpstreamPool`, `GrpcUpstream` and
`WebSocketUpgrade` are the detailed views of one request's work in it.
`RequestDecision` stands before them: it treats the snapshots of `CloudflareNetworks`
and the blocks of `IpBlocking` as what they are to a request, sets that may change
between any two of them.

### BlockStateFile
`wpc` is the call the writer is about to make, `file` what the path names,
`shadow` the contents a power loss may bring back because the directory has not
been synced since, `temp` the state of the temporary file (written, synced),
`orphan` the name a failed clean-up left to be removed first (`StateWriter`'s
field), `left` the temporary files on disk. Contents are members of a set; the
JSON of the file is left out, what the loader checks of it is `Loadable` in
`IpBlocking`. `Fallible` names the calls that may fail in an instance. Temporary
files of dead processes are not counted: their names carry the process id, and no
later process looks for them.

### IpBlocking
A table is a total function whose entry is zero where the code has none. `mpc`
says where the manager is: in `select`, in one of the parts of a round
(`sweep`, `decide`), inside `persist_pending` (`gather`, `txn`, `build`, `write`,
`consume`), in the `drain` after shutdown, `stopped`, or with the process `load`ing
the file, `boot`ing or `down`. One action is what happens under one lock or between two
awaits; the
sweep of the windows and of the pending table are one action although they sit
under different locks, because no task step touches both. A request task is a
record: the address, the rule, the time it began at and which of the steps
`load`, `count`, `queue` it is before, so that the two `ArcSwap` loads of a check,
the shard lock and the pending lock of a report interleave with everything else.
`now` is `Instant`, `wall` is `SystemTime`; `ClockStep` sets the latter. The file has
whole seconds (`WholeSeconds` is `unix_seconds`, a second has `Second` ticks), and a
thread that needs both clocks reads one after the other: `txn.at` and `txn.wall` are
what it has read, in `TxnStart` and `TxnBuild` for a commit, in `Boot` and
`BootLoaded` for `load`. Up to `Lag` ticks pass between the two. The transaction
judges deadlines by the time it began (`Retained`), whatever the clock says later.
`tasks[t].until` is a history variable: the restriction a check has to see.

What the model shows about the code besides its properties:
- A check loads the durable snapshot, then the temporary one. If the promotion
  falls between the two loads, one request passes. `AdmittedUnlessPromoted` states
  that this is the only way.
- A report that passed the `accepting` test may queue its activation after the
  drain ended; it is lost with the process. Nothing promises more.
- An activation that lapsed but is not yet swept makes a new report of the address
  return without queueing: the restriction restarts with the next report only.
- A block does not end at the same time after a restart. The file drops the fraction
  of a second, and the two clocks are read one after the other, once by the commit and
  once by `load`: a restored block may end earlier by less than a second and a lag, or
  later, which is what `RestartKeepsBlocks` allows. A reload keeps the expiry it found,
  so that the error does not add up over restarts.
- A file that was renamed but not directory-synced when the process died is loaded
  as it is; it becomes safe against a power loss with the forced compaction of the
  first round. `DurableSurvivesCrash` and `RestartKeepsBlocks` distinguish the two.

### UpstreamPool
Permits are computed from their holders, so that capacity statements are about
connections and requests that exist rather than about counters. `pc[r]` is the
place of a request between two awaits or locks; `conn` the `Http1Connection` or
HTTP/2 control it owns; `driver[c]` the driver task, which owns permits as well;
`owes[c]` what is still on the wire of an HTTP/1 connection; `upload`, `via`,
`doomed` the `UploadBody`, which outlives the request future; `idle`, `slot`,
`notified`, `stored` the pool's own state. The driver task is not the socket: after a
101 the tunnel has it (`Upgraded`), and of an HTTP/2 connection a task of hyper's own,
on an executor that no tracker knows, has it until it winds down (`detached`,
`WindsDown`). `ConnsOf` gives the connections of a pool their names, to keep
instances small. Time does not appear: any timer may
fire whenever its wait is on, and an idle entry may be too old whenever the code
looks, older entries with it. tokio's queues are not kept in order: a free permit
or a notification goes to any waiter, which allows every order the real queue
produces. HTTP/2 connections die as hyper lets them: an exchange may still be
answered after the driver has ended.

What it shows besides: an HTTP/2 connection that was cancelled by `reap_idle` or by a
replacement outlives its permits, which the driver had: while hyper winds it down,
and nobody refers to it, the next connection may be opened beside it. `SocketsBounded`
bounds all sockets but these (`Abandoned`). Nor does `wait()` wait for them, so that
`ShutdownDrains` is about drivers, tunnels and the maintenance task. `reap_idle` reads the
active permits and takes the HTTP/2
slot afterwards; an exchange that begins in between has its connection cancelled.
`NotCutShort` states that nothing else can do that, and names those exchanges with
the history variable `raced`. A request that is refused for a bad `Trailer`
declaration does not cancel its exchange; over HTTP/1 the dropped connection does
so, over HTTP/2 the upload runs on, which is why `LeaseReturns` speaks of HTTP/1.
`return_http1` may add a connection to the idle list after the maintenance task has
ended; its driver ends all the same, and nothing else depends on it (the model
does this test and the push in one step).

### CertificateStore
A certificate is the version of its key and the names it is for; `cert` and `key`
are the two files of each id, `index` what `CertificateStore` serves, `aged` the
served certificates whose renewal time has come. `pc` is the place of the manager
in its cycle and in `issue_certificate`, `due` what the cycle has still to do,
`draft` the pair between the CA and the disk; the two renames of a pair are two
actions, and the process may stop, or a call may fail, at each place. `open`
are the authorizations of an order the manager has not looked at, `chal` the name whose
challenge it is about to set ready, `published` the names the HTTP-01 server answers
for. `authz` is the memory of the CA, name by name, which survives the order and the
process: a challenge once set ready may be fetched until the CA has validated or
refused it. `stray` is a history variable, the challenges set ready for an order that was
given up since. `Wild` are the wildcard names, which `should_issue` leaves out of its
comparison and `validate_replacement` does not. `cut` remembers the pairs whose last save
ended between its renames.

What it shows besides:
- A pair is torn when a save ends between its renames. Every reload then fails, also
  for other certificates, until that pair is saved again. The manager repeats it
  because the certificate is still due by what is served. It is not repeated if it
  stopped being due before: its renewal became visible through the reload of another
  certificate while it was still in the list of the cycle. `should_issue` asks what is
  served, `reload` what is on disk. `DueIsRenewed` names this exception (`Neglected`).
- A torn pair found at the start cannot be repaired by the program: the directory is
  loaded before ACME begins (`StartLoads` is about the directory, not about a repair).
- `validate_replacement` compares names with the index, not with the disk, and two
  certificates whose names are to be exchanged block each other for ever, as does a
  served certificate with the name that the manager does not renew. `DueIsRenewed` names
  these as well (`Barred`): some certificates, each of whose names are held by another of
  them or by an unmanaged one. A name that the other gives up in its turn is no exception.
- An order that fails when some of its challenges are set ready removes their tokens
  although the CA may still fetch them (`Abandon`); the CA then finds nothing and refuses,
  and the order that meets the refused authorization fails too (`Spoiled`).
  `ChallengeServed` names these challenges (`stray`), until a later order sets them ready
  again. An operation that succeeds removes no token that may be asked for.
- The loss of a rename by a power failure is not modelled for pairs.

### Gateway
`holders[r]` says who has a reference to the `RequestLease` of a request: its handler,
the request itself (as an extension), the `AdmissionBody` of the response, or the work
that goes on without the handler; `HandedOver`, `Wrapped` and `Left` are the places
where the code passes it on, keeps it in a body or drops it. `Leases`, `Transports` and
`Handshakes` compute from the holders who has which permit, and `SocketsCovered` and
`RequestsCovered` compare them with what exists: whatever goes on for a request is
counted (no lease is dropped early), and no lease is left when nothing goes on.
`conn[c]` is a connection task, `req[r]` a request: `at` (handler, response body),
`work` (what it left behind: a task of a runtime, a pipe of hyper's executor, an
upgrade that waits, a tunnel) and `on`, its connection. `Begin` is the moment at which
a runtime takes a request over. An exchange of the HTTP proxy has the lease twice, in
its own response body and in the one around it: they end together and are one here.
`listener` goes through the
loop of `run()` in the order of its `biased` branches, then through the shutdown
sequence. `Absent` are the peers that have no task in a configuration.

What it shows besides: an HTTP/1 request is dropped with its connection, but an HTTP/2
handler is a task of the executor that may be polled once more after the connection
is closed and start a relay then; `LastOut` has this exception (`late`). The uploads
to HTTP/2 upstreams (`pipe`) are waited for by nobody. Any error of `accept` ends the
gateway, in order. The data plane may exceed its grace period at any time
(`PlaneOverdue`), because the drivers of pooled connections, which it waits for too,
belong to `UpstreamPool`.

### MessageSequence
Bytes are in eight classes by their role in UTF-8 (with two kinds of continuation, for
a lead that restricts its second byte); the limits of the second byte after ED, F0 and
F4 are left out, so that surrogates and what lies beyond U+10FFFF count as text. `Text`
defines what a whole text is;
`Checked` and `Remainder` are the streaming check with the tail it carries over, and
`NotText` stands for the error in the tail's place.
`said` is a history variable, the message as the peer meant it. The growth of the
collecting buffer is left out. `BoundedMessages` has an opcode and a buffer of its own
beside those of `MessageSequence`, with an error if the two disagree, which they cannot:
they are one in the model.

### WebSocketRelay
`pump[p]` is what the pump that reads from peer `p` is doing, `holder[q]` the owner of
the lock of the writer to `q`, `wire[q]` the frames written there, each whole or not;
`main` is the relay's own task. Frames are of the kinds the code distinguishes;
fragments of a message are one frame. A pump that is cancelled reports what the code
reports there, which depends on what it was doing.

What it shows besides: a cancelled pump may leave a frame unfinished, and the final
close frame is written behind it (`InOrder` excludes this case by `cancelled`). A
client's close may be reported as `RelayError`, when the other pump finds the writer
to its own peer closed by the echo. In front of a TCP backend a client that closed
gets a second close frame after the echo. Pumps that panic are not modelled.

### WebSocketUpgrade
Adds the request, its answer and the selected subprotocols, and uses `main` for the
places before the relay: `accept` (validation), `connect` (backend, timer and
shutdown compete), `upgrade` (the task waits for the client's connection, HTTP/1) and
`launch` (HTTP/2). A refusal ends in `done` without a reason. The validation of
headers is reduced to whether the request is sound, has a key, and can be forwarded;
which headers are forwarded and the cookies that come back are left out.
The task does not look at the shutdown token while it waits for the client; only its
timer bounds the wait. The stages before the relay forget the request when it begins.

### GrpcUpstream
`pc[r]` is the place of the handler of a call between two awaits, or its response
`body`; `conn[r]` the connection whose sender it copied; `uploading` the calls whose
request body belongs to hyper. A permit for a stream is held by whoever has the
`StreamLease`: it is computed from its holders (`Leases`), as in the pools. `gate` is
tokio's semaphore of one permit, its owner first and then the waiters in order.
`cached` is `sender`, and `state[c]` the driver task of a connection and the stream
below it. The handler may be dropped at every await, and all it owns is released
there (`Ends`). Of a connection, hyper's executor keeps what is under way when the
driver has ended (`detached`): nobody can send on it, its streams go on.
`stale[r]` is a history variable, the connections that were closed when a call came.

What it shows besides: there is no retry, and no timeout once a request is sent; a
backend that never answers is bounded by the client and by the shutdown only, and
`CallsProceed` ends where the request is sent. A closed sender stays in the cache until
a call replaces it. An upload whose call has failed keeps its permit until the
backend or the client ends it. The refusals of `proxy` for an invalid request or a
missing upstream cannot happen, because `handle_request` has asked the same before.

### CloudflareNetworks
A list of networks is a version per family. `pc` is the place of `load` and then of
the maintenance task; `networks` the `ArcSwap`, `file` the cache file, `shadow` what a
power loss may make of it (the directory is not synced after the rename), `synced`
whether the temporary file's data is. The two families are downloaded at once, while
Cloudflare may change either (`Publish`). `stamp` is the modification time of the file
seen by a clock that may be set: recent, old, or in the future. The rename runs in the
blocking pool, so that it may happen although the task is dropped beside it.
Temporary files have names of their own and are never read.

What it shows besides: a file that does not parse is downloaded again by `load`, and
the start fails if that does. The two lists of one refresh may be of different
moments. `ServedIsKept` has the window between rename and store as its exception: the
file is already the successor of what is served, and remains it if the task is
stopped there.

### RequestDecision
One action decides a request: there is no await in `handle_request` before its
dispatch. Paths are short sequences of characters, because a prefix ends at a segment;
`LongestPrefix` is the loop that cuts at the last slash. `Judge` and `Decide` are the
refusals in their order, each with the status and the address charged. A configuration
is a record of the routes of one host, the hosts of the fallback, and the guarded
targets; `ValidTable` is what `FileConfig::validate` admits of it, which
`DecisionAssumption` requires of every configuration. `MostSpecific` and `Sender` are
reference definitions: what the configuration means, and who sent a request. `offenders`
is a history variable. Left out: percent encodings, the rewriting of prefixes, the
methods and headers inside WebSocket and gRPC validation (one bit), the length of a
block. Blocks end at any time (`Release`).

What it shows besides: which networks are trusted is a matter of the snapshot a request
finds; a proxy whose network left the list is a client like any other from then on.

## 3. Runs

| run | bounds | shows |
|---|---|---|
| `ip_race` | 1 address, 2 tasks, 4 time units (restriction 2, block 3, commit 1), sync may fail | no early release, and what a check may miss |
| `ip_capacity` | 4 addresses (1 allowed), 2 shards, 2 tasks, limits 3/1/1, batch 1 | every table at its limit |
| `ip_restart` | 2 addresses, 1 task, 1 crash, 1 clock step, wall clock to 4, seconds of 2 ticks, 1 tick between two clock readings, block of 4 | what is on disk loads, survives and keeps the blocks, to within a second and a lag, for no longer than a day |
| `ip_liveness` | 2 addresses, 1 restart, sync may fail for ever | activations resolve; shutdown ends |
| `pool_waiters` | 4 requests, 2 connections, no uploads | no lost wakeup |
| `pool_mixed` | 2 requests, an HTTP/1 pool of 1 connection and an HTTP/2 pool of 2, 2 connections in all (3 names, so that one may be wound down beside them), 1 pending each | socket capacities, nothing cut short |
| `pool_reuse` | 2 requests with and without uploads, 1 connection | clean reuse, leases return, shutdown drains |
| `certificates` | 2 managed certificates and 1 that is not, 2 names and a wildcard, 4 key versions, 8 directories to start from (with names to be exchanged, and names that the third has), 2 failures, 2 stops | the directory loads, challenges are answered, what is served stays served, what is due is renewed |
| `gateway` | 3 sockets, 2 requests, limits 2/1/1, no Cloudflare task | capacity of requests, order and end of the shutdown, loss of the manager |
| `websocket` | every kind of request with 2 subprotocols, both kinds of backend, 2 frames from each peer | types and exclusive writers, order of frames, close told to both, causes of what is answered, reported and recorded, the end of the exchange |
| `grpc` | 3 calls, 2 connections, 2 streams | one connection to send on, no stale one, no call stuck, quiet after the shutdown |
| `parts` | the block file: 3 contents, every call may fail, 2 left-over files; the networks: 2 versions of each family, 2 failures, 2 stops; the decision: 24 configurations, 15 paths, 3 senders; messages of 4 bytes, payloads of 0, 1 and some of 2 bytes of all classes, controls of 1 byte | one temporary file, implements `AtomicBlockFile`; what is served is kept, what is due is refreshed; requests routed as configured, only offenders blocked; messages judged and delivered as if they were whole |

`parts` runs four components that share no state: a behaviour is one of one of them
(`part`), the others stay as they are. Its states are the sum of theirs, not the
product, and a liveness property of one is vacuous in the behaviours of the others,
since the networks' process is down there. Type invariants are proved (section 5);
those of the pools, of the messages and of the upgrade are conjuncts of
`SocketsBounded`, `JudgedAsWhole` and `UpgradeTypeOK` as well.

The bounds are the smallest at which the races happen. One address suffices for a
promotion race, because the code never relates two addresses but by the limits,
which `ip_capacity` drives to overflow with four of them. Time units are relative:
the constants keep the order `commit + restriction <= block` of the code (five
minutes and a day). Where the clocks matter (`ip_restart`) a second has two ticks, the
least in which a fraction can be lost, and a thread may be held up for one tick between
its readings; elsewhere `Second` is 1 and `Lag` 0. Two connections and four requests are
the least for a lost
wakeup: two waiters, and two connections coming back. Two certificates are the least
for a torn pair that blocks another, or for an exchange of names; a third that nobody
renews keeps a name for ever. Which key is drawn makes no difference but that it is
fresh, and four versions have one beside any three. Three sockets exceed two permits, and
two requests one lease. The longest
character has four bytes, and a message of four can be cut at each of them, with a
payload of two that crosses a boundary. Three calls are the least for one that connects,
one that waits at the gate and one that finds what was stored, and two connections for
a closed one and its successor. Two versions of two families make every mixture of
downloads. The prefixes of the configurations include the root, one inside another, and
paths that continue a prefix without a slash. Two frames from each peer are a message and a
close from both, the least for closes that cross behind data. `MaxTime`, `MaxWall`,
`LastViolation`, `MaxRestarts`, `MaxSteps`, `MaxFaults`, `MaxStops` and `MaxFrames`
bound what is unbounded and appear in the guards only. `ConnsOf` bounds the names of
each pool's connections, `Lag` the time between two readings.

Every property has a mutant in `PROJECT.json`: a definition with a plausible bug
(named `Mutant:` in the module) under which the run finds the property violated.

The IP runs check for deadlock. The others allow the system to stop, and say
`CHECK_DEADLOCK FALSE`: the pools, the gateway, the gRPC calls and a WebSocket exchange
after their end, the certificates and the networks when their process has stopped for
good, the reading of messages after an error.

## 4. Fairness
`IpBlocking`: weak fairness of the timer branch, of every step of the manager and
of its blocking transaction (the runtime polls a spawned task; file operations
return, with an error or without), of the clock, and strong fairness of the
shutdown branch: `tokio::select!` polls its branches in random order, so that a
cancelled token is not passed over for ever although the timer makes the other
branch ready again and again. No request task is assumed to move.

`UpstreamPool`: weak fairness of drivers whose token is cancelled, tunnels after
shutdown, uploads whose exchange is cancelled, and the steps of the maintenance
task; strong fairness of its shutdown branch, for the same reason. No request,
peer or client is assumed to make progress.

`CertificateStore`: weak fairness of the manager's own steps and of the CA's
validation of a challenge that is served: it fetches the response, or refuses, or the
polling of the order times out, and the last two count as failures. Failures are finitely
many, which the code does not
promise: `DueIsRenewed` is a statement about a time after which nothing fails.

`Gateway`: weak fairness of `run()`, of cancelled peers, of the timers of a handshake
and of a drain. Nothing is assumed of clients, handlers, bodies or relays, of the
signal, of `accept` failing or of the manager ending.

`WebSocketUpgrade`: weak fairness of the handler's first poll, of the connect and
upgrade timers, of the spawned task and, in the relay, of the cancelled token being
seen, of the one-second limits on the final writes and of the steps that join the
pumps. Nothing is assumed of the peers, nor that a write ever completes.

`GrpcUpstream`: weak fairness of the steps of a handler that wait for nobody, of the
end of a connection attempt (it has a timeout, so it ends even if the backend never
answers), of handlers and drivers that are cancelled, and of a driver whose connection
is gone. Since the gate is a queue, weak fairness of its head suffices. A success of
`Connect`, an answer, the end of a body are not assumed, nor that a dropped handler
is dropped.

`CloudflareNetworks`: weak fairness of the task's own steps: its timer, downloads (they
have a timeout, and are failures then) and file operations. Failures are finitely many,
as for the certificates. The maintenance looks again after a failure, which is what
`DueIsRefreshed` rests on.

## 5. Proofs
Every invariant and every action property of every run is stated by a theorem, for
all values of the constants that satisfy the assumptions of their module:

| assumption | says |
|---|---|
| `ContentAssumption` | a missing file and an unreadable one are not contents, and are two |
| `ConfigAssumption`, `CommitAssumption` | shapes and positivity of the constants; a transaction and a temporary restriction together are no longer than a durable block (five minutes against a day), which is a number of whole seconds; a commit includes the time between its clock readings |
| `PoolAssumption`, `GatewayAssumption`, `GrpcAssumption` | finite sets, positive limits; of a pool, at most as many idle as allowed connections and pending as active ones, as the configuration is validated; a pool has names for its connections |
| `CertificateAssumption` | managed names are disjoint and without wildcards, and the names of a directory that loads are disjoint; the list has an order; there is a fresh key beside any three |
| `RelayAssumption` | peers send something |
| `NetworkAssumption` | the names of what is not a list are none |
| `DecisionAssumption` | configurations are what `FileConfig::validate` admits (`ValidTable`); paths are sequences of characters |
| `MessageAssumption` | a positive maximum; payloads are sequences of bytes |

`Parts` assumes the last three of its instances. TLC evaluates all of them with the
constants of the runs.

- `BlockStateFileProofs`: `WriterInv` is inductive: while a file is being written,
  `temp`, `orphan` and `left` agree with the place of the writer, and before the
  directory sync the acknowledged content is in `file` or among `shadow`. From it
  follow `DiskTyped`, `AtMostOneTemporary`, `AcknowledgedWrites`, and, step by step,
  `WriterRefinesAtomicFile`: every call maps to a step of `AtomicBlockFile` or to
  none. The invariant is needed because the acknowledgement is three calls after the
  rename that publishes the content.
- `IpBlockingProofs`: `TypeCorrect`, for which the proofs of the writer are reused: the
  one embedded in the runtime is the same, by `INSTANCE`. On the types rest four
  invariants.
  - `PromotionInv` gives `PromotionCovered` and the action property `NoBlockEndsEarly`.
    That a block is not released early is not inductive: consuming a pending
    activation is safe only because the stored candidate covers it
    (`ConsumedCovered`), which needs that the candidate covered it when the write
    began (`CandidateCovers`), and the batch when the clocks were read (`BatchCovered`,
    `ReadingsClose`), that reports in flight, blind to the new block, cannot
    queue anything later than it (`ReportsCovered`), and that what is pending never
    outlasts a block in force (`PendingCovered`). The last two rest on
    `CommitAssumption`.
  - `DurableInv` gives the four properties of the file. `LoadableInv`: the file, each
    version a power loss may bring back, and the bytes about to be written pass the
    loader, because no candidate exceeds `max_blocked_clients`. `OnDiskInv`: a block in
    force is in the file and, once the table has been compacted, in each of those
    versions. It needs `WriteInv`, that a candidate keeps what is in force while it
    is written, for there are three calls between the candidate and the rename, and
    time passes in them. `DeadlineInv` bounds every block by a day from now
    (`RestrictionsBounded`). `TimeInv` ties the monotonic deadline to the expiry on disk
    until the wall clock is set: the two differ by less than a second and a lag
    (`CloseAt`), for a new block because of its own two readings and for a restored one
    because of those of `load` (`SeenInv`); what a commit keeps is left as it is. From
    this a restart moves the end of a block by less than `Second + Lag`
    (`BlocksRestart`), and no chain of restarts adds up.
  - `AdmitInv`: a check between its two loads either has nothing to see or the
    temporary restriction is still pending, so that what it misses was consumed at
    that moment (`AdmissionWindow`).
  - `CapacityInv`: the pending table and every shard are within their limits; an
    insertion is by one, below the limit, under the lock that guards it
    (`TablesBounded`). The limits of the shards add up to the configured one for any
    number of shards.
- `UpstreamPoolProofs`: `PoolTyped` has the types, and the places at which a request has an
  upload on a connection or one that is doomed (`HandInv`); the rest builds on it.
  `PoolsBounded` is a statement about holders, not counters: each step adds at most
  one holder, and only below the limit. What it bounds are the sockets, in which drivers,
  tunnels after a 101 and hyper's own tasks for HTTP/2 are counted: each that is not
  `Abandoned` has its permits from the driver or from somebody with a reference to the
  control, since a tunnel has the control with the socket. `ReuseIsClean` needs
  `HolderInv` and `AloneInv`,
  that an HTTP/1 connection is in one place only, in one idle list or with one
  request, for otherwise a second exchange could leave something on the wire; and
  `OweInv`, which says what the connection owes by how far upload and answer are.
  `WakeupsKept` needs that only HTTP/1 requests sleep (`PlaceInv`); a request that
  registers before it looks is on the way to any connection that comes later.
  `NothingCutShort` needs that one request at a time opens an HTTP/2 connection and the
  slot stays empty meanwhile (`GateInv`), and that the exchanges of a slot about to be
  reaped began after it was looked at (`ReapInv`).
- `CertificateProofs`: the conjunction of `TypeOK`, `TornInv`, `StoredInv`, `DraftInv`
  and `DisjointInv` is inductive. That the directory loads (`StartAlwaysLoads`) needs
  that a replacement is checked against the index while earlier replacements are on
  disk only: `StoredInv` says that the disk differs from the index by finished
  replacements alone, which have the configured names and are disjoint by the
  assumption; `DraftInv` carries the check from the issue to the rename. `ServingKept`
  follows from the same invariant. `ChallengesAnswered` needs one of its own, `OrderInv`:
  a response is published before its challenge is set ready; what is published belongs
  to the names of the order; and when a certificate is issued, the CA has validated every
  one of these, so that an operation that succeeds removes no token still to be
  fetched. When one fails, what is left ready is `stray`.
- `GatewayProofs`: a step changes the holders of permits by removing some (`Shrinks`)
  or by adding one below the limit (`Grows`), which bounds the leases and transports for
  every limit. That these cover what exists is `HeldInv`: at every place of a request,
  whatever goes on for it (handler, body, work) has the lease, and nothing else has it, but
  the request before a runtime has taken it over. `OrderInv` (`JoinedInv`, `AwaitedInv`,
  `PlaneInv`) records whom the
  shutdown has awaited at each of its places, and gives `ObservabilityLast`.
- `GrpcProofs`: the conjunction of `TypeOK`, `SenderInv`, `StaleInv` and `LeaseInv` is
  inductive. `SingleConnection` is not inductive alone: it needs that the cache stays
  without an open sender from the second look at it to the store, which only the holder
  of the gate does (`TypeOK` has the order at the gate), and that a sender somebody has
  copied is the cached one or closed (`SenderInv`). `NeverStale` needs that what was
  closed when a call came stays closed while the call is at work, since a new
  connection is none of those (`StaleInv`); `StreamsWithinLimit` that the leases are
  within the limit and every stream has one (`LeaseInv`).
- `WebSocketProofs`: one invariant, `WebSocketInv`, for the handshake and the relay. A
  pump writes the answer to what it read last (`JobInv`), a writer is held by the pump
  that is in a frame on it (`HoldInv`), an unfinished frame is the last one and is being
  written, unless something failed or was cancelled (`WireInv`). `FramesInOrder` is not
  inductive without the other direction, that a pump has sent on everything but the
  message at hand (`SentInv`), and its order (`OrderInv`). `ClosesTold` needs what a pump
  that is about to end as closed has already written (`CloseInv`), and that the writers
  were closed by a close of a peer until the gateway cancels (`AskedInv`): the relay's
  reason is what the first pump reported (`ReasonInv`). `EveryoneAccountable` adds what
  the handshake knows of the request (`HandshakeInv`) and when the client is blamed
  (`BlameInv`).
- `PartsProofs`, for the parts of `Parts`.
  - `ServedKept`: `TypeOK`, `PublishInv` and `ServedIsKept` are inductive together.
    `PublishInv` says that what is renamed has been synced, and that the path names
    what is about to be stored.
  - `RequestsRoutedRight`: the loop that cuts a path at its last slash finds the most
    specific prefix. The loop invariant is that what is found from the first n
    characters is the longest (`LongestOf`) of the prefixes that match them at the end
    of a segment (`Reach`). It rests on `ValidTable`, which forbids prefixes that end
    with a slash. `OffendersOnly`: the address a request goes by is its only sender.
  - `DeliveredWhole`: what is collected and its length agree with what the peer said.
  - `TextJudgedAsWhole`: the tail that is carried over begins where a whole text ends
    (`TailInv`), so that a frame completes the text exactly if it completes the tail.
    For this, text is a matter of positions: a set of places where characters begin
    and end (`Parses`, `Whole`), which can be cut at any place and put together again,
    as long as no character is cut. It is shown to be the same as the recursive
    definition of `Text` for every sequence of bytes.

Induction is by the least counterexample: `<` is well-founded on the naturals
(`WellFoundedInduction`), so that a statement that fails for some length fails for a
least one. A recursive function is shown to have the equation of its definition by
giving one function that has it. Both are needed in `PartsProofs`, and the
former for the idle lists of the pools and the shards of the windows.

The other type invariants, `AcknowledgedWrites`, `SocketsBounded` (of the gateway)
and `StreamsWithinLimit` are proved and no longer repeated by a run.

Only model-checked: liveness (`PendingResolves`, `ShutdownStops`, `LeaseReturns`,
`ShutdownDrains`, `DueIsRenewed`, `ManagerLossNoticed`, `ShutdownEnds`, `RelayEnds`,
`CallsProceed`, `ShutdownQuiet`, `DueIsRefreshed`). Fairness speaks of `ENABLED`, which
the prover cannot expand.

## 6. Plan
In this order; each with a module, an instance, and theorems where they carry
weight.
1. Done: the block file, the IP blocking runtime, the upstream pools, the
   certificates, the gateway, the WebSocket path, the gRPC calls, the Cloudflare
   networks, the decision about a request.
2. Done: theorems for every safety property of the runs.
3. The HTTP-01 listener's own connections, and the loss of a certificate's rename by
   a power failure, which `CloudflareNetworks` has for its file.

Not modelled: configuration parsing and `main.rs` (sequential, without state; what it
admits of routes is `ValidTable`), observability (atomic counters, log lines and a
writer task that nothing waits for but the end of the shutdown, which is in `Gateway`),
header rewriting (pure functions of one request), the comparison of addresses with
network masks, `fallback/mod.rs` (not compiled into the program: no `mod` names it).
See `components` in `PROJECT.json`.
