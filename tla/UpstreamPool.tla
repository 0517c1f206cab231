---------------------------- MODULE UpstreamPool ----------------------------
(***************************************************************************)
(* The upstream connection pools of src/src/http_proxy/pool.rs and the     *)
(* request path of runtime.rs that uses them: HTTP/1 connections handed    *)
(* from exchange to exchange through an idle list, one shared HTTP/2       *)
(* connection per pool, the semaphores that bound both, the maintenance    *)
(* task and shutdown.                                                      *)
(*                                                                         *)
(* A permit is not a counter here: it is held by whoever the code gives it *)
(* to, and what is free is computed from the holders.  Each step is what   *)
(* the code does under one lock or between two awaits; the try_acquire of  *)
(* a capacity and of the pending permit needed to wait for it are one step.*)
(***************************************************************************)
EXTENDS Naturals, Sequences, FiniteSets

CONSTANTS
  Requests, Pools, Conns, Nobody,
  Protocol,                \* UpstreamConfig.protocol
  MaxConnections, MaxIdle, MaxActive, MaxPending,  \* PoolConfig
  GlobalMax,               \* http_proxy.max_connections
  ConnsOf,                 \* what the connections of a pool are called: a bound
  Uploads                  \* whether request bodies are "held" or "done"

\* A runtime without a pool has no state to speak of.
ASSUME PoolAssumption ==
  /\ Pools # {}
  /\ IsFiniteSet(Requests) /\ IsFiniteSet(Pools) /\ IsFiniteSet(Conns)
  /\ Nobody \notin Conns
  /\ Protocol \in [Pools -> {"http1", "http2"}]
  /\ MaxConnections \in [Pools -> Nat \ {0}]
  /\ MaxActive \in [Pools -> Nat \ {0}]
  /\ MaxIdle \in [Pools -> Nat]
  /\ MaxPending \in [Pools -> Nat]
  /\ \A p \in Pools : MaxIdle[p] <= MaxConnections[p]
                      /\ MaxPending[p] <= MaxActive[p]
  /\ GlobalMax \in Nat \ {0}
  /\ ConnsOf \in [Pools -> SUBSET Conns]
  /\ Cardinality(Conns) >= GlobalMax
  /\ Uploads \subseteq {"held", "done"} /\ Uploads # {}

VARIABLES
  pc, pool,   \* where a request is, and in which pool
  conn,       \* the Http1Connection or HTTP/2 control it holds
  answer,     \* the response body: "open", "ended" or "broken"
  upload,     \* the UploadBody: "held", or dropped, "done" (complete) or "gone"
  via,        \* the HTTP/1 connection that polls the UploadBody
  doomed,     \* held uploads whose next poll fails (cancelled, client gone)
  notified, stored,  \* idle_available
  driver,     \* the driver task of a connection
  owner,      \* the pool of a connection
  owes,       \* halves of the last exchange still under way on it
  detached,   \* HTTP/2 sockets that hyper has still, with no driver
  idle, slot, \* idle_http1 and http2
  shutdown,
  reap,       \* the maintenance task
  raced       \* history: requests begun since reap_idle looked at active

reqs == <<pc, pool, conn, answer>>
ups == <<upload, via, doomed>>
notes == <<notified, stored>>
wires == <<driver, owner, owes, detached>>
store == <<idle, slot>>
life == <<shutdown, reap, raced>>
vars == <<reqs, ups, notes, wires, store, life>>

-----------------------------------------------------------------------------
(* Who holds which permit *)

Queues == {"register", "examine", "wait", "gatewait", "localwait",
           "globalwait", "readywait"}
Reserved == {"global", "globalwait", "connect"}   \* a local permit in hand
Gated == {"recheck", "local", "localwait"} \cup Reserved
Awaiting == {"wait", "gatewait", "localwait", "globalwait", "connect",
             "readywait", "sent"}

Of(p) == {r \in Requests : pool[r] = p}
At(p, places) == {r \in Of(p) : pc[r] \in places}

Listed(p, c) == \E i \in DOMAIN idle[p] : idle[p][i] = c

\* Somebody has a reference to the ConnectionControl, the driver task included.
Held(c) == \/ \E r \in Requests : conn[r] = c
           \/ \E p \in Pools : c = slot[p] \/ Listed(p, c)

\* Mutant: the driver task does not retain the permits.
InUseHeld(c) == Held(c)

InUse(c) == Held(c) \/ driver[c] # "none"

LocalFree(p) ==
  Cardinality({c \in Conns : InUse(c) /\ owner[c] = p})
    + Cardinality(At(p, Reserved)) < MaxConnections[p]

GlobalFree ==
  Cardinality({c \in Conns : InUse(c)})
    + Cardinality({r \in Requests : pc[r] = "connect"}) < GlobalMax

PendingFree(p) == Cardinality(At(p, Queues)) < MaxPending[p]

\* The ExchangeLease: its references are the request or its response body,
\* and the UploadBody.
Leases(p) == {r \in Of(p) : pc[r] # "idle" \/ upload[r] = "held"}

GateFree(p) == Protocol[p] = "http2" => At(p, Gated) = {}

Http1(r) == Protocol[pool[r]] = "http1"

-----------------------------------------------------------------------------
(* Steps shared by several handlers *)

Goto(r, place) == pc' = [pc EXCEPT ![r] = place]

\* Mutant: the drop of a connection cancels nothing.
DroppedAlone(conns) == driver

\* Http1Connection and Http2Connection cancel their driver when dropped.
Dropped(conns) ==
  [c \in Conns |-> IF c \in conns /\ driver[c] = "running" THEN "cancelled"
                                                           ELSE driver[c]]

\* tokio's Notify: a waiter from its registration on, until it is notified.
\* Which one a notification reaches is left open.
Sleepers(p) == At(p, {"examine", "wait"}) \ notified

NotifyOne(p, others) ==
  IF Sleepers(p) = {}
  THEN notified' = others /\ stored' = stored \cup {p}
  ELSE /\ \E r \in Sleepers(p) : notified' = others \cup {r}
       /\ stored' = stored

\* A waiter that leaves passes on a notification it has not used.
Unregister(r) ==
  IF r \in notified THEN NotifyOne(pool[r], notified \ {r})
                    ELSE UNCHANGED notes

\* The upload once its request is over: before it was sent, the body belonged
\* to the request future, which drops it.
Orphaned(r) == IF upload[r] = "held" /\ pc[r] \in {"sent", "body"}
               THEN "held" ELSE "gone"

\* The request future ends without a response.
Finish(r) ==
  /\ Goto(r, "idle")
  /\ conn' = [conn EXCEPT ![r] = Nobody]
  /\ upload' = [upload EXCEPT ![r] = Orphaned(r)]
  /\ driver' = IF Http1(r) THEN Dropped({conn[r]}) ELSE driver
  /\ Unregister(r)
  /\ answer' = [answer EXCEPT ![r] = "open"]
  /\ UNCHANGED <<pool, via, owner, owes, detached, store, life>>

-----------------------------------------------------------------------------
(* begin_exchange, and the ends of a request without a response *)

Begin(r, p, body) ==
  /\ ~ shutdown
  /\ r \notin UNION {Leases(q) : q \in Pools}
  /\ Cardinality(Leases(p)) < MaxActive[p]
  /\ Goto(r, "acquire")
  /\ pool' = [pool EXCEPT ![r] = p]
  /\ upload' = [upload EXCEPT ![r] = body]
  /\ raced' = IF reap.pc = "take" THEN raced \cup {r} ELSE raced
  /\ UNCHANGED <<conn, answer, via, doomed, notes, wires, store, shutdown, reap>>

\* An error, a timeout, the shutdown token, or the client has gone: the
\* exchange is cancelled, or the body fails at its next poll.
GiveUp(r) ==
  /\ pc[r] \in Awaiting
  /\ Finish(r)
  /\ doomed' = IF upload'[r] = "held" THEN doomed \cup {r} ELSE doomed

\* PoolOverload: the capacity is taken, and so is every pending permit.
Refused(r) ==
  /\ ~ PendingFree(pool[r])
  /\ \/ pc[r] = "local" /\ ~ LocalFree(pool[r])
     \/ pc[r] = "global" /\ ~ GlobalFree
     \/ pc[r] = "gate" /\ ~ GateFree(pool[r])
     \/ pc[r] = "ready"
  /\ Finish(r)
  /\ UNCHANGED doomed

\* An invalid Upgrade answer or Trailer declaration: everything is dropped,
\* and nothing cancelled.
Reject(r) ==
  /\ pc[r] = "sent"
  /\ Finish(r)
  /\ UNCHANGED doomed
-----------------------------------------------------------------------------
(* acquire_http1 *)

Alive(p) == {i \in DOMAIN idle[p] : driver[idle[p][i]] # "none"}
Above(p, n) == {idle[p][i] : i \in {j \in DOMAIN idle[p] : j > n}}

\* take_idle_http1: the newest connection still open, those above it dropped.
\* What lies below a connection idle for too long is older still, so that a
\* search that meets one ends with an empty list.
TakeIdle(r, i) ==
  LET p == pool[r]
  IN  /\ i \in Alive(p) /\ \A j \in Alive(p) : j <= i
      /\ idle' = [idle EXCEPT ![p] = SubSeq(@, 1, i - 1)]
      /\ conn' = [conn EXCEPT ![r] = idle[p][i]]
      /\ driver' = Dropped(Above(p, i))
      /\ Goto(r, "ready")

TakeNone(r, place) ==
  LET p == pool[r]
  IN  /\ idle' = [idle EXCEPT ![p] = << >>]
      /\ driver' = Dropped(Above(p, 0))
      /\ Goto(r, place)
      /\ UNCHANGED conn

AcquireHttp1(r) ==
  /\ pc[r] = "acquire"
  /\ Http1(r)
  /\ (\E i \in DOMAIN idle[pool[r]] : TakeIdle(r, i)) \/ TakeNone(r, "local")
  /\ UNCHANGED <<pool, answer, ups, notes, owner, owes, detached, slot, life>>

\* try_acquire of a permit for a connection of this pool, for HTTP/2 within
\* connect.
TryLocal(r) ==
  /\ pc[r] = "local"
  /\ \/ LocalFree(pool[r]) /\ Goto(r, "global")
     \/ /\ ~ LocalFree(pool[r])
        /\ PendingFree(pool[r])
        /\ Goto(r, IF Http1(r) THEN "register" ELSE "localwait")
  /\ UNCHANGED <<pool, conn, answer, ups, notes, wires, store, life>>

\* enable: a stored notification is taken at once.
Register(r) ==
  LET p == pool[r]
  IN  /\ pc[r] = "register"
      /\ Goto(r, "examine")
      /\ notified' = IF p \in stored THEN notified \cup {r} ELSE notified
      /\ stored' = stored \ {p}
      /\ UNCHANGED <<pool, conn, answer, ups, wires, store, life>>

Examine(r) ==
  /\ pc[r] = "examine"
  /\ \/ (\E i \in DOMAIN idle[pool[r]] : TakeIdle(r, i)) /\ Unregister(r)
     \/ TakeNone(r, "wait") /\ UNCHANGED notes
  /\ UNCHANGED <<pool, answer, ups, owner, owes, detached, slot, life>>

\* The select: a notification sends the loop round, a permit ends it.
WakeNotified(r) ==
  /\ pc[r] = "wait"
  /\ r \in notified
  /\ notified' = notified \ {r}
  /\ Goto(r, "register")
  /\ UNCHANGED <<pool, conn, answer, ups, stored, wires, store, life>>

WakePermit(r) ==
  /\ pc[r] = "wait"
  /\ LocalFree(pool[r])
  /\ Goto(r, "global")
  /\ Unregister(r)
  /\ UNCHANGED <<pool, conn, answer, ups, wires, store, life>>

-----------------------------------------------------------------------------
(* acquire_http2 *)

\* current_http2: a closed connection is taken out of the slot.
Current(r, otherwise) ==
  LET p == pool[r]
      open == slot[p] # Nobody /\ driver[slot[p]] # "none"
  IN  /\ Goto(r, IF open THEN "ready" ELSE otherwise)
      /\ conn' = [conn EXCEPT ![r] = IF open THEN slot[p] ELSE Nobody]
      /\ slot' = [slot EXCEPT ![p] = IF open THEN @ ELSE Nobody]

AcquireHttp2(r) ==
  /\ pc[r] = "acquire"
  /\ ~ Http1(r)
  /\ Current(r, "gate")
  /\ UNCHANGED <<pool, answer, ups, notes, wires, idle, life>>

TryGate(r) ==
  /\ pc[r] = "gate"
  /\ \/ GateFree(pool[r]) /\ Goto(r, "recheck")
     \/ ~ GateFree(pool[r]) /\ PendingFree(pool[r]) /\ Goto(r, "gatewait")
  /\ UNCHANGED <<pool, conn, answer, ups, notes, wires, store, life>>

PassGate(r) ==
  /\ pc[r] = "gatewait"
  /\ GateFree(pool[r])
  /\ Goto(r, "recheck")
  /\ UNCHANGED <<pool, conn, answer, ups, notes, wires, store, life>>

\* Mutant: the slot is not looked at again behind the gate.
RecheckNothing(r) ==
  /\ pc[r] = "recheck"
  /\ Goto(r, "local")
  /\ UNCHANGED <<pool, conn, answer, ups, notes, wires, store, life>>

Recheck(r) ==
  /\ pc[r] = "recheck"
  /\ Current(r, "local")
  /\ UNCHANGED <<pool, answer, ups, notes, wires, idle, life>>

PassLocal(r) ==
  /\ pc[r] = "localwait"
  /\ LocalFree(pool[r])
  /\ Goto(r, "global")
  /\ UNCHANGED <<pool, conn, answer, ups, notes, wires, store, life>>

-----------------------------------------------------------------------------
(* connect, the handshake, and the request *)

TryGlobal(r) ==
  /\ pc[r] = "global"
  /\ \/ GlobalFree /\ Goto(r, "connect")
     \/ ~ GlobalFree /\ PendingFree(pool[r]) /\ Goto(r, "globalwait")
  /\ UNCHANGED <<pool, conn, answer, ups, notes, wires, store, life>>

PassGlobal(r) ==
  /\ pc[r] = "globalwait"
  /\ GlobalFree
  /\ Goto(r, "connect")
  /\ UNCHANGED <<pool, conn, answer, ups, notes, wires, store, life>>

\* The driver is spawned; an HTTP/2 connection goes into the slot, and the
\* gate is opened.
Connected(r, c) ==
  LET p == pool[r]
      replaced == IF Http1(r) THEN {} ELSE {slot[p]}
  IN  /\ pc[r] = "connect"
      /\ c \in ConnsOf[p]
      /\ ~ InUse(c) /\ c \notin detached
      /\ Goto(r, "ready")
      /\ conn' = [conn EXCEPT ![r] = c]
      /\ driver' = [Dropped(replaced) EXCEPT ![c] = "running"]
      /\ owner' = [owner EXCEPT ![c] = p]
      /\ slot' = IF Http1(r) THEN slot ELSE [slot EXCEPT ![p] = c]
      /\ UNCHANGED <<pool, answer, ups, notes, owes, detached, idle, life>>

\* The sender is not ready yet.
AwaitReady(r) ==
  /\ pc[r] = "ready"
  /\ PendingFree(pool[r])
  /\ Goto(r, "readywait")
  /\ UNCHANGED <<pool, conn, answer, ups, notes, wires, store, life>>

\* The body goes to the connection together with the request.
Send(r) ==
  LET c == conn[r]
      open == upload[r] = "held"
  IN  /\ pc[r] \in {"ready", "readywait"}
      /\ driver[c] # "none"
      /\ Goto(r, "sent")
      /\ via' = IF Http1(r) /\ open THEN [via EXCEPT ![r] = c] ELSE via
      /\ owes' = IF Http1(r)
                 THEN [owes EXCEPT ![c] =
                         {"response"} \cup (IF open THEN {"request"} ELSE {})]
                 ELSE owes
      /\ UNCHANGED <<pool, conn, answer, upload, doomed, notes, driver, owner, detached,
                     store, life>>

Answered(r) == [owes EXCEPT ![conn[r]] = @ \ {"response"}]

\* The response head; its body may be empty.
Respond(r) ==
  /\ pc[r] = "sent"
  /\ Goto(r, "body")
  /\ \/ UNCHANGED <<answer, owes>>
     \/ answer' = [answer EXCEPT ![r] = "ended"] /\ owes' = Answered(r)
  /\ UNCHANGED <<pool, conn, ups, notes, driver, owner, detached, store, life>>

\* A valid 101: the tunnel task keeps the connection and the exchange.
Upgrade(r) ==
  /\ pc[r] = "sent"
  /\ Http1(r)
  /\ upload[r] = "done"
  /\ Goto(r, "tunnel")
  /\ UNCHANGED <<pool, conn, answer, ups, notes, wires, store, life>>

EndTunnel(r) ==
  /\ pc[r] = "tunnel"
  /\ Finish(r)
  /\ UNCHANGED doomed

-----------------------------------------------------------------------------
(* The request body, polled by the connection *)

Handed(r) == upload[r] = "held" /\ pc[r] \in {"sent", "body", "idle"}

UploadEnds(r) ==
  /\ Handed(r)
  /\ r \notin doomed /\ ~ shutdown
  /\ upload' = [upload EXCEPT ![r] = IF pc[r] = "idle" THEN "gone" ELSE "done"]
  /\ via' = [via EXCEPT ![r] = Nobody]
  /\ owes' = [c \in Conns |-> IF c = via[r] THEN owes[c] \ {"request"} ELSE owes[c]]
  /\ UNCHANGED <<reqs, doomed, notes, driver, owner, detached, store, life>>

\* An error of the client, the idle timer, or the cancelled exchange.
UploadCut(r) ==
  /\ Handed(r)
  /\ upload' = [upload EXCEPT ![r] = "gone"]
  /\ via' = [via EXCEPT ![r] = Nobody]
  /\ doomed' = doomed \ {r}
  /\ UNCHANGED <<reqs, notes, wires, store, life>>

-----------------------------------------------------------------------------
(* PooledResponseBody *)

\* Mutant: only the first idle connection is announced.
ReturnQuietly(p, c) ==
  IF shutdown \/ driver[c] = "none" \/ Len(idle[p]) >= MaxIdle[p]
  THEN driver' = Dropped({c}) /\ UNCHANGED <<idle, notes>>
  ELSE /\ idle' = [idle EXCEPT ![p] = Append(@, c)]
       /\ IF idle[p] = << >> THEN NotifyOne(p, notified) ELSE UNCHANGED notes
       /\ UNCHANGED driver

\* return_http1
Return(p, c) ==
  IF shutdown \/ driver[c] = "none" \/ Len(idle[p]) >= MaxIdle[p]
  THEN driver' = Dropped({c}) /\ UNCHANGED <<idle, notes>>
  ELSE /\ idle' = [idle EXCEPT ![p] = Append(@, c)]
       /\ NotifyOne(p, notified)
       /\ UNCHANGED driver

\* Mutant: a connection is returned whatever the upload does.
FinishHttp1Early(r, state) ==
  /\ IF state = "ended" THEN Return(pool[r], conn[r])
     ELSE driver' = Dropped({conn[r]}) /\ UNCHANGED <<idle, notes>>
  /\ conn' = [conn EXCEPT ![r] = Nobody]

\* finish_http1, with the state of the response body.
FinishHttp1(r, state) ==
  /\ IF state = "ended" /\ upload[r] = "done"
     THEN Return(pool[r], conn[r])
     ELSE driver' = Dropped({conn[r]}) /\ UNCHANGED <<idle, notes>>
  /\ conn' = [conn EXCEPT ![r] = Nobody]

\* The connection is given up if it is there still.
Settle(r, state) ==
  IF Http1(r) /\ conn[r] # Nobody
  THEN FinishHttp1(r, state)
  ELSE UNCHANGED <<conn, driver, idle, notes>>

ReadEnd(r) ==
  LET state == IF answer[r] = "broken" THEN "broken" ELSE "ended"
  IN  /\ pc[r] = "body"
      /\ answer' = [answer EXCEPT ![r] = state]
      /\ Settle(r, state)
      /\ owes' = IF answer[r] = "open" /\ conn[r] # Nobody
                 THEN Answered(r) ELSE owes
      /\ UNCHANGED <<pc, pool, ups, owner, detached, slot, life>>

ReadError(r) ==
  /\ pc[r] = "body"
  /\ answer[r] = "open"
  /\ answer' = [answer EXCEPT ![r] = "broken"]
  /\ UNCHANGED <<pc, pool, conn, ups, notes, wires, store, life>>

Doom(r) == doomed' = IF upload[r] = "held" THEN doomed \cup {r} ELSE doomed

IdleTimeout(r) ==
  /\ pc[r] = "body"
  /\ answer[r] # "ended"
  /\ answer' = [answer EXCEPT ![r] = "broken"]
  /\ driver' = IF Http1(r) THEN Dropped({conn[r]}) ELSE driver
  /\ conn' = IF Http1(r) THEN [conn EXCEPT ![r] = Nobody] ELSE conn
  /\ Doom(r)
  /\ UNCHANGED <<pc, pool, upload, via, notes, owner, owes, detached, store, life>>

DropBody(r) ==
  /\ pc[r] = "body"
  /\ Goto(r, "idle")
  /\ IF Http1(r) THEN Settle(r, answer[r])
     ELSE conn' = [conn EXCEPT ![r] = Nobody] /\ UNCHANGED <<driver, idle, notes>>
  /\ answer' = [answer EXCEPT ![r] = "open"]
  /\ upload' = [upload EXCEPT ![r] = Orphaned(r)]
  /\ Doom(r)
  /\ UNCHANGED <<pool, via, owner, owes, detached, slot, life>>

-----------------------------------------------------------------------------
(* The driver task: the peer closed, the token was cancelled, or its parent. *)

\* A driver of HTTP/1 has the socket, unless a 101 has handed it to the
\* tunnel.  A driver of HTTP/2 has not: a task of hyper's, on an executor the
\* tracker does not know, has it until it winds down.
DriverEnds(c) ==
  LET carried == {r \in Requests : via[r] = c}
  IN  /\ driver[c] # "none"
      /\ driver' = [driver EXCEPT ![c] = "none"]
      /\ \/ UNCHANGED detached
         \/ Protocol[owner[c]] = "http2" /\ detached' = detached \cup {c}
      /\ owes' = [owes EXCEPT ![c] = {}]
      /\ upload' = [r \in Requests |-> IF r \in carried THEN "gone" ELSE upload[r]]
      /\ via' = [r \in Requests |-> IF r \in carried THEN Nobody ELSE via[r]]
      /\ doomed' = doomed \ carried
      /\ UNCHANGED <<reqs, notes, owner, store, life>>

\* hyper's task ends: no stream is left, the peer has closed, ...
WindsDown(c) ==
  /\ c \in detached
  /\ detached' = detached \ {c}
  /\ UNCHANGED <<reqs, ups, notes, driver, owner, owes, store, life>>

DriverStops(c) == (shutdown \/ driver[c] = "cancelled") /\ DriverEnds(c)

-----------------------------------------------------------------------------
(* The maintenance task: reap_idle of every pool, at every tick and once    *)
(* more when the token is cancelled.                                        *)

ReapBegin(round) ==
  /\ reap.pc = "sleep"
  /\ round = "last" => shutdown
  /\ reap' = [reap EXCEPT !.pc = "idle", !.todo = Pools, !.round = round]
  /\ UNCHANGED <<reqs, ups, notes, wires, store, shutdown, raced>>

\* The retain: the entries up to n are too old, and closed ones go, too.
Retained(p, n) ==
  LET stay == {i \in (n + 1)..Len(idle[p]) : driver[idle[p][i]] # "none"}
      Rank(i) == Cardinality({j \in stay : j <= i})
  IN  [k \in 1..Cardinality(stay) |->
         idle[p][CHOOSE i \in stay : Rank(i) = k]]

ReapIdle(p, n) ==
  LET kept == IF shutdown THEN << >> ELSE Retained(p, n)
      lost == {c \in Conns : Listed(p, c) /\ \A i \in DOMAIN kept : kept[i] # c}
  IN  /\ reap.pc = "idle"
      /\ p \in reap.todo
      /\ idle' = [idle EXCEPT ![p] = kept]
      /\ driver' = Dropped(lost)
      /\ reap' = [reap EXCEPT !.pc = "look", !.todo = @ \ {p}, !.pool = p]
      /\ UNCHANGED <<reqs, ups, notes, owner, owes, detached, slot, shutdown, raced>>

AfterPool ==
  [reap EXCEPT !.pc = IF reap.todo # {} THEN "idle"
                      ELSE IF reap.round = "last" THEN "ended" ELSE "sleep"]

\* last_activity may be long past; the active permits are read after it.
ReapLook ==
  /\ reap.pc = "look"
  /\ \/ /\ shutdown \/ Leases(reap.pool) = {}
        /\ reap' = [reap EXCEPT !.pc = "take"]
     \/ /\ ~ shutdown
        /\ Leases(reap.pool) # {} \/ MaxIdle[reap.pool] # 0
        /\ reap' = AfterPool
  /\ raced' = {}
  /\ UNCHANGED <<reqs, ups, notes, wires, store, shutdown>>

ReapTake ==
  /\ reap.pc = "take"
  /\ slot' = [slot EXCEPT ![reap.pool] = Nobody]
  /\ driver' = Dropped({slot[reap.pool]})
  /\ reap' = AfterPool
  /\ raced' = {}
  /\ UNCHANGED <<reqs, ups, notes, owner, owes, detached, idle, shutdown>>

\* Mutant: the shutdown token is not looked at between two ticks.
ReapTicks == ReapBegin("tick")

ReapStart == ReapBegin("tick") \/ ReapBegin("last")

Reap ==
  \/ \E p \in Pools : \E n \in 0..Len(idle[p]) : ReapIdle(p, n)
  \/ ReapLook
  \/ ReapTake

\* HttpProxyRuntime::close.
Shutdown ==
  /\ ~ shutdown
  /\ shutdown' = TRUE
  /\ UNCHANGED <<reqs, ups, notes, wires, store, reap, raced>>

-----------------------------------------------------------------------------
Init ==
  /\ pc = [r \in Requests |-> "idle"]
  /\ pool = [r \in Requests |-> CHOOSE p \in Pools : TRUE]
  /\ conn = [r \in Requests |-> Nobody]
  /\ answer = [r \in Requests |-> "open"]
  /\ upload = [r \in Requests |-> "gone"]
  /\ via = [r \in Requests |-> Nobody]
  /\ doomed = {}
  /\ notified = {}
  /\ stored = {}
  /\ driver = [c \in Conns |-> "none"]
  /\ owner = [c \in Conns |-> CHOOSE p \in Pools : TRUE]
  /\ owes = [c \in Conns |-> {}]
  /\ detached = {}
  /\ idle = [p \in Pools |-> << >>]
  /\ slot = [p \in Pools |-> Nobody]
  /\ shutdown = FALSE
  /\ reap = [pc |-> "sleep", todo |-> {}, pool |-> CHOOSE p \in Pools : TRUE,
             round |-> "tick"]
  /\ raced = {}

Acquire(r) ==
  \/ AcquireHttp1(r) \/ AcquireHttp2(r)
  \/ TryLocal(r) \/ Register(r) \/ Examine(r)
  \/ WakeNotified(r) \/ WakePermit(r)
  \/ TryGate(r) \/ PassGate(r) \/ Recheck(r) \/ PassLocal(r)
  \/ TryGlobal(r) \/ PassGlobal(r)
  \/ \E c \in Conns : Connected(r, c)

Exchange(r) ==
  \/ AwaitReady(r) \/ Send(r) \/ Respond(r) \/ Upgrade(r)
  \/ UploadEnds(r) \/ UploadCut(r)
  \/ ReadEnd(r) \/ ReadError(r) \/ IdleTimeout(r)

End(r) == GiveUp(r) \/ Refused(r) \/ Reject(r) \/ EndTunnel(r) \/ DropBody(r)

Next ==
  \/ \E r \in Requests :
       \/ \E p \in Pools, body \in Uploads : Begin(r, p, body)
       \/ Acquire(r) \/ Exchange(r) \/ End(r)
  \/ \E c \in Conns : DriverEnds(c) \/ WindsDown(c)
  \/ ReapStart \/ Reap
  \/ Shutdown

Spec == Init /\ [][Next]_vars

\* The runtime polls every spawned task: a driver whose token is cancelled, a
\* tunnel after shutdown, an upload whose exchange is cancelled, and the
\* maintenance task.  Its select picks a ready branch at random, so that the
\* ticks do not keep it from the cancelled token for ever.
Fairness ==
  /\ \A c \in Conns : WF_vars(DriverStops(c))
  /\ \A r \in Requests :
       /\ WF_vars(shutdown /\ EndTunnel(r))
       /\ WF_vars(r \in doomed /\ UploadCut(r))
  /\ WF_vars(Reap)
  /\ SF_vars(ReapStart /\ reap'.round = "last")

FairSpec == Spec /\ Fairness

-----------------------------------------------------------------------------
(* Properties *)

Places == Queues \cup Reserved \cup Gated \cup
          {"idle", "acquire", "gate", "ready", "sent", "body", "tunnel"}

\* Types, with what the code keeps true of each piece on its own: only waiters
\* are notified, only a held body has a carrier or is doomed, and the idle list
\* stays within max_idle_connections.
TypeOK ==
  /\ pc \in [Requests -> Places] /\ pool \in [Requests -> Pools]
  /\ conn \in [Requests -> Conns \cup {Nobody}]
  /\ answer \in [Requests -> {"open", "ended", "broken"}]
  /\ upload \in [Requests -> {"held", "done", "gone"}]
  /\ via \in [Requests -> Conns \cup {Nobody}]
  /\ doomed \subseteq {r \in Requests : upload[r] = "held"}
  /\ notified \subseteq {r \in Requests : pc[r] \in {"examine", "wait"}}
  /\ \A r \in Requests : via[r] # Nobody => upload[r] = "held"
  /\ raced \subseteq Requests /\ stored \subseteq Pools
  /\ driver \in [Conns -> {"none", "running", "cancelled"}]
  /\ owner \in [Conns -> Pools]
  /\ owes \in [Conns -> SUBSET {"request", "response"}]
  /\ detached \subseteq Conns
  /\ idle \in [Pools -> Seq(Conns)]
  /\ \A p \in Pools : Len(idle[p]) <= MaxIdle[p]
  /\ slot \in [Pools -> Conns \cup {Nobody}]
  /\ shutdown \in BOOLEAN
  /\ reap \in [pc : {"sleep", "idle", "look", "take", "ended"},
               todo : SUBSET Pools, pool : Pools, round : {"tick", "last"}]

\* The sockets that exist: those of a driver, those of an upgrade, whose
\* driver ends at the 101, and those that hyper has when the driver has ended.
Upgraded(c) ==
  \E r \in Requests : conn[r] = c /\ Http1(r) /\ pc[r] \in {"sent", "tunnel"}

Sockets == {c \in Conns : driver[c] # "none" \/ Upgraded(c) \/ c \in detached}

\* Hyper's task has no permit: what it has is counted only while a body, a
\* request or the slot still has the control of the connection.
Abandoned == {c \in detached : ~ Held(c)}

\* "Aggregate socket capacity across all ordinary HTTP/fallback pools", and
\* the capacity of each pool, bound the sockets that exist, whoever still has
\* them, and the connection attempts: all but the HTTP/2 connections whose
\* driver was cancelled or has ended, and which nobody has a reference to, for
\* as long as hyper takes to wind them down.  With them TypeOK, which bounds
\* the idle list.
SocketsBounded ==
  LET counted == Sockets \ Abandoned
  IN  /\ TypeOK
      /\ Cardinality(counted) + Cardinality({r \in Requests : pc[r] = "connect"})
           <= GlobalMax
      /\ \A p \in Pools :
           Cardinality({c \in counted : owner[c] = p})
             + Cardinality(At(p, {"connect"})) <= MaxConnections[p]

\* No open HTTP/1 connection is offered to another exchange, or taken by one,
\* while a half of its previous exchange is still under way: "Body and
\* admission leases remain alive in both directions, including early
\* responses".
CleanReuse ==
  \A c \in Conns :
    (\/ \E p \in Pools : Listed(p, c)
     \/ \E r \in Requests : /\ conn[r] = c /\ Http1(r)
                            /\ pc[r] \in {"ready", "readywait"})
      => owes[c] = {}

\* No lost wakeup (acquire_http1: "Register notification before examining the
\* idle list to avoid lost wakeups"): while a waiter sleeps, every connection
\* in the idle list has somebody on the way to it: a waiter about to examine
\* the list, or a notification, which its owner uses or passes on.
NoLostWakeup ==
  \A p \in Pools :
    At(p, {"wait"}) \ notified # {} =>
      Len(idle[p]) <= Cardinality(At(p, {"register", "examine"}))
                        + Cardinality(Of(p) \cap notified)

\* Neither the maintenance task nor another request cancels the connection of
\* an exchange under way, except for one that begins between the two looks of
\* reap_idle, at the active permits and at the slot.
NotCutShort ==
  [][\A r \in Requests :
       /\ conn[r] # Nobody /\ conn'[r] = conn[r]
       /\ driver[conn[r]] = "running" /\ driver'[conn[r]] = "cancelled"
       => shutdown \/ r \in raced]_vars

\* Once the proxy is closed its tasks end: HttpProxyRuntime::wait returns.
TrackerEmpty ==
  /\ reap.pc = "ended"
  /\ \A c \in Conns : driver[c] = "none"
  /\ \A r \in Requests : pc[r] # "tunnel"

ShutdownDrains == shutdown ~> TrackerEmpty

\* The exchange of an answered HTTP/1 request is over in the end, however
\* slow its client: its upload does not hold the permits for ever.
LeaseReturns ==
  \A r \in Requests :
    pc[r] = "idle" /\ upload[r] = "held" /\ Http1(r) ~> upload[r] # "held"
=============================================================================
