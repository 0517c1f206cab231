------------------------------ MODULE Gateway -------------------------------
(***************************************************************************)
(* The listener of src/src/gateway/listener.rs: connection tasks, the      *)
(* permits that bound them and their requests (admission.rs, body.rs), the *)
(* tasks a request may leave behind (websocket.rs, http_proxy/runtime.rs,  *)
(* grpc/proxy.rs), and the shutdown of everything, in its order.           *)
(*                                                                         *)
(* The permits of a request are in its RequestLease and free when the last *)
(* reference to it is dropped: who has one is state of its own.  Timers    *)
(* may fire whenever they run.                                             *)
(***************************************************************************)
EXTENDS Naturals, FiniteSets

CONSTANTS
  Conns,          \* sockets, reused when free
  Requests,       \* requests, likewise
  NoConn,
  Absent,         \* the peers without a task: no ACME, cache file, or output
  MaxConnections, MaxHandshakes, MaxRequests  \* ServerConfig

ASSUME GatewayAssumption ==
  /\ IsFiniteSet(Conns) /\ IsFiniteSet(Requests) /\ NoConn \notin Conns
  /\ MaxConnections \in Nat \ {0} /\ MaxHandshakes \in Nat \ {0}
  /\ MaxRequests \in Nat \ {0} /\ Absent \subseteq {"acme", "cf", "obs"}

VARIABLES
  listener,  \* where run() is
  signal,    \* the shutdown signal has come
  conn,      \* the connection task: "free" (none), ..., "closed" (not joined)
  proto,     \* "h1" or "h2", once negotiated
  req,       \* where a request is, what goes on for it, and its connection
  holders,   \* who has a reference to the RequestLease of a request
  task,      \* the peers of the listener: "acme", "cf", "ip", "obs"
  reaped,    \* block_manager_finished
  overdue    \* the data plane exceeded its grace period

peers == <<task, reaped>>
vars == <<listener, signal, conn, proto, req, holders, peers, overdue>>

Peers == {"acme", "cf", "ip", "obs"}
Alive == {"handshake", "open", "draining"}
Accepting == listener \in {"poll", "offer"}
Cancelled == ~Accepting

NoRequest == [at |-> "none", work |-> "none", on |-> NoConn]

-----------------------------------------------------------------------------
(* Who holds which permit *)

Holders == {"handler", "request", "body", "work"}

(* The permits of a request are taken as long as anybody has the lease.    *)
Leases == {r \in Requests : holders[r] # {}}

(* A connection has its permit from its task and from every lease.         *)
Transports == {c \in Conns : conn[c] \in Alive} \cup {req[r].on : r \in Leases}
Handshakes == {c \in Conns : conn[c] = "handshake"}

(* RequestLease::new: the handler has it, and the request, as an extension *)
NewLease == {"handler", "request"}

(* The exchange or stream gets a clone; the request goes, its extensions   *)
(* with it.                                                                *)
HandedOver(r) == (holders[r] \ {"request"}) \cup {"work"}

(* What is left when handler, request and response are dropped             *)
Left(r) == holders[r] \cap {"work"}

(* Mutant: the body of the response keeps no lease. *)
Unwrapped(r) == Left(r)

(* body::with_admission: the lease of the handler goes to the AdmissionBody *)
Wrapped(r) == Left(r) \cup {"body"}

-----------------------------------------------------------------------------
Init == /\ listener = "poll" /\ signal = FALSE
        /\ conn = [c \in Conns |-> "free"] /\ proto = [c \in Conns |-> "h1"]
        /\ req = [r \in Requests |-> NoRequest] /\ holders = [r \in Requests |-> {}]
        /\ task = [t \in Peers |-> IF t \in Absent THEN "stopped" ELSE "running"]
        /\ reaped = FALSE
        /\ overdue = FALSE

(* The loop of run(): one pass over its branches, in their order *)

Signal == /\ Accepting /\ ~signal /\ signal' = TRUE
          /\ UNCHANGED <<listener, conn, proto, req, holders, peers, overdue>>

StopOnSignal == /\ listener = "poll" /\ signal
                /\ listener' = "joining"
                /\ UNCHANGED <<signal, conn, proto, req, holders, peers, overdue>>

Join(c) == /\ (listener = "poll" /\ ~signal) \/ listener = "joining"
           /\ conn[c] = "closed"
           /\ conn' = [conn EXCEPT ![c] = "free"]
           /\ proto' = [proto EXCEPT ![c] = "h1"]
           /\ UNCHANGED <<listener, signal, req, holders, peers, overdue>>

Joinable == {c \in Conns : conn[c] = "closed"}

StopOnManager == /\ listener = "poll" /\ ~signal /\ Joinable = {}
                 /\ task["ip"] = "stopped"
                 /\ listener' = "joining" /\ reaped' = TRUE
                 /\ UNCHANGED <<signal, conn, proto, req, holders, task, overdue>>

(* Mutant: a ready listener is looked at before the other tasks. *)
LookAnyway == /\ listener = "poll" /\ ~signal
              /\ listener' = "offer"
              /\ UNCHANGED <<signal, conn, proto, req, holders, peers, overdue>>

Look == /\ listener = "poll" /\ ~signal /\ Joinable = {} /\ task["ip"] = "running"
        /\ listener' = "offer"
        /\ UNCHANGED <<signal, conn, proto, req, holders, peers, overdue>>

Accept(c) == /\ listener = "offer"
             /\ conn[c] = "free" /\ \A r \in Requests : req[r].on # c
             /\ Cardinality(Transports) < MaxConnections
             /\ Cardinality(Handshakes) < MaxHandshakes
             /\ conn' = [conn EXCEPT ![c] = "handshake"]
             /\ listener' = "poll"
             /\ UNCHANGED <<signal, proto, req, holders, peers, overdue>>

(* No socket is waiting, or it is dropped for want of a permit. *)
Decline == /\ listener = "offer" /\ listener' = "poll"
           /\ UNCHANGED <<signal, conn, proto, req, holders, peers, overdue>>

AcceptFails == /\ listener = "offer" /\ listener' = "joining"
               /\ UNCHANGED <<signal, conn, proto, req, holders, peers, overdue>>

-----------------------------------------------------------------------------
(* serve_connection *)

Handshake(c) == /\ conn[c] = "handshake"
                /\ conn' = [conn EXCEPT ![c] = "open"]
                /\ \E p \in {"h1", "h2"} : proto' = [proto EXCEPT ![c] = p]
                /\ UNCHANGED <<listener, signal, req, holders, peers, overdue>>

HandshakeEnds(c) == /\ conn[c] = "handshake"   \* failure or tls_handshake_timeout
                    /\ conn' = [conn EXCEPT ![c] = "closed"]
                    /\ UNCHANGED <<listener, signal, proto, req, holders, peers, overdue>>

Settled(q) == IF q.at = "none" /\ q.work = "none" THEN NoRequest ELSE q

(* The connection is dropped: an HTTP/1 request goes with it; the streams  *)
(* of HTTP/2 are tasks of hyper's executor that have still to learn of it. *)
CloseConnection(c) ==
  /\ conn' = [conn EXCEPT ![c] = "closed"]
  /\ req' = [r \in Requests |-> IF req[r].on = c /\ proto[c] = "h1"
                                THEN Settled([req[r] EXCEPT !.at = "none"])
                                ELSE req[r]]
  /\ holders' = [r \in Requests |-> IF req[r].on = c /\ proto[c] = "h1"
                                    THEN Left(r) ELSE holders[r]]
  /\ UNCHANGED <<listener, signal, proto, peers, overdue>>

(* The peer closes, or the connection fails; in a drain, the grace period  *)
(* of the connection may end as well.                                      *)
ConnectionEnds(c) == conn[c] \in {"open", "draining"} /\ CloseConnection(c)
GraceExpires(c) == conn[c] = "draining" /\ CloseConnection(c)

Drain(c) == /\ conn[c] = "open" /\ Cancelled
            /\ conn' = [conn EXCEPT ![c] = "draining"]
            /\ UNCHANGED <<listener, signal, proto, req, holders, peers, overdue>>

-----------------------------------------------------------------------------
(* handle_request, and what it leaves behind *)

Driven(c) == {r \in Requests : req[r].on = c /\ (req[r].at # "none" \/ req[r].work = "upgrading")}

Admit(r, c) == /\ conn[c] \in {"open", "draining"} /\ req[r] = NoRequest
               /\ proto[c] = "h1" => Driven(c) = {}
               /\ Cardinality(Leases) < MaxRequests
               /\ req' = [req EXCEPT ![r] = [at |-> "handler", work |-> "none", on |-> c]]
               /\ holders' = [holders EXCEPT ![r] = NewLease]
               /\ UNCHANGED <<listener, signal, conn, proto, peers, overdue>>

Becomes(r, at, work, held) ==
  /\ req' = [req EXCEPT ![r] = Settled([at |-> at, work |-> work, on |-> req[r].on])]
  /\ holders' = [holders EXCEPT ![r] = held]
  /\ UNCHANGED <<listener, signal, conn, proto, peers, overdue>>

Driving(r) == req[r].on # NoConn /\ conn[req[r].on] \in {"open", "draining"}

(* The handler starts something that goes on without it: a "task" that the *)
(* runtimes wait for (the relay of a WebSocket over HTTP/2, an upload to   *)
(* HTTP/1), or a "pipe" of the executor, which nobody waits for (to        *)
(* HTTP/2).  The stream of a closed connection is a "late" one: its task   *)
(* polls the handler once more before it looks for the reset.              *)
Begin(r) == /\ req[r].at = "handler" /\ "request" \in holders[r]
            /\ \E w \in IF Driving(r) THEN {"task", "pipe"} ELSE {"late", "pipe"} :
                 Becomes(r, "handler", w, HandedOver(r))

Answer(r) == /\ req[r].at = "handler" /\ Driving(r)
             /\ Becomes(r, "body", req[r].work, Wrapped(r))

(* A stream without its connection is reset. *)
Reset(r) == /\ req[r].at # "none" /\ ~Driving(r)
            /\ Becomes(r, "none", req[r].work, Left(r))

(* 101 Switching Protocols: a relay or tunnel waits for the socket. *)
Switch(r) == /\ req[r].at = "handler" /\ Driving(r) /\ proto[req[r].on] = "h1"
             /\ "request" \in holders[r]
             /\ Becomes(r, "body", "upgrading", Wrapped(r) \cup {"work"})

(* AdmissionBody: the last frame, an error, or hyper drops it. *)
BodyEnds(r) == req[r].at = "body" /\ Driving(r) /\ Becomes(r, "none", req[r].work, Left(r))

(* hyper hands the socket over; the connection task is done. *)
Upgraded(r) == /\ req[r].at = "none" /\ req[r].work = "upgrading" /\ Driving(r)
               /\ conn' = [conn EXCEPT ![req[r].on] = "closed"]
               /\ req' = [req EXCEPT ![r].work = "tunnel"]
               /\ UNCHANGED <<listener, signal, proto, holders, peers, overdue>>

(* The upgrade fails or times out, the relay, upload or stream ends. *)
WorkEnds(r) == req[r].work # "none" /\ Becomes(r, req[r].at, "none", holders[r] \ {"work"})

-----------------------------------------------------------------------------
(* Shutdown *)

(* Mutant: the data plane is awaited before the connections are. *)
NoneJoined == /\ listener = "joining"
              /\ listener' = "plane"
              /\ UNCHANGED <<signal, conn, proto, req, holders, peers, overdue>>

AllJoined == /\ listener = "joining" /\ \A c \in Conns : conn[c] = "free"
             /\ listener' = "plane"
             /\ UNCHANGED <<signal, conn, proto, req, holders, peers, overdue>>

(* websocket, grpc and http wait() *)
Tracked == {r \in Requests : req[r].work \in {"task", "late", "upgrading", "tunnel"}}

PlaneEnds == /\ listener = "plane" /\ Tracked = {}
             /\ listener' = "acme"
             /\ UNCHANGED <<signal, conn, proto, req, holders, peers, overdue>>

(* They wait for the drivers of pooled connections as well, which are not  *)
(* in this state.                                                          *)
PlaneOverdue == /\ listener = "plane"
                /\ listener' = "acme" /\ overdue' = TRUE
                /\ UNCHANGED <<signal, conn, proto, req, holders, peers>>

Await(t, next) == /\ listener = t /\ task[t] = "stopped"
                  /\ listener' = next
                  /\ UNCHANGED <<signal, conn, proto, req, holders, peers, overdue>>

(* Mutant: a join handle whose result was taken never yields another. *)
AwaitManagerAgain == ~reaped /\ Await("ip", "obs")

AwaitManager == \/ Await("ip", "obs")
                \/ /\ listener = "ip" /\ reaped /\ listener' = "obs"
                   /\ UNCHANGED <<signal, conn, proto, req, holders, peers, overdue>>

(* observability_shutdown.cancel() *)
ObservabilityCancelled == listener \in {"obs", "done"}

TaskStops(t) == /\ task[t] = "running"
                /\ IF t = "obs" THEN ObservabilityCancelled ELSE Cancelled
                /\ task' = [task EXCEPT ![t] = "stopped"]
                /\ UNCHANGED <<listener, signal, conn, proto, req, holders, reaped, overdue>>

(* The manager task ends by itself. *)
ManagerStops == /\ task["ip"] = "running"
                /\ task' = [task EXCEPT !["ip"] = "stopped"]
                /\ UNCHANGED <<listener, signal, conn, proto, req, holders, reaped, overdue>>

Shutdown == \/ AllJoined \/ PlaneEnds \/ PlaneOverdue
            \/ Await("acme", "cf") \/ Await("cf", "ip")
            \/ AwaitManager \/ Await("obs", "done")

Loop == \/ StopOnSignal \/ (\E c \in Conns : Join(c))
        \/ StopOnManager \/ Look \/ (\E c \in Conns : Accept(c)) \/ Decline

Run == Loop \/ Shutdown

Serve == \/ \E c \in Conns : \/ Handshake(c) \/ HandshakeEnds(c) \/ Drain(c)
                             \/ ConnectionEnds(c) \/ GraceExpires(c)
         \/ \E r \in Requests : \/ Begin(r) \/ Answer(r) \/ Switch(r) \/ BodyEnds(r)
                                \/ Upgraded(r) \/ WorkEnds(r) \/ Reset(r)
                                \/ \E c \in Conns : Admit(r, c)

Next == \/ Run \/ Serve \/ Signal \/ AcceptFails \/ ManagerStops
        \/ \E t \in Peers : TaskStops(t)

(* run() and cancelled tasks are polled; timers fire.  Nothing is assumed  *)
(* of clients, handlers, relays or new connections.                        *)
Fairness == /\ WF_vars(Run)
            /\ \A c \in Conns : /\ WF_vars(HandshakeEnds(c))
                                /\ WF_vars(Drain(c)) /\ WF_vars(GraceExpires(c))
            /\ \A t \in Peers : WF_vars(TaskStops(t))

Spec == Init /\ [][Next]_vars
FairSpec == Spec /\ Fairness

-----------------------------------------------------------------------------
(* Types; a request has a connection exactly as long as there is anything  *)
(* left of it.                                                             *)
TypeOK ==
  /\ listener \in {"poll", "offer", "joining", "plane", "acme", "cf", "ip", "obs", "done"}
  /\ signal \in BOOLEAN /\ reaped \in BOOLEAN /\ overdue \in BOOLEAN
  /\ conn \in [Conns -> {"free", "closed"} \cup Alive]
  /\ proto \in [Conns -> {"h1", "h2"}]
  /\ req \in [Requests -> [at : {"none", "handler", "body"},
                           work : {"none", "task", "late", "pipe", "upgrading", "tunnel"},
                           on : Conns \cup {NoConn}]]
  /\ \A r \in Requests : /\ req[r].on = NoConn <=> req[r] = NoRequest
                         /\ Settled(req[r]) = req[r]
  /\ holders \in [Requests -> SUBSET Holders]
  /\ task \in [Peers -> {"running", "stopped"}]

(* A socket is served by a connection task, or by the relay or tunnel it   *)
(* was handed to; together they never exceed max_connections ("the         *)
(* transport permit survives HTTP/1 Upgrade via the request lease").       *)
Sockets == {c \in Conns : conn[c] \in Alive}
           \cup {req[r].on : r \in {q \in Requests : req[q].work = "tunnel"}}
SocketsCovered == Cardinality(Sockets) <= MaxConnections

(* Handlers, the responses they have given, and relays, tunnels, streams   *)
(* and uploads that go on are never those of more than max_active_requests *)
(* requests together: whatever goes on for a request keeps its lease, from *)
(* hand to hand (RequestLease, with_admission, ExchangeLease, StreamLease); *)
(* and no permit is kept for a request of which nothing is left.           *)
Busy == {r \in Requests : req[r].at \in {"handler", "body"} \/ req[r].work # "none"}
RequestsCovered == Cardinality(Busy) <= MaxRequests /\ Leases \subseteq Busy

(* Observability is the last to go: when it is told to write its final     *)
(* summary, the connections and the other peers are gone and so are relays *)
(* and tunnels, but for a data plane that exceeded the grace period and    *)
(* for what a stream has begun after its connection was closed.            *)
LastOut == ObservabilityCancelled =>
             /\ \A c \in Conns : conn[c] = "free"
             /\ \A t \in Peers \ {"obs"} : task[t] = "stopped"
             /\ overdue \/ \A r \in Tracked : req[r].work = "late"

(* The loss of the IP block manager ends the service of the gateway, even  *)
(* under a stream of connections that come and go without end.             *)
ManagerLossNoticed == (task["ip"] = "stopped") ~> Cancelled

(* Shutdown, for whatever reason it began, ends, although clients, relays  *)
(* and handlers may never do.                                              *)
ShutdownEnds == (signal \/ Cancelled) ~> (listener = "done")
=============================================================================
