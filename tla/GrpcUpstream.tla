---------------------------- MODULE GrpcUpstream ----------------------------
(***************************************************************************)
(* src/src/grpc/proxy.rs: the calls of GrpcRuntime::proxy to one backend,  *)
(* which share the cached sender of one HTTP/2 connection, the gate that   *)
(* lets one of them connect, and the permits for concurrent streams.       *)
(* Backends have nothing in common but the shutdown token.                 *)
(*                                                                         *)
(* A handler may be dropped at every await (its client has gone).  A       *)
(* permit is held by whoever has the StreamLease: the handler, the request *)
(* body, the response body.  A call refused at once (status 14 after the   *)
(* shutdown, 8 at the limit) leaves no trace; handle_request has seen to   *)
(* it that requests are valid and carry a lease of the gateway.            *)
(***************************************************************************)
EXTENDS Naturals, Sequences, FiniteSets

CONSTANTS
  Calls, Conns, NoConn,
  MaxStreams     \* max_concurrent_streams_per_backend

ASSUME GrpcAssumption ==
  /\ IsFiniteSet(Calls) /\ NoConn \notin Conns /\ MaxStreams \in Nat \ {0}

VARIABLES
  pc,        \* where the handler of a call is, or its response "body"
  conn,      \* the connection whose sender it has, or that carries it
  uploading, \* calls whose request body is with the connection
  gate,      \* connect_gate: who has the permit, then who waits, in order
  cached,    \* sender: the connection whose sender is kept, or NoConn
  state,     \* of a connection: its driver, and the stream of bytes below
  shutdown,
  stale      \* history: the connections that were closed when a call came

calls == <<pc, conn, uploading, gate, stale>>
vars == <<pc, conn, uploading, gate, cached, state, shutdown, stale>>

(* The driver hands requests to the connection; what is under way survives *)
(* it.  "lost" is a connection whose driver has yet to learn of its end.   *)
States == {"dead", "live", "lost", "detached"}

Waiting == {"peek", "gate", "connect", "store", "ready"}
Handler == Waiting \cup {"send"}

Closed(c) == state[c] \in {"dead", "detached"}      \* SendRequest::is_closed
Cached == cached # NoConn /\ ~Closed(cached)        \* cached_sender

Senders(c) == {r \in Calls : conn[r] = c /\ pc[r] \in {"store", "ready", "send"}}
Streams == {r \in Calls : pc[r] \in {"send", "body"}} \cup uploading

Leases == {r \in Calls : pc[r] # "idle"} \cup uploading

Init == /\ pc = [r \in Calls |-> "idle"] /\ conn = [r \in Calls |-> NoConn]
        /\ uploading = {} /\ gate = <<>> /\ cached = NoConn
        /\ state = [c \in Conns |-> "dead"] /\ shutdown = FALSE
        /\ stale = [r \in Calls |-> {}]

-----------------------------------------------------------------------------
(* Calls *)

Goes(r, place) == pc' = [pc EXCEPT ![r] = place]

Without(s, r) ==
  IF \A i \in 1..Len(s) : s[i] # r THEN s
  ELSE LET at == CHOOSE i \in 1..Len(s) : s[i] = r
       IN [i \in 1..(Len(s) - 1) |-> IF i < at THEN s[i] ELSE s[i + 1]]

Releases(r) == gate' = Without(gate, r)

(* The handler is over, with an answer or dropped: all it had goes with it. *)
Ends(r) == /\ Goes(r, "idle") /\ Releases(r)
           /\ stale' = [stale EXCEPT ![r] = {}]
           /\ UNCHANGED <<conn, uploading, cached, state, shutdown>>

Arrive(r) ==
  /\ pc[r] = "idle" /\ r \notin uploading /\ ~shutdown
  /\ Cardinality(Leases) < MaxStreams
  /\ Goes(r, "peek")
  /\ conn' = [conn EXCEPT ![r] = NoConn]
  /\ stale' = [stale EXCEPT ![r] = {c \in Conns : Closed(c)}]
  /\ UNCHANGED <<uploading, gate, cached, state, shutdown>>

Takes(r) == Goes(r, "ready") /\ conn' = [conn EXCEPT ![r] = cached] /\ Releases(r)

(* Mutant: the first look does not ask whether the connection is closed. *)
PeekAtAny(r) ==
  /\ pc[r] = "peek" /\ UNCHANGED <<uploading, cached, state, shutdown, stale>>
  /\ \/ cached # NoConn /\ Takes(r)
     \/ cached = NoConn /\ Goes(r, "gate") /\ gate' = Append(gate, r) /\ UNCHANGED conn

Peek(r) ==
  /\ pc[r] = "peek" /\ UNCHANGED <<uploading, cached, state, shutdown, stale>>
  /\ \/ Cached /\ Takes(r)
     \/ ~Cached /\ Goes(r, "gate") /\ gate' = Append(gate, r) /\ UNCHANGED conn

(* Mutant: no second look once the gate is open. *)
EnterBlindly(r) ==
  /\ pc[r] = "gate" /\ Head(gate) = r
  /\ Goes(r, "connect") /\ UNCHANGED <<conn, gate, uploading, cached, state, shutdown, stale>>

(* Senders are stored by the holder of the gate only: the second look can  *)
(* be taken with the permit.                                               *)
Enter(r) ==
  /\ pc[r] = "gate" /\ Head(gate) = r
  /\ UNCHANGED <<uploading, cached, state, shutdown, stale>>
  /\ \/ Cached /\ Takes(r)
     \/ ~Cached /\ Goes(r, "connect") /\ UNCHANGED <<conn, gate>>

GateStopped(r) == pc[r] = "gate" /\ shutdown /\ Ends(r)

Free(c) == /\ state[c] = "dead" /\ cached # c
           /\ \A r \in Calls : conn[r] = c => pc[r] = "idle" /\ r \notin uploading

(* Connected, and the driver spawned: the sender is not stored yet. *)
Connect(r) ==
  /\ pc[r] = "connect"
  /\ \E c \in Conns :
       /\ Free(c)
       /\ state' = [state EXCEPT ![c] = "live"]
       /\ conn' = [conn EXCEPT ![r] = c]
       /\ stale' = [s \in Calls |-> stale[s] \ {c}]
  /\ Goes(r, "store") /\ UNCHANGED <<uploading, gate, cached, shutdown>>

(* Mutant: no timeout around the connection. *)
ConnectStopped(r) == pc[r] = "connect" /\ shutdown /\ Ends(r)

(* Refused, failed, timed out, or given up for the shutdown. *)
ConnectFails(r) == pc[r] = "connect" /\ Ends(r)

Store(r) ==
  /\ pc[r] = "store" /\ cached' = conn[r]
  /\ Goes(r, "ready") /\ Releases(r)
  /\ UNCHANGED <<conn, uploading, state, shutdown, stale>>

(* ready() and send_request(): the request, and with it its body unless    *)
(* that is empty, belongs to the connection from here on.                  *)
Send(r) ==
  /\ pc[r] = "ready" /\ ~Closed(conn[r]) /\ Goes(r, "send")
  /\ uploading' \in {uploading, uploading \cup {r}}
  /\ UNCHANGED <<conn, gate, cached, state, shutdown, stale>>

SendRefused(r) == pc[r] = "ready" /\ (Closed(conn[r]) \/ shutdown) /\ Ends(r)

Answered(r) == /\ pc[r] = "send" /\ Goes(r, "body") /\ stale' = [stale EXCEPT ![r] = {}]
               /\ UNCHANGED <<conn, uploading, gate, cached, state, shutdown>>

SendStopped(r) == pc[r] = "send" /\ shutdown /\ Ends(r)

(* The stream fails, or the handler is dropped: the body, if it is with    *)
(* the connection, goes on.                                                *)
SendFails(r) == pc[r] = "send" /\ Ends(r)

Dropped(r) == pc[r] \in Waiting /\ Ends(r)

BodyEnds(r) == pc[r] = "body" /\ Ends(r)

UploadEnds(r) == /\ r \in uploading /\ uploading' = uploading \ {r}
                 /\ UNCHANGED <<pc, conn, gate, cached, state, shutdown, stale>>

-----------------------------------------------------------------------------
(* Connections *)

Becomes(c, from, to) ==
  /\ state[c] = from /\ state' = [state EXCEPT ![c] = to]
  /\ UNCHANGED <<calls, cached, shutdown>>

(* Mutant: the driver does not look at the token. *)
DriverStoppedNever(c) == FALSE /\ Becomes(c, "live", "detached")

DriverStopped(c) == shutdown /\ (Becomes(c, "live", "detached") \/ Becomes(c, "lost", "dead"))
DriverLearns(c) == Becomes(c, "lost", "dead")

(* A connection that nobody can send on any more. *)
DriverUnused(c) == cached # c /\ Senders(c) = {} /\ Becomes(c, "live", "detached")

GoAway(c) == Becomes(c, "live", "detached")
Lost(c) == Becomes(c, "live", "lost") \/ Becomes(c, "detached", "dead")
LastStreamEnds(c) == (\A r \in Streams : conn[r] # c) /\ Becomes(c, "detached", "dead")

Shutdown == ~shutdown /\ shutdown' = TRUE /\ UNCHANGED <<calls, cached, state>>

Next ==
  \/ \E r \in Calls :
       \/ Arrive(r) \/ Peek(r) \/ Enter(r) \/ GateStopped(r)
       \/ Connect(r) \/ ConnectFails(r) \/ Store(r)
       \/ Send(r) \/ SendRefused(r) \/ Answered(r) \/ SendStopped(r) \/ SendFails(r)
       \/ Dropped(r) \/ BodyEnds(r) \/ UploadEnds(r)
  \/ \E c \in Conns :
       \/ DriverStopped(c) \/ DriverLearns(c) \/ DriverUnused(c)
       \/ GoAway(c) \/ Lost(c) \/ LastStreamEnds(c)
  \/ Shutdown

Fairness ==
  /\ \A r \in Calls :
       /\ WF_vars(Peek(r)) /\ WF_vars(Enter(r)) /\ WF_vars(ConnectFails(r))
       /\ WF_vars(Store(r)) /\ WF_vars(Send(r) \/ SendRefused(r))
       /\ WF_vars(GateStopped(r)) /\ WF_vars(SendStopped(r))
  /\ \A c \in Conns : WF_vars(DriverStopped(c)) /\ WF_vars(DriverLearns(c))

Spec == Init /\ [][Next]_vars /\ Fairness
-----------------------------------------------------------------------------
(* Properties *)

(* Types, and whose turn it is at the gate: only its holder connects, and  *)
(* nobody else stands in the line than those who wait.                     *)
TypeOK ==
  /\ pc \in [Calls -> {"idle", "body"} \cup Handler]
  /\ conn \in [Calls -> Conns \cup {NoConn}]
  /\ uploading \subseteq Calls /\ cached \in Conns \cup {NoConn}
  /\ state \in [Conns -> States] /\ shutdown \in BOOLEAN
  /\ stale \in [Calls -> SUBSET Conns]
  /\ gate \in Seq(Calls)
  /\ \A i, j \in 1..Len(gate) : gate[i] = gate[j] => i = j
  /\ \A i \in 1..Len(gate) : pc[gate[i]] \in {"gate", "connect", "store"}
  /\ \A r \in Calls : /\ pc[r] \in {"connect", "store"} => gate # <<>> /\ gate[1] = r
                      /\ pc[r] = "gate" => \E i \in 1..Len(gate) : gate[i] = r
                      /\ pc[r] \in {"store", "ready", "send", "body"} => conn[r] \in Conns
                      /\ r \in uploading => conn[r] \in Conns

(* However many calls find no sender at once, and wherever the one that    *)
(* connects is dropped: there is one connection to send on.                *)
OneConnection ==
  \A c, d \in Conns :
    /\ ~Closed(c) /\ (cached = c \/ Senders(c) # {})
    /\ ~Closed(d) /\ (cached = d \/ Senders(d) # {})
    => c = d

(* The backend has no more streams than its limit, counting those of which *)
(* one direction is left: an upload whose call failed, or an answer that   *)
(* is still being read.                                                    *)
StreamsBounded == Cardinality(Streams) <= MaxStreams

(* A call does not fail by a connection that had ended before it came,     *)
(* though nobody removes a closed sender.                                  *)
FreshConnection ==
  \A r \in Calls : pc[r] \in {"ready", "send"} => conn[r] \notin stale[r]

(* No call waits for ever before its request is sent: neither for the gate,*)
(* whose holder may fail or be dropped anywhere, nor for the backend.      *)
CallsProceed == \A r \in Calls : pc[r] \in Waiting ~> pc[r] \notin Waiting

(* After the shutdown no driver runs, and no handler waits, not even those *)
(* that connected while it was announced.                                  *)
Quiet == /\ \A c \in Conns : Closed(c)
         /\ \A r \in Calls : pc[r] \notin Handler

ShutdownQuiet == shutdown ~> []Quiet
=============================================================================
