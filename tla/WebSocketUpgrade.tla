------------------------- MODULE WebSocketUpgrade --------------------------
(***************************************************************************)
(* src/src/gateway/websocket.rs: WebSocketRuntime::accept, which answers a *)
(* WebSocket request, and the task it spawns.  The client is told of the   *)
(* upgrade once the backend has taken its own; over HTTP/1 the task waits  *)
(* for the client's connection to be switched before the relay of          *)
(* WebSocketRelay begins, over HTTP/2 it begins at once.  `main' names the *)
(* place of the exchange before the relay too.                             *)
(***************************************************************************)
EXTENDS WebSocketRelay

CONSTANT Protocols   \* the subprotocols that can be offered or selected

(* sound: a GET that asks for an upgrade, an extended CONNECT of version   *)
(* 13; keyed: key and version of HTTP/1; plain: one Authorization at most, *)
(* and cookies, origin and authority that can be forwarded.                *)
Requests == [version: {"http1", "http2", "other"}, sound: BOOLEAN,
             plain: BOOLEAN, keyed: BOOLEAN, offered: SUBSET Protocols]

VARIABLES
  request,    \* hyper's request
  answer,     \* the status of the response, or 0
  selected    \* the subprotocols named in the response

handshake == <<request, answer, selected>>
upgradeVars == <<vars, handshake>>

Before == {"accept", "connect", "upgrade", "launch"}

UpgradeInit ==
  /\ Fresh /\ main = "accept" /\ pump = [p \in Peers |-> [Idle EXCEPT !.at = "none"]]
  /\ request \in Requests /\ answer = 0 /\ selected = {}

untouched == <<tcp, heard, pump, holder, wire, lost, shutdown, cancelled, reason, closing>>

-----------------------------------------------------------------------------
(* AcceptError *)

Status(error) ==
  CASE error = "Http1UpgradeRequired" -> 426
    [] error = "UnsupportedHttpVersion" -> 505
    [] error = "ShuttingDown" -> 503
    [] error \in {"BackendTimeout", "Backend"} -> 502
    [] OTHER -> 400

(* Mutant: what is no failure of the backend is the client's. *)
IsNotBackendFailure(error) == error \notin {"BackendTimeout", "Backend"}

IsClientProtocolViolation(error) ==
  error \in {"Http1UpgradeRequired", "Http2ExtendedConnectRequired",
             "UnsupportedHttpVersion", "InvalidHandshake", "InvalidHeaders"}

(* handle_request turns the error into a response and a violation. *)
Refuse(error) ==
  /\ main' = "done" /\ answer' = Status(error)
  /\ blamed' = IF IsClientProtocolViolation(error) THEN blamed + 1 ELSE blamed
  /\ UNCHANGED <<request, selected>> /\ UNCHANGED untouched

-----------------------------------------------------------------------------
(* accept *)

ValidateDownstreamHandshake ==
  CASE request.version = "other" -> "UnsupportedHttpVersion"
    [] request.version = "http1" /\ ~request.sound -> "Http1UpgradeRequired"
    [] request.version = "http2" /\ ~request.sound -> "Http2ExtendedConnectRequired"
    [] OTHER -> "ok"

FromDownstream == IF request.plain THEN "ok" ELSE "InvalidHeaders"

H1Upgrade == IF request.version = "http2" \/ request.keyed THEN "ok" ELSE "InvalidHandshake"

(* The errors in the order in which they are looked for. *)
Verdict ==
  IF ValidateDownstreamHandshake # "ok" THEN ValidateDownstreamHandshake
  ELSE IF FromDownstream # "ok" THEN FromDownstream ELSE H1Upgrade

Goes(place) == main' = place /\ UNCHANGED blamed /\ UNCHANGED untouched

Accept ==
  /\ main = "accept"
  /\ IF shutdown THEN Refuse("ShuttingDown")
     ELSE IF Verdict # "ok" THEN Refuse(Verdict)
     ELSE Goes("connect") /\ UNCHANGED handshake

(* select! between the token and the timeout, in any order *)
ConnectStopped == main = "connect" /\ shutdown /\ Refuse("ShuttingDown")
ConnectTimesOut == main = "connect" /\ Refuse("BackendTimeout")
ConnectFails == main = "connect" /\ Refuse("Backend")

ValidateBackendSubprotocol(names) ==
  names = {} \/ \E name \in request.offered : names = {name}

(* The spawned task owns the lease and the backend from here on. *)
Connected(names) ==
  /\ answer' = IF request.version = "http1" THEN 101 ELSE 200
  /\ selected' = names /\ UNCHANGED request
  /\ Goes(IF request.version = "http1" THEN "upgrade" ELSE "launch")

ConnectWebSocket ==
  /\ main = "connect" /\ ~tcp
  /\ \E names \in SUBSET Protocols :
       IF ValidateBackendSubprotocol(names) THEN Connected(names) ELSE Refuse("Backend")

ConnectTcp == main = "connect" /\ tcp /\ Connected({})

(* hyper drops the handler with the client's connection or stream. *)
HandlerDropped == main = "connect" /\ Goes("done") /\ UNCHANGED handshake

-----------------------------------------------------------------------------
(* The task *)

(* Nothing of the relay depends on the handshake: it is forgotten, so that *)
(* the relay's states are not told apart by it.                            *)
Start ==
  /\ main' = "run" /\ pump' = [p \in Peers |-> Idle]
  /\ request' = (CHOOSE r \in Requests : TRUE) /\ answer' = 0 /\ selected' = {}
  /\ UNCHANGED <<tcp, heard, holder, wire, lost, shutdown, cancelled, reason, closing, blamed>>

EstablishedRelay == main = "launch" /\ Start
DownstreamUpgraded == main = "upgrade" /\ Start

DownstreamFails == main = "upgrade" /\ Goes("done") /\ UNCHANGED handshake

(* The task does not look at the token while it waits. *)
DownstreamTimesOut == main = "upgrade" /\ Goes("done") /\ UNCHANGED handshake

UpgradeNext ==
  \/ Accept \/ ConnectStopped \/ ConnectTimesOut \/ ConnectFails
  \/ ConnectWebSocket \/ ConnectTcp \/ HandlerDropped
  \/ EstablishedRelay \/ DownstreamUpgraded \/ DownstreamFails \/ DownstreamTimesOut
  \/ Next /\ UNCHANGED handshake

(* The handler and the task are polled, and their timers fire; nothing is  *)
(* expected of the backend or of the client's connection.                  *)
UpgradeFairness ==
  /\ WF_upgradeVars(Accept) /\ WF_upgradeVars(ConnectTimesOut)
  /\ WF_upgradeVars(EstablishedRelay) /\ WF_upgradeVars(DownstreamTimesOut)
  /\ Fairness

UpgradeSpec == UpgradeInit /\ [][UpgradeNext]_upgradeVars /\ UpgradeFairness

-----------------------------------------------------------------------------
(* Properties *)

Refused == main = "done" /\ reason = "none"

(* UpgradeTypeOK: the types, with the exclusive use of the writers, and    *)
(* that no frame is read or written before the relay begins.               *)
UpgradeTypeOK ==
  /\ Shape /\ main \in Before \cup {"run", "join", "close", "done"}
  /\ request \in Requests /\ answer \in {0, 101, 200, 400, 426, 502, 503, 505}
  /\ selected \subseteq Protocols
  /\ main \in {"join", "close"} => reason # "none"
  /\ main \in Before \/ Refused =>
       \A p \in Peers : heard[p] = <<>> /\ wire[p] = <<>> /\ pump[p].at = "none"

(* What the gateway tells the client and records of it has its cause in    *)
(* the client or the backend.  A request is refused as the client's fault  *)
(* exactly when a violation is recorded, at most once and never because    *)
(* of the shutdown or of the backend; an upgrade is confirmed only to a    *)
(* request in order, with a subprotocol it offered; and see Justified.     *)
Accountable ==
  /\ Justified
  /\ Refused => (blamed = 1 <=> answer \in {400, 426, 505})
  /\ blamed = 1 => \/ Heard("client", {"badclose", "nonsense"})
                   \/ Refused /\ Verdict # "ok"
  /\ answer \in {101, 200} =>
       /\ Verdict = "ok" /\ blamed = 0
       /\ selected \subseteq request.offered /\ Cardinality(selected) <= 1
=============================================================================
