--------------------------- MODULE GatewayProofs ----------------------------
(***************************************************************************)
(* Proofs about Gateway, for every limit and any number of sockets and     *)
(* requests: capacities cover what outlives its connection or its handler, *)
(* and observability is stopped after what it observes.                    *)
(***************************************************************************)
EXTENDS Gateway, FiniteSetTheorems, TLAPS

(* Who has been awaited by the time run() is at a place of its shutdown. *)
JoinedInv == listener \in {"plane", "acme", "cf", "ip", "obs", "done"} =>
               \A c \in Conns : conn[c] = "free"

AwaitedInv == /\ reaped => task["ip"] = "stopped"
              /\ listener \in {"cf", "ip", "obs", "done"} => task["acme"] = "stopped"
              /\ listener \in {"ip", "obs", "done"} => task["cf"] = "stopped"
              /\ listener \in {"obs", "done"} => task["ip"] = "stopped"

PlaneInv == listener \in {"acme", "cf", "ip", "obs", "done"} =>
              overdue \/ \A r \in Tracked : req[r].work = "late"

TransportInv == Cardinality(Transports) <= MaxConnections
LeaseInv == Cardinality(Leases) <= MaxRequests

(* Whatever there is of a request has the lease, and nothing else has it.  *)
HeldInv == \A r \in Requests :
  /\ "handler" \in holders[r] <=> req[r].at = "handler"
  /\ "body" \in holders[r] <=> req[r].at = "body"
  /\ "work" \in holders[r] <=> req[r].work # "none"
  /\ "request" \in holders[r] => req[r].at = "handler" /\ req[r].work = "none"

-----------------------------------------------------------------------------
(* Types *)

RequestRecords == [at : {"none", "handler", "body"},
                   work : {"none", "task", "late", "pipe", "upgrading", "tunnel"},
                   on : Conns \cup {NoConn}]

LEMMA InitType == Init => TypeOK
<1> SUFFICES ASSUME Init PROVE TypeOK
  OBVIOUS
<1> USE GatewayAssumption DEF Init
<1>1. req \in [Requests -> RequestRecords]
  BY DEF RequestRecords, NoRequest
<1>2. task \in [Peers -> {"running", "stopped"}]
  OBVIOUS
<1> QED BY <1>1, <1>2 DEF TypeOK, RequestRecords, Settled, NoRequest, Alive

(* What a request becomes is a request, or none once nothing of it is left. *)
LEMMA SettledType ==
  ASSUME NEW q \in RequestRecords, q.on # NoConn
  PROVE  /\ Settled(q) \in RequestRecords
         /\ Settled(Settled(q)) = Settled(q)
         /\ Settled(q).on = NoConn <=> Settled(q) = NoRequest
BY GatewayAssumption DEF RequestRecords, Settled, NoRequest

LEMMA RequestFields ==
  ASSUME TypeOK, NEW r \in Requests
  PROVE  /\ req[r] \in RequestRecords
         /\ req[r].at # "none" \/ req[r].work # "none" => req[r].on \in Conns
BY GatewayAssumption DEF TypeOK, RequestRecords, NoRequest

(* A new record for one request, on a connection. *)
LEMMA OneRequestType ==
  ASSUME TypeOK, NEW r \in Requests, NEW q \in RequestRecords, q.on \in Conns,
         req' = [req EXCEPT ![r] = Settled(q)],
         holders' \in [Requests -> SUBSET Holders],
         conn' \in [Conns -> {"free", "closed"} \cup Alive],
         UNCHANGED <<listener, signal, proto, peers, overdue>>
  PROVE  TypeOK'
<1> USE GatewayAssumption DEF peers
<1>1. /\ Settled(q) \in RequestRecords /\ Settled(Settled(q)) = Settled(q)
      /\ Settled(q).on = NoConn <=> Settled(q) = NoRequest
  BY SettledType
<1>2. req \in [Requests -> RequestRecords]
  BY DEF TypeOK, RequestRecords
<1>3. req' \in [Requests -> RequestRecords]
  BY <1>1, <1>2
<1>4. ASSUME NEW s \in Requests
      PROVE  /\ req'[s].on = NoConn <=> req'[s] = NoRequest
             /\ Settled(req'[s]) = req'[s]
  BY <1>1, <1>2 DEF TypeOK
<1> QED BY <1>3, <1>4 DEF TypeOK, RequestRecords, Settled, NoRequest

(* A request gets to another place, on the connection it has. *)
LEMMA BecomesType ==
  ASSUME TypeOK, NEW r \in Requests, req[r].at # "none" \/ req[r].work # "none",
         NEW at \in {"none", "handler", "body"},
         NEW work \in {"none", "task", "late", "pipe", "upgrading", "tunnel"},
         NEW held \in SUBSET Holders, Becomes(r, at, work, held)
  PROVE  TypeOK'
<1> DEFINE q == [at |-> at, work |-> work, on |-> req[r].on]
<1>1. q \in RequestRecords /\ q.on \in Conns
  BY RequestFields DEF RequestRecords
<1>2. /\ req' = [req EXCEPT ![r] = Settled(q)]
      /\ UNCHANGED <<listener, signal, proto, peers, overdue>>
      /\ conn' \in [Conns -> {"free", "closed"} \cup Alive]
      /\ holders' \in [Requests -> SUBSET Holders]
  BY DEF Becomes, TypeOK
<1> HIDE DEF q
<1> QED BY <1>1, <1>2, OneRequestType

(* The steps of a request that touch neither connection nor run() *)
Moves(r) == Begin(r) \/ Answer(r) \/ Switch(r) \/ BodyEnds(r) \/ WorkEnds(r) \/ Reset(r)

(* What such a step does to the request and to the holders of its lease *)
LEMMA MovesForm ==
  ASSUME TypeOK, NEW r \in Requests, Moves(r)
  PROVE  \E at \in {"none", "handler", "body"},
            work \in {"none", "task", "late", "pipe", "upgrading", "tunnel"},
            held \in SUBSET Holders :
           /\ req[r].at # "none" \/ req[r].work # "none"
           /\ Becomes(r, at, work, held)
           /\ ~Driving(r) => work \in {"none", "late", "pipe", req[r].work}
           /\ HeldInv => /\ "handler" \in held <=> at = "handler"
                         /\ "body" \in held <=> at = "body"
                         /\ "work" \in held <=> work # "none"
                         /\ "request" \in held => at = "handler" /\ work = "none"
<1> USE DEF RequestRecords, Left, Wrapped, HandedOver, Holders, HeldInv
<1>0. req[r] \in RequestRecords /\ holders[r] \in SUBSET Holders
  BY RequestFields DEF TypeOK
<1>1. CASE Begin(r)
  <2>1. PICK w \in {"task", "late", "pipe"} :
          /\ ~Driving(r) => w \in {"late", "pipe"}
          /\ Becomes(r, "handler", w, HandedOver(r))
    BY <1>1 DEF Begin
  <2>2. req[r].at = "handler" /\ HandedOver(r) \in SUBSET Holders
    BY <1>0, <1>1 DEF Begin
  <2> QED BY <2>1, <2>2
<1>2. CASE Answer(r)
  <2>1. Becomes(r, "body", req[r].work, Wrapped(r)) /\ req[r].at = "handler"
    BY <1>2 DEF Answer
  <2> QED BY <1>0, <2>1
<1>3. CASE Switch(r)
  <2>1. /\ Becomes(r, "body", "upgrading", Wrapped(r) \cup {"work"})
        /\ req[r].at = "handler" /\ Driving(r)
    BY <1>3 DEF Switch
  <2> QED BY <1>0, <2>1
<1>4. CASE BodyEnds(r) \/ Reset(r)
  <2>1. Becomes(r, "none", req[r].work, Left(r)) /\ req[r].at # "none"
    BY <1>4 DEF BodyEnds, Reset
  <2> QED BY <1>0, <2>1
<1>5. CASE WorkEnds(r)
  <2>1. Becomes(r, req[r].at, "none", holders[r] \ {"work"}) /\ req[r].work # "none"
    BY <1>5 DEF WorkEnds
  <2> QED BY <1>0, <2>1
<1> QED BY <1>1, <1>2, <1>3, <1>4, <1>5 DEF Moves

LEMMA TypeStep == TypeOK /\ [Next]_vars => TypeOK'
<1> SUFFICES ASSUME TypeOK, [Next]_vars PROVE TypeOK'
  OBVIOUS
<1> USE GatewayAssumption DEF peers
<1>1. CASE Run
  <2>1. /\ listener' \in {"poll", "offer", "joining", "plane", "acme", "cf", "ip", "obs", "done"}
        /\ signal' \in BOOLEAN /\ reaped' \in BOOLEAN /\ overdue' \in BOOLEAN
        /\ conn' \in [Conns -> {"free", "closed"} \cup Alive]
        /\ proto' \in [Conns -> {"h1", "h2"}]
        /\ task' \in [Peers -> {"running", "stopped"}] /\ req' = req /\ holders' = holders
    <3>1. CASE Loop
      BY <3>1 DEF TypeOK, Alive, Loop, StopOnSignal, Join, StopOnManager, Look, Accept, Decline
    <3>2. CASE Shutdown
      BY <3>2 DEF TypeOK, Alive, Shutdown, AllJoined, PlaneEnds, PlaneOverdue, Await, AwaitManager
    <3> QED BY <1>1, <3>1, <3>2 DEF Run
  <2> QED BY <2>1 DEF TypeOK, Settled, NoRequest
<1>2. CASE Signal \/ AcceptFails \/ ManagerStops \/ \E t \in Peers : TaskStops(t)
  BY <1>2 DEF Signal, AcceptFails, ManagerStops, TaskStops, TypeOK, Settled, NoRequest
<1>3. ASSUME NEW c \in Conns, Handshake(c) \/ HandshakeEnds(c) \/ Drain(c) PROVE TypeOK'
  BY <1>3 DEF Handshake, HandshakeEnds, Drain, TypeOK, Alive, Settled, NoRequest
<1>4. ASSUME NEW c \in Conns, CloseConnection(c) PROVE TypeOK'
  <2>1. ASSUME NEW r \in Requests
        PROVE  /\ req'[r] \in RequestRecords
               /\ req'[r].on = NoConn <=> req'[r] = NoRequest
               /\ Settled(req'[r]) = req'[r]
    <3>1. CASE req[r].on = c /\ proto[c] = "h1"
      <4> DEFINE q == [req[r] EXCEPT !.at = "none"]
      <4>1. q \in RequestRecords /\ q.on # NoConn
        BY <3>1, RequestFields DEF RequestRecords
      <4>2. req'[r] = Settled(q)
        BY <1>4, <3>1 DEF CloseConnection
      <4> HIDE DEF q
      <4> QED BY <4>1, <4>2, SettledType
    <3>2. CASE ~(req[r].on = c /\ proto[c] = "h1")
      <4>1. req'[r] = req[r]
        BY <1>4, <3>2 DEF CloseConnection
      <4> QED BY <4>1, RequestFields DEF TypeOK
    <3> QED BY <3>1, <3>2
  <2>2. req' \in [Requests -> RequestRecords]
    BY <1>4, <2>1 DEF CloseConnection
  <2>3. /\ conn' \in [Conns -> {"free", "closed"} \cup Alive]
        /\ holders' \in [Requests -> SUBSET Holders]
        /\ UNCHANGED <<listener, signal, proto, peers, overdue>>
    BY <1>4 DEF CloseConnection, TypeOK, Left
  <2> QED BY <2>1, <2>2, <2>3 DEF TypeOK, RequestRecords, Settled, NoRequest
<1>5. ASSUME NEW r \in Requests, NEW c \in Conns, Admit(r, c) PROVE TypeOK'
  <2> DEFINE q == [at |-> "handler", work |-> "none", on |-> c]
  <2>1. q \in RequestRecords /\ Settled(q) = q /\ q.on \in Conns
    BY DEF RequestRecords, Settled
  <2>2. /\ req' = [req EXCEPT ![r] = Settled(q)]
        /\ UNCHANGED <<listener, signal, proto, peers, overdue>>
        /\ conn' \in [Conns -> {"free", "closed"} \cup Alive]
        /\ holders' \in [Requests -> SUBSET Holders]
    BY <1>5, <2>1 DEF Admit, TypeOK, NewLease, Holders
  <2> HIDE DEF q
  <2> QED BY <2>1, <2>2, OneRequestType
<1>6. ASSUME NEW r \in Requests, Moves(r) PROVE TypeOK'
  <2>1. PICK at \in {"none", "handler", "body"},
             work \in {"none", "task", "late", "pipe", "upgrading", "tunnel"},
             held \in SUBSET Holders :
          /\ req[r].at # "none" \/ req[r].work # "none"
          /\ Becomes(r, at, work, held)
    BY <1>6, MovesForm
  <2> QED BY <2>1, BecomesType
<1>7. ASSUME NEW r \in Requests, Upgraded(r) PROVE TypeOK'
  <2> DEFINE q == [at |-> "none", work |-> "tunnel", on |-> req[r].on]
  <2>1. req[r] \in RequestRecords /\ req[r].on \in Conns /\ req[r].at = "none"
    BY <1>7, RequestFields DEF Upgraded
  <2>2. q \in RequestRecords /\ q.on \in Conns /\ Settled(q) = q
    BY <2>1 DEF RequestRecords, Settled
  <2>3. [req[r] EXCEPT !.work = "tunnel"] = q
    BY <2>1 DEF RequestRecords
  <2>4. req' = [req EXCEPT ![r] = Settled(q)]
    BY <1>7, <2>2, <2>3 DEF Upgraded
  <2>5. /\ conn' \in [Conns -> {"free", "closed"} \cup Alive]
        /\ holders' \in [Requests -> SUBSET Holders]
        /\ UNCHANGED <<listener, signal, proto, peers, overdue>>
    BY <1>7, <2>1 DEF Upgraded, TypeOK
  <2> HIDE DEF q
  <2> QED BY <2>2, <2>4, <2>5, OneRequestType
<1>8. CASE UNCHANGED vars
  BY <1>8 DEF vars, TypeOK, Settled, NoRequest
<1> QED BY <1>1, <1>2, <1>3, <1>4, <1>5, <1>6, <1>7, <1>8
        DEF Next, Serve, ConnectionEnds, GraceExpires, Moves

(* Types and the records of requests, always (TypeOK). *)
THEOREM TypeCorrect == Spec => []TypeOK
<1> QED BY InitType, TypeStep, PTL DEF Spec

-----------------------------------------------------------------------------
(* Capacities: what holds a permit grows by one, behind a test, or shrinks *)

LEMMA Shrinks ==
  ASSUME NEW S, NEW T, NEW n \in Nat, IsFiniteSet(S), Cardinality(S) <= n, T \subseteq S
  PROVE  Cardinality(T) <= n
<1>1. Cardinality(S) \in Nat /\ Cardinality(T) \in Nat /\ Cardinality(T) <= Cardinality(S)
  BY FS_Subset, FS_CardinalityType
<1> QED BY <1>1

LEMMA Grows ==
  ASSUME NEW S, NEW T, NEW x, NEW n \in Nat,
         IsFiniteSet(S), Cardinality(S) < n, T \subseteq S \cup {x}
  PROVE  Cardinality(T) <= n
<1>1. Cardinality(S) \in Nat /\ IsFiniteSet(S \cup {x})
  BY FS_AddElement, FS_CardinalityType
<1>2. Cardinality(S \cup {x}) \in {Cardinality(S), Cardinality(S) + 1}
  <2>1. CASE x \in S
    BY <2>1, FS_AddElement
  <2>2. CASE x \notin S
    BY <2>2, FS_AddElement
  <2> QED BY <2>1, <2>2
<1>3. Cardinality(S \cup {x}) <= n
  BY <1>1, <1>2
<1> QED BY <1>1, <1>3, Shrinks

LEMMA TransportsFinite ==
  TypeOK /\ HeldInv => IsFiniteSet(Transports) /\ IsFiniteSet(Leases)
<1> SUFFICES ASSUME TypeOK, HeldInv PROVE IsFiniteSet(Transports) /\ IsFiniteSet(Leases)
  OBVIOUS
<1>1. ASSUME NEW r \in Leases PROVE req[r].on \in Conns
  <2>1. \E who \in Holders : who \in holders[r]
    BY <1>1 DEF Leases, TypeOK
  <2> QED BY <1>1, <2>1, RequestFields DEF Leases, HeldInv, Holders
<1>2. Transports \subseteq Conns /\ Leases \subseteq Requests
  BY <1>1 DEF Transports, Leases
<1> QED BY <1>2, GatewayAssumption, FS_Subset

LEMMA InitHeld == Init => HeldInv
BY DEF Init, HeldInv, NoRequest

(* The lease goes from hand to hand and is dropped when nothing goes on. *)
LEMMA HeldStep == TypeOK /\ HeldInv /\ [Next]_vars => HeldInv'
<1> SUFFICES ASSUME TypeOK, HeldInv, [Next]_vars, NEW r \in Requests
             PROVE  /\ "handler" \in holders'[r] <=> req'[r].at = "handler"
                    /\ "body" \in holders'[r] <=> req'[r].at = "body"
                    /\ "work" \in holders'[r] <=> req'[r].work # "none"
                    /\ "request" \in holders'[r] => req'[r].at = "handler" /\ req'[r].work = "none"
  BY DEF HeldInv
<1> USE DEF peers
<1>1. CASE req'[r] = req[r] /\ holders'[r] = holders[r]
  BY <1>1 DEF HeldInv
<1>2. ASSUME NEW c \in Conns, CloseConnection(c)
      PROVE  /\ "handler" \in holders'[r] <=> req'[r].at = "handler"
             /\ "body" \in holders'[r] <=> req'[r].at = "body"
             /\ "work" \in holders'[r] <=> req'[r].work # "none"
             /\ "request" \in holders'[r] => req'[r].at = "handler" /\ req'[r].work = "none"
  <2>1. CASE req[r].on = c /\ proto[c] = "h1"
    <3>1. holders'[r] = Left(r) /\ req'[r] = Settled([req[r] EXCEPT !.at = "none"])
      BY <1>2, <2>1 DEF CloseConnection
    <3>2. req'[r].at = "none" /\ req'[r].work = req[r].work
      BY <3>1, RequestFields DEF Settled, NoRequest, RequestRecords
    <3> QED BY <3>1, <3>2 DEF HeldInv, Left
  <2>2. CASE ~(req[r].on = c /\ proto[c] = "h1")
    BY <1>1, <1>2, <2>2 DEF CloseConnection
  <2> QED BY <2>1, <2>2
<1>3. ASSUME NEW s \in Requests, NEW c \in Conns, Admit(s, c)
      PROVE  /\ "handler" \in holders'[r] <=> req'[r].at = "handler"
             /\ "body" \in holders'[r] <=> req'[r].at = "body"
             /\ "work" \in holders'[r] <=> req'[r].work # "none"
             /\ "request" \in holders'[r] => req'[r].at = "handler" /\ req'[r].work = "none"
  <2>1. CASE r = s
    BY <1>3, <2>1 DEF Admit, NewLease, TypeOK
  <2>2. CASE r # s
    BY <1>1, <1>3, <2>2 DEF Admit, TypeOK
  <2> QED BY <2>1, <2>2
<1>4. ASSUME NEW s \in Requests, Moves(s)
      PROVE  /\ "handler" \in holders'[r] <=> req'[r].at = "handler"
             /\ "body" \in holders'[r] <=> req'[r].at = "body"
             /\ "work" \in holders'[r] <=> req'[r].work # "none"
             /\ "request" \in holders'[r] => req'[r].at = "handler" /\ req'[r].work = "none"
  <2>1. PICK at \in {"none", "handler", "body"},
             work \in {"none", "task", "late", "pipe", "upgrading", "tunnel"},
             held \in SUBSET Holders :
          /\ Becomes(s, at, work, held)
          /\ "handler" \in held <=> at = "handler"
          /\ "body" \in held <=> at = "body"
          /\ "work" \in held <=> work # "none"
          /\ "request" \in held => at = "handler" /\ work = "none"
    BY <1>4, MovesForm
  <2>2. CASE r = s
    <3>1. holders'[r] = held /\ req'[r] = Settled([at |-> at, work |-> work, on |-> req[r].on])
      BY <2>1, <2>2 DEF Becomes, TypeOK
    <3>2. req'[r].at = at /\ req'[r].work = work
      BY <3>1 DEF Settled, NoRequest
    <3> QED BY <2>1, <3>1, <3>2
  <2>3. CASE r # s
    BY <1>1, <2>1, <2>3 DEF Becomes, TypeOK
  <2> QED BY <2>2, <2>3
<1>5. ASSUME NEW s \in Requests, Upgraded(s)
      PROVE  /\ "handler" \in holders'[r] <=> req'[r].at = "handler"
             /\ "body" \in holders'[r] <=> req'[r].at = "body"
             /\ "work" \in holders'[r] <=> req'[r].work # "none"
             /\ "request" \in holders'[r] => req'[r].at = "handler" /\ req'[r].work = "none"
  <2>1. CASE r = s
    <3>1. holders'[r] = holders[r] /\ req'[r].at = req[r].at /\ req'[r].work = "tunnel"
          /\ req[r].at = "none" /\ req[r].work = "upgrading"
      BY <1>5, <2>1, RequestFields DEF Upgraded, TypeOK, RequestRecords
    <3> QED BY <3>1 DEF HeldInv
  <2>2. CASE r # s
    BY <1>1, <1>5, <2>2 DEF Upgraded, TypeOK
  <2> QED BY <2>1, <2>2
<1>6. CASE UNCHANGED <<req, holders>>
  BY <1>1, <1>6
<1>7. CASE Run \/ Signal \/ AcceptFails \/ ManagerStops \/ (\E t \in Peers : TaskStops(t)) \/ UNCHANGED vars
  BY <1>6, <1>7
     DEF Run, Loop, Shutdown, StopOnSignal, Join, StopOnManager, Look, Accept, Decline,
         AllJoined, PlaneEnds, PlaneOverdue, Await, AwaitManager, Signal, AcceptFails,
         ManagerStops, TaskStops, vars
<1>8. ASSUME NEW c \in Conns, Handshake(c) \/ HandshakeEnds(c) \/ Drain(c)
      PROVE  UNCHANGED <<req, holders>>
  BY <1>8 DEF Handshake, HandshakeEnds, Drain
<1> QED BY <1>2, <1>3, <1>4, <1>5, <1>6, <1>7, <1>8
        DEF Next, Serve, ConnectionEnds, GraceExpires, Moves

(* No step but an admission takes a lease, and a lease stays with the       *)
(* connection of its request.                                              *)
LEMMA LeasesStay ==
  ASSUME TypeOK, HeldInv, HeldInv', [Next]_vars, \A r \in Requests, c \in Conns : ~Admit(r, c),
         NEW r \in Requests, holders'[r] # {}
  PROVE  holders[r] # {} /\ req'[r].on = req[r].on
<1> USE DEF peers
<1>1. CASE UNCHANGED <<req, holders>>
  BY <1>1
<1>2. CASE Run \/ Signal \/ AcceptFails \/ ManagerStops \/ (\E t \in Peers : TaskStops(t)) \/ UNCHANGED vars
  BY <1>1, <1>2
     DEF Run, Loop, Shutdown, StopOnSignal, Join, StopOnManager, Look, Accept, Decline,
         AllJoined, PlaneEnds, PlaneOverdue, Await, AwaitManager, Signal, AcceptFails,
         ManagerStops, TaskStops, vars
<1>3. ASSUME NEW c \in Conns, Handshake(c) \/ HandshakeEnds(c) \/ Drain(c)
      PROVE  UNCHANGED <<req, holders>>
  BY <1>3 DEF Handshake, HandshakeEnds, Drain
<1>4. ASSUME NEW c \in Conns, CloseConnection(c) PROVE holders[r] # {} /\ req'[r].on = req[r].on
  <2>1. CASE req[r].on = c /\ proto[c] = "h1"
    <3>1. holders'[r] = Left(r) /\ req'[r] = Settled([req[r] EXCEPT !.at = "none"])
      BY <1>4, <2>1 DEF CloseConnection
    <3>2. "work" \in holders[r]
      BY <3>1 DEF Left
    <3>3. req[r].work # "none"
      BY <3>2 DEF HeldInv
    <3>4. req'[r] = [req[r] EXCEPT !.at = "none"]
      BY <3>1, <3>3, RequestFields DEF Settled, RequestRecords
    <3> QED BY <3>2, <3>4, RequestFields DEF RequestRecords
  <2>2. CASE ~(req[r].on = c /\ proto[c] = "h1")
    BY <1>4, <2>2 DEF CloseConnection
  <2> QED BY <2>1, <2>2
<1>5. ASSUME NEW s \in Requests, Moves(s) PROVE holders[r] # {} /\ req'[r].on = req[r].on
  <2>1. PICK at \in {"none", "handler", "body"},
             work \in {"none", "task", "late", "pipe", "upgrading", "tunnel"},
             held \in SUBSET Holders :
          /\ req[s].at # "none" \/ req[s].work # "none"
          /\ Becomes(s, at, work, held)
          /\ "handler" \in held <=> at = "handler"
          /\ "body" \in held <=> at = "body"
          /\ "work" \in held <=> work # "none"
          /\ "request" \in held => at = "handler" /\ work = "none"
    BY <1>5, MovesForm
  <2>2. CASE r = s
    <3>1. holders'[r] = held /\ req'[r] = Settled([at |-> at, work |-> work, on |-> req[r].on])
      BY <2>1, <2>2 DEF Becomes, TypeOK
    <3>2. at # "none" \/ work # "none"
      BY <2>1, <3>1 DEF Holders
    <3>3. req'[r].on = req[r].on
      BY <3>1, <3>2 DEF Settled
    <3>4. "handler" \in holders[r] \/ "body" \in holders[r] \/ "work" \in holders[r]
      BY <2>1, <2>2, RequestFields DEF HeldInv, RequestRecords
    <3> QED BY <3>3, <3>4
  <2>3. CASE r # s
    BY <2>1, <2>3 DEF Becomes, TypeOK
  <2> QED BY <2>2, <2>3
<1>6. ASSUME NEW s \in Requests, Upgraded(s) PROVE holders[r] # {} /\ req'[r].on = req[r].on
  BY <1>6, RequestFields DEF Upgraded, TypeOK, RequestRecords
<1> QED BY <1>1, <1>2, <1>3, <1>4, <1>5, <1>6
        DEF Next, Serve, ConnectionEnds, GraceExpires, Moves

LEMMA LeaseStep == TypeOK /\ HeldInv /\ LeaseInv /\ [Next]_vars => LeaseInv'
<1> SUFFICES ASSUME TypeOK, HeldInv, LeaseInv, [Next]_vars PROVE LeaseInv'
  OBVIOUS
<1> USE GatewayAssumption
<1>1. SUFFICES \/ Leases' \subseteq Leases
               \/ \E r \in Requests : Leases' \subseteq Leases \cup {r} /\ Cardinality(Leases) < MaxRequests
  BY TransportsFinite, Shrinks, Grows DEF LeaseInv
<1>2. CASE \E r \in Requests, c \in Conns : Admit(r, c)
  <2>1. PICK r \in Requests, c \in Conns : Admit(r, c)
    BY <1>2
  <2>2. \A s \in Requests \ {r} : holders'[s] = holders[s]
    BY <2>1 DEF Admit, TypeOK
  <2> QED BY <2>1, <2>2 DEF Admit, Leases
<1>3. CASE \A r \in Requests, c \in Conns : ~Admit(r, c)
  BY <1>3, HeldStep, LeasesStay DEF Leases
<1> QED BY <1>2, <1>3

LEMMA TransportStep == TypeOK /\ HeldInv /\ TransportInv /\ [Next]_vars => TransportInv'
<1> SUFFICES ASSUME TypeOK, HeldInv, TransportInv, [Next]_vars PROVE TransportInv'
  OBVIOUS
<1> USE GatewayAssumption DEF peers
<1>1. SUFFICES \/ Transports' \subseteq Transports
               \/ \E c \in Conns : /\ Transports' \subseteq Transports \cup {c}
                                   /\ Cardinality(Transports) < MaxConnections
  BY TransportsFinite, Shrinks, Grows DEF TransportInv
<1>2. ASSUME NEW c \in Conns, Accept(c)
      PROVE  Transports' \subseteq Transports \cup {c} /\ Cardinality(Transports) < MaxConnections
  BY <1>2 DEF Accept, Transports, Leases, TypeOK
<1>3. ASSUME NEW r \in Requests, NEW c \in Conns, Admit(r, c) PROVE Transports' \subseteq Transports
  <2>1. c \in Transports /\ conn' = conn
    BY <1>3 DEF Admit, Transports, Alive
  <2>2. req'[r].on = c /\ \A s \in Requests \ {r} : req'[s] = req[s] /\ holders'[s] = holders[s]
    BY <1>3 DEF Admit, TypeOK
  <2> QED BY <2>1, <2>2 DEF Transports, Leases
<1>4. ASSUME \A c \in Conns : ~Accept(c), \A r \in Requests, c \in Conns : ~Admit(r, c)
      PROVE  Transports' \subseteq Transports
  <2>1. \A c \in Conns : conn'[c] \in Alive => conn[c] \in Alive
    <3>1. CASE conn' = conn
      BY <3>1
    <3>2. CASE Signal \/ AcceptFails \/ ManagerStops \/ (\E t \in Peers : TaskStops(t))
               \/ Shutdown \/ UNCHANGED vars \/ StopOnSignal \/ StopOnManager \/ Look \/ Decline
      BY <3>1, <3>2
         DEF Signal, AcceptFails, ManagerStops, TaskStops, Shutdown, AllJoined, PlaneEnds,
             PlaneOverdue, Await, AwaitManager, vars, StopOnSignal, StopOnManager, Look, Decline
    <3>3. ASSUME NEW c \in Conns, Join(c) \/ Handshake(c) \/ HandshakeEnds(c) \/ Drain(c)
                                   \/ CloseConnection(c)
          PROVE  \A d \in Conns : conn'[d] \in Alive => conn[d] \in Alive
      BY <3>3 DEF Join, Handshake, HandshakeEnds, Drain, CloseConnection, TypeOK, Alive
    <3>4. ASSUME NEW r \in Requests, Moves(r) PROVE conn' = conn
      BY <3>4, MovesForm DEF Becomes
    <3>5. ASSUME NEW r \in Requests, Upgraded(r)
          PROVE  \A d \in Conns : conn'[d] \in Alive => conn[d] \in Alive
      BY <3>5 DEF Upgraded, TypeOK, Alive
    <3> QED BY <1>4, <3>1, <3>2, <3>3, <3>4, <3>5
            DEF Next, Run, Loop, Serve, ConnectionEnds, GraceExpires, Moves
  <2>2. \A r \in Leases' : r \in Leases /\ req'[r].on = req[r].on
    BY <1>4, HeldStep, LeasesStay DEF Leases
  <2> QED BY <2>1, <2>2 DEF Transports
<1> QED BY <1>2, <1>3, <1>4

(* A socket handed to a relay or tunnel still counts: never more sockets   *)
(* than max_connections (SocketsCovered).                                  *)
THEOREM SocketsBounded == Spec => []SocketsCovered
<1>1. Init => TransportInv
  <2> SUFFICES ASSUME Init PROVE TransportInv
    OBVIOUS
  <2>1. Transports = {}
    BY DEF Init, Transports, Leases, Alive
  <2> QED BY <2>1, FS_EmptySet, GatewayAssumption DEF TransportInv
<1>2. TypeOK /\ HeldInv /\ TransportInv => SocketsCovered
  <2> SUFFICES ASSUME TypeOK, HeldInv, TransportInv PROVE SocketsCovered
    OBVIOUS
  <2>1. \A r \in Requests : req[r].work = "tunnel" => r \in Leases
    BY DEF HeldInv, Leases
  <2>2. Sockets \subseteq Transports
    BY <2>1 DEF Sockets, Transports
  <2> QED BY <2>2, TransportsFinite, Shrinks, GatewayAssumption DEF TransportInv, SocketsCovered
<1> QED BY <1>1, <1>2, InitType, TypeStep, InitHeld, HeldStep, TransportStep, PTL DEF Spec

(* Requests that anything goes on for are never more than                  *)
(* max_active_requests, and no permit is kept for others (RequestsCovered): *)
(* the lease goes from hand to hand, and is dropped at the end.            *)
THEOREM RequestsBounded == Spec => []RequestsCovered
<1>1. Init => LeaseInv
  <2> SUFFICES ASSUME Init PROVE LeaseInv
    OBVIOUS
  <2>1. Leases = {}
    BY DEF Init, Leases
  <2> QED BY <2>1, FS_EmptySet, GatewayAssumption DEF LeaseInv
<1>2. TypeOK /\ HeldInv /\ LeaseInv => RequestsCovered
  <2> SUFFICES ASSUME TypeOK, HeldInv, LeaseInv PROVE RequestsCovered
    OBVIOUS
  <2>1. Busy \subseteq Leases
    BY DEF Busy, Leases, HeldInv
  <2>2. Leases \subseteq Busy
    <3> SUFFICES ASSUME NEW r \in Leases PROVE r \in Busy
      OBVIOUS
    <3>1. \E who \in Holders : who \in holders[r]
      BY DEF Leases, TypeOK
    <3> QED BY <3>1 DEF Leases, Busy, HeldInv, Holders
  <2> QED BY <2>1, <2>2, TransportsFinite, Shrinks, GatewayAssumption DEF LeaseInv, RequestsCovered
<1> QED BY <1>1, <1>2, InitType, TypeStep, InitHeld, HeldStep, LeaseStep, PTL DEF Spec

-----------------------------------------------------------------------------
(* The order of the shutdown *)

OrderInv == JoinedInv /\ AwaitedInv /\ PlaneInv

LEMMA OrderStep == TypeOK /\ OrderInv /\ [Next]_vars => OrderInv'
<1> SUFFICES ASSUME TypeOK, OrderInv, [Next]_vars PROVE OrderInv'
  OBVIOUS
<1> USE DEF peers, OrderInv
<1>1. JoinedInv'
  <2>1. CASE Run
    <3>1. CASE Loop
      BY <3>1 DEF JoinedInv, Loop, StopOnSignal, Join, StopOnManager, Look, Accept, Decline, TypeOK
    <3>2. CASE Shutdown
      BY <3>2 DEF JoinedInv, Shutdown, AllJoined, PlaneEnds, PlaneOverdue, Await, AwaitManager
    <3> QED BY <2>1, <3>1, <3>2 DEF Run
  <2>2. CASE Serve
    BY <2>2 DEF JoinedInv, Serve, Handshake, HandshakeEnds, Drain, ConnectionEnds, GraceExpires,
                CloseConnection, Begin, Answer, Switch, BodyEnds, WorkEnds, Reset, Becomes, Upgraded,
                Admit, TypeOK, Driving
  <2>3. CASE Signal \/ AcceptFails \/ ManagerStops \/ (\E t \in Peers : TaskStops(t)) \/ UNCHANGED vars
    BY <2>3 DEF JoinedInv, Signal, AcceptFails, ManagerStops, TaskStops, vars, Accepting
  <2> QED BY <2>1, <2>2, <2>3 DEF Next
<1>2. AwaitedInv'
  <2>1. CASE Run
    <3>1. CASE Loop
      BY <3>1 DEF AwaitedInv, Loop, StopOnSignal, Join, StopOnManager, Look, Accept, Decline
    <3>2. CASE Shutdown
      BY <3>2 DEF AwaitedInv, Shutdown, AllJoined, PlaneEnds, PlaneOverdue, Await, AwaitManager
    <3> QED BY <2>1, <3>1, <3>2 DEF Run
  <2>2. CASE Serve \/ UNCHANGED vars
    <3>1. UNCHANGED <<listener, task, reaped>>
      BY <2>2 DEF Serve, Handshake, HandshakeEnds, Drain, ConnectionEnds, GraceExpires,
                  CloseConnection, Begin, Answer, Switch, BodyEnds, WorkEnds, Reset, Becomes, Upgraded,
                  Admit, vars
    <3> QED BY <3>1 DEF AwaitedInv
  <2>3. CASE Signal \/ AcceptFails \/ ManagerStops \/ \E t \in Peers : TaskStops(t)
    BY <2>3 DEF AwaitedInv, Signal, AcceptFails, ManagerStops, TaskStops, Accepting, TypeOK, Peers
  <2> QED BY <2>1, <2>2, <2>3 DEF Next
<1>3. PlaneInv'
  <2>1. CASE Run
    <3>1. CASE Loop
      BY <3>1 DEF PlaneInv, Loop, StopOnSignal, Join, StopOnManager, Look, Accept, Decline
    <3>2. CASE Shutdown
      BY <3>2 DEF PlaneInv, Tracked, Shutdown, AllJoined, PlaneEnds, PlaneOverdue, Await, AwaitManager
    <3> QED BY <2>1, <3>1, <3>2 DEF Run
  <2>2. CASE Serve
    <3> SUFFICES ASSUME listener \in {"acme", "cf", "ip", "obs", "done"}, ~overdue,
                        \A c \in Conns : conn[c] = "free"
                 PROVE  \A r \in Tracked' : req'[r].work = "late"
      <4>1. UNCHANGED <<listener, overdue>>
        BY <2>2 DEF Serve, Handshake, HandshakeEnds, Drain, ConnectionEnds, GraceExpires,
                  CloseConnection, Begin, Answer, Switch, BodyEnds, WorkEnds, Reset, Becomes, Upgraded, Admit
      <4> QED BY <4>1 DEF PlaneInv, JoinedInv
    <3>1. \A r \in Requests : ~Driving(r)
      BY DEF Driving, TypeOK
    <3>2. PICK r \in Requests : Moves(r)
      BY <2>2, <3>1 DEF Serve, Handshake, HandshakeEnds, Drain, ConnectionEnds, GraceExpires,
                        Upgraded, Admit, Moves
    <3>3. PICK at \in {"none", "handler", "body"}, work \in {"none", "late", "pipe", req[r].work},
               held \in SUBSET Holders : Becomes(r, at, work, held)
      BY <3>1, <3>2, MovesForm
    <3>4. req'[r].work \in {"none", "late", "pipe", req[r].work}
      BY <3>3 DEF Becomes, Settled, NoRequest, TypeOK
    <3>5. \A s \in Requests \ {r} : req'[s] = req[s]
      BY <3>3 DEF Becomes, TypeOK
    <3> QED BY <3>4, <3>5 DEF PlaneInv, Tracked
  <2>3. CASE Signal \/ AcceptFails \/ ManagerStops \/ (\E t \in Peers : TaskStops(t)) \/ UNCHANGED vars
    BY <2>3 DEF PlaneInv, Tracked, Signal, AcceptFails, ManagerStops, TaskStops, vars, Accepting
  <2> QED BY <2>1, <2>2, <2>3 DEF Next
<1> QED BY <1>1, <1>2, <1>3

(* Observability is told to finish after everything it observes (LastOut). *)
THEOREM ObservabilityLast == Spec => []LastOut
<1>1. Init => OrderInv
  BY DEF Init, OrderInv, JoinedInv, AwaitedInv, PlaneInv
<1>2. OrderInv => LastOut
  BY DEF OrderInv, JoinedInv, AwaitedInv, PlaneInv, LastOut, ObservabilityCancelled, Peers
<1> QED BY <1>1, <1>2, InitType, TypeStep, OrderStep, PTL DEF Spec
=============================================================================
