----------------------------- MODULE GrpcProofs -----------------------------
(***************************************************************************)
(* Proofs about GrpcUpstream, for any number of calls and connections and  *)
(* every limit of streams.                                                 *)
(***************************************************************************)
EXTENDS GrpcUpstream, FiniteSetTheorems, TLAPS

Distinct(s) == \A i, j \in 1..Len(s) : s[i] = s[j] => i = j

(* Somebody leaves the line: the others keep their order. *)
LEMMA WithoutOne ==
  ASSUME NEW s \in Seq(Calls), Distinct(s), NEW r \in Calls
  PROVE  /\ Without(s, r) \in Seq(Calls)
         /\ Distinct(Without(s, r))
         /\ \A i \in 1..Len(Without(s, r)) :
              Without(s, r)[i] # r /\ \E j \in 1..Len(s) : Without(s, r)[i] = s[j]
         /\ \A j \in 1..Len(s) : s[j] # r =>
              \E i \in 1..Len(Without(s, r)) : Without(s, r)[i] = s[j]
         /\ s # <<>> /\ s[1] # r => Without(s, r) # <<>> /\ Without(s, r)[1] = s[1]
<1>1. CASE \A i \in 1..Len(s) : s[i] # r
  BY <1>1 DEF Without, Distinct
<1>2. CASE \E i \in 1..Len(s) : s[i] = r
  <2> DEFINE at == CHOOSE i \in 1..Len(s) : s[i] = r
             w == [i \in 1..(Len(s) - 1) |-> IF i < at THEN s[i] ELSE s[i + 1]]
  <2>1. at \in 1..Len(s) /\ s[at] = r
    BY <1>2
  <2>2. Without(s, r) = w
    BY <1>2 DEF Without
  <2> HIDE DEF at
  <2>3. Len(s) \in Nat /\ \A i \in 1..Len(s) : s[i] \in Calls
    OBVIOUS
  <2>4. w \in Seq(Calls) /\ Len(w) = Len(s) - 1
    <3>1. w \in [1..(Len(s) - 1) -> Calls]
      BY <2>1, <2>3
    <3>2. Len(s) - 1 \in Nat
      BY <2>1, <2>3
    <3> QED BY <3>1, <3>2
  <2>5. \A i \in 1..(Len(s) - 1) : w[i] = IF i < at THEN s[i] ELSE s[i + 1]
    OBVIOUS
  <2> HIDE DEF w
  <2>6. Distinct(w)
    BY <2>1, <2>3, <2>4, <2>5 DEF Distinct
  <2>7. ASSUME NEW i \in 1..Len(w)
        PROVE  w[i] # r /\ \E j \in 1..Len(s) : w[i] = s[j]
    <3>1. CASE i < at
      BY <2>1, <2>3, <2>4, <2>5, <3>1 DEF Distinct
    <3>2. CASE ~(i < at)
      <4>1. i + 1 \in 1..Len(s) /\ i + 1 # at /\ w[i] = s[i + 1]
        BY <2>1, <2>3, <2>4, <2>5, <3>2
      <4> QED BY <2>1, <4>1 DEF Distinct
    <3> QED BY <3>1, <3>2
  <2>8. ASSUME NEW j \in 1..Len(s), s[j] # r
        PROVE  \E i \in 1..Len(w) : w[i] = s[j]
    <3>1. CASE j < at
      <4>1. j \in 1..Len(w) /\ w[j] = s[j]
        BY <2>1, <2>3, <2>4, <2>5, <3>1
      <4> QED BY <4>1
    <3>2. CASE ~(j < at)
      <4>1. j # at
        BY <2>1, <2>8
      <4>2. j - 1 \in 1..Len(w) /\ ~(j - 1 < at) /\ (j - 1) + 1 = j
        BY <2>1, <2>3, <2>4, <3>2, <4>1
      <4>3. w[j - 1] = s[j]
        BY <2>4, <2>5, <4>2
      <4> QED BY <4>2, <4>3
    <3> QED BY <3>1, <3>2
  <2>9. ASSUME s # <<>>, s[1] # r
        PROVE  w # <<>> /\ w[1] = s[1]
    <3>1. at # 1
      BY <2>1, <2>9
    <3>2. 1 \in 1..(Len(s) - 1) /\ 1 < at
      BY <2>1, <2>3, <3>1
    <3>3. w[1] = s[1] /\ Len(w) >= 1
      BY <2>3, <2>4, <2>5, <3>2
    <3> QED BY <2>4, <3>3
  <2> QED BY <2>2, <2>4, <2>6, <2>7, <2>8, <2>9
<1> QED BY <1>1, <1>2

-----------------------------------------------------------------------------
(* Types *)

(* The places of the calls, their connections, and the line at the gate. *)
CallsOK ==
  /\ pc \in [Calls -> {"idle", "body"} \cup Handler]
  /\ conn \in [Calls -> Conns \cup {NoConn}]
  /\ \A r \in Calls : /\ pc[r] \in {"store", "ready", "send", "body"} => conn[r] \in Conns
                      /\ r \in uploading => conn[r] \in Conns

GateOK ==
  /\ gate \in Seq(Calls) /\ Distinct(gate)
  /\ \A i \in 1..Len(gate) : pc[gate[i]] \in {"gate", "connect", "store"}
  /\ \A r \in Calls : /\ pc[r] \in {"connect", "store"} => gate # <<>> /\ gate[1] = r
                      /\ pc[r] = "gate" => \E i \in 1..Len(gate) : gate[i] = r

RestOK == /\ uploading \subseteq Calls /\ cached \in Conns \cup {NoConn}
          /\ state \in [Conns -> States] /\ shutdown \in BOOLEAN
          /\ stale \in [Calls -> SUBSET Conns]

LEMMA TypeParts == TypeOK <=> CallsOK /\ GateOK /\ RestOK
BY DEF TypeOK, CallsOK, GateOK, RestOK, Distinct

(* Leaving for a place that is not at the gate. *)
LEMMA GateLeft ==
  ASSUME CallsOK, GateOK, NEW r \in Calls, Releases(r),
         NEW place \in {"idle", "body", "peek", "ready", "send"}, Goes(r, place)
  PROVE  GateOK'
<1>1. /\ gate' \in Seq(Calls) /\ Distinct(gate')
      /\ \A i \in 1..Len(gate') : gate'[i] # r /\ \E j \in 1..Len(gate) : gate'[i] = gate[j]
      /\ \A j \in 1..Len(gate) : gate[j] # r => \E i \in 1..Len(gate') : gate'[i] = gate[j]
      /\ gate # <<>> /\ gate[1] # r => gate' # <<>> /\ gate'[1] = gate[1]
  <2>1. gate \in Seq(Calls) /\ Distinct(gate)
    BY DEF GateOK
  <2>2. gate' = Without(gate, r)
    BY DEF Releases
  <2> DEFINE w == Without(gate, r)
  <2>3. /\ w \in Seq(Calls) /\ Distinct(w)
        /\ \A i \in 1..Len(w) : w[i] # r /\ \E j \in 1..Len(gate) : w[i] = gate[j]
        /\ \A j \in 1..Len(gate) : gate[j] # r => \E i \in 1..Len(w) : w[i] = gate[j]
        /\ gate # <<>> /\ gate[1] # r => w # <<>> /\ w[1] = gate[1]
    BY <2>1, WithoutOne
  <2> QED BY <2>2, <2>3, Zenon
<1>2. pc' = [pc EXCEPT ![r] = place] /\ pc' \in [Calls -> {"idle", "body"} \cup Handler]
  BY DEF CallsOK, Goes, Handler, Waiting
<1>3. \A s \in Calls : s # r => pc'[s] = pc[s]
  BY <1>2 DEF CallsOK
<1>4. pc'[r] = place
  BY <1>2 DEF CallsOK
<1>5. ASSUME NEW i \in 1..Len(gate')
      PROVE  pc'[gate'[i]] \in {"gate", "connect", "store"}
  <2>1. PICK j \in 1..Len(gate) : gate'[i] = gate[j] /\ gate'[i] # r
    BY <1>1
  <2>2. gate[j] \in Calls
    BY <2>1 DEF GateOK
  <2> QED BY <1>3, <2>1, <2>2 DEF GateOK
<1>6. ASSUME NEW s \in Calls
      PROVE  /\ pc'[s] \in {"connect", "store"} => gate' # <<>> /\ gate'[1] = s
             /\ pc'[s] = "gate" => \E i \in 1..Len(gate') : gate'[i] = s
  <2>1. CASE s = r
    BY <1>4, <2>1
  <2>2. CASE s # r
    <3>1. pc'[s] = pc[s]
      BY <1>3, <2>2
    <3>2. ASSUME pc[s] \in {"connect", "store"} PROVE gate' # <<>> /\ gate'[1] = s
      <4>1. gate # <<>> /\ gate[1] = s
        BY <3>2 DEF GateOK
      <4> QED BY <1>1, <2>2, <4>1
    <3>3. ASSUME pc[s] = "gate" PROVE \E i \in 1..Len(gate') : gate'[i] = s
      <4>1. PICK j \in 1..Len(gate) : gate[j] = s
        BY <3>3 DEF GateOK
      <4> QED BY <1>1, <2>2, <4>1
    <3> QED BY <3>1, <3>2, <3>3
  <2> QED BY <2>1, <2>2
<1> QED BY <1>1, <1>5, <1>6 DEF GateOK, Distinct

(* A step of a call that is not at the gate and does not go there. *)
LEMMA GateApart ==
  ASSUME CallsOK, GateOK, NEW r \in Calls, UNCHANGED gate,
         pc[r] \notin {"gate", "connect", "store"},
         NEW place \in {"idle", "body", "peek", "ready", "send"}, Goes(r, place)
  PROVE  GateOK'
<1>1. /\ pc'[r] = place
      /\ \A s \in Calls : s # r => pc'[s] = pc[s]
  BY DEF CallsOK, Goes
<1>2. \A i \in 1..Len(gate) : gate[i] \in Calls /\ gate[i] # r
  BY DEF GateOK
<1> QED BY <1>1, <1>2 DEF GateOK, Distinct

(* The holder of the gate goes on. *)
LEMMA GateHeld ==
  ASSUME CallsOK, GateOK, NEW r \in Calls, UNCHANGED gate, gate # <<>>, gate[1] = r,
         NEW place \in {"connect", "store"}, Goes(r, place)
  PROVE  GateOK'
<1>1. /\ pc'[r] = place
      /\ \A s \in Calls : s # r => pc'[s] = pc[s]
  BY DEF CallsOK, Goes
<1>2. \A i \in 1..Len(gate) : gate[i] \in Calls
  BY DEF GateOK
<1> QED BY <1>1, <1>2 DEF GateOK, Distinct

(* A call lines up. *)
LEMMA GateJoined ==
  ASSUME CallsOK, GateOK, NEW r \in Calls, pc[r] = "peek",
         gate' = Append(gate, r), Goes(r, "gate")
  PROVE  GateOK'
<1>1. /\ pc'[r] = "gate"
      /\ \A s \in Calls : s # r => pc'[s] = pc[s]
  BY DEF CallsOK, Goes
<1>2. \A i \in 1..Len(gate) : gate[i] \in Calls /\ gate[i] # r
  BY DEF GateOK
<1>3. /\ gate' \in Seq(Calls) /\ Len(gate') = Len(gate) + 1 /\ Len(gate) \in Nat
      /\ gate'[Len(gate) + 1] = r
      /\ \A i \in 1..Len(gate) : gate'[i] = gate[i]
  BY DEF GateOK
<1>4. Distinct(gate')
  BY <1>2, <1>3 DEF GateOK, Distinct
<1>5. ASSUME NEW i \in 1..Len(gate')
      PROVE  pc'[gate'[i]] \in {"gate", "connect", "store"}
  BY <1>1, <1>2, <1>3 DEF GateOK
<1>6. ASSUME NEW s \in Calls
      PROVE  /\ pc'[s] \in {"connect", "store"} => gate' # <<>> /\ gate'[1] = s
             /\ pc'[s] = "gate" => \E i \in 1..Len(gate') : gate'[i] = s
  <2>1. CASE s = r
    BY <1>1, <1>3, <2>1
  <2>2. CASE s # r /\ pc[s] \in {"connect", "store"}
    <3>1. gate # <<>> /\ gate[1] = s
      BY <2>2 DEF GateOK
    <3>2. Len(gate) >= 1
      BY <3>1, <1>3 DEF GateOK
    <3> QED BY <1>1, <1>3, <2>2, <3>1, <3>2
  <2>3. CASE s # r /\ pc[s] = "gate"
    <3>1. PICK i \in 1..Len(gate) : gate[i] = s
      BY <2>3 DEF GateOK
    <3>2. i \in 1..Len(gate') /\ gate'[i] = s
      BY <1>3, <3>1
    <3> QED BY <1>1, <2>3, <3>2
  <2> QED BY <1>1, <2>1, <2>2, <2>3
<1> QED BY <1>3, <1>4, <1>5, <1>6 DEF GateOK
-----------------------------------------------------------------------------
(* What else holds: the senders of open connections, and closed ones. *)

SenderInv ==
  \A r \in Calls :
    /\ pc[r] \in {"ready", "send"} => Closed(conn[r]) \/ cached = conn[r]
    /\ pc[r] \in {"connect", "store"} => cached = NoConn \/ Closed(cached)

StaleInv ==
  \A r \in Calls : /\ \A c \in stale[r] : Closed(c)
                   /\ pc[r] \in {"store", "ready", "send"} => conn[r] \notin stale[r]

LeaseInv == Cardinality(Leases) <= MaxStreams

IInv == TypeOK /\ SenderInv /\ StaleInv /\ LeaseInv

LEMMA InitInv == Init => IInv
<1> SUFFICES ASSUME Init PROVE IInv
  OBVIOUS
<1> USE GrpcAssumption DEF Init
<1>1. CallsOK
  BY DEF CallsOK
<1>2. GateOK
  BY DEF GateOK, Distinct
<1>3. RestOK
  BY DEF RestOK, States
<1>4. SenderInv /\ StaleInv
  BY DEF SenderInv, StaleInv, Closed
<1>5. Leases = {}
  BY DEF Leases
<1>6. LeaseInv
  BY <1>5, FS_EmptySet DEF LeaseInv
<1> QED BY <1>1, <1>2, <1>3, <1>4, <1>6, TypeParts DEF IInv

-----------------------------------------------------------------------------
(* Every step keeps the types *)

LEMMA EndsType ==
  ASSUME TypeOK, NEW r \in Calls, Ends(r)
  PROVE  TypeOK'
<1>1. CallsOK /\ GateOK /\ RestOK
  BY TypeParts
<1>2. GateOK'
  BY <1>1, GateLeft DEF Ends
<1>3. CallsOK'
  BY <1>1 DEF CallsOK, Ends, Goes
<1>4. RestOK'
  BY <1>1 DEF RestOK, Ends
<1> QED BY <1>2, <1>3, <1>4, TypeParts, PTL

(* A call takes the sender that is kept. *)
LEMMA TakesType ==
  ASSUME TypeOK, NEW r \in Calls, Cached, Takes(r),
         UNCHANGED <<uploading, cached, state, shutdown, stale>>
  PROVE  TypeOK'
<1>1. CallsOK /\ GateOK /\ RestOK
  BY TypeParts
<1>2. GateOK'
  BY <1>1, GateLeft DEF Takes
<1>3. CallsOK'
  BY <1>1, GrpcAssumption DEF CallsOK, RestOK, Takes, Goes, Cached, Handler, Waiting
<1>4. RestOK'
  BY <1>1 DEF RestOK
<1> QED BY <1>2, <1>3, <1>4, TypeParts, PTL

LEMMA CallType ==
  ASSUME TypeOK, NEW r \in Calls,
         \/ Arrive(r) \/ Peek(r) \/ Enter(r) \/ Connect(r) \/ Store(r)
         \/ Send(r) \/ Answered(r) \/ UploadEnds(r)
  PROVE  TypeOK'
<1>1. CallsOK /\ GateOK /\ RestOK
  BY TypeParts
<1> SUFFICES ASSUME ~(CallsOK' /\ GateOK' /\ RestOK')
             PROVE  TypeOK'
  BY TypeParts, PTL
<1>2. CASE Arrive(r)
  <2>1. GateOK'
    BY <1>1, <1>2, GateApart DEF Arrive
  <2>2. CallsOK' /\ RestOK'
    BY <1>1, <1>2 DEF Arrive, Goes, CallsOK, RestOK, Handler, Waiting
  <2> QED BY <2>1, <2>2
<1>3. CASE Peek(r)
  <2>1. CASE Cached /\ Takes(r)
    BY <1>3, <2>1, TakesType DEF Peek
  <2>2. CASE ~Cached /\ Goes(r, "gate") /\ gate' = Append(gate, r) /\ UNCHANGED conn
    <3>1. GateOK'
      BY <1>1, <1>3, <2>2, GateJoined DEF Peek
    <3>2. CallsOK' /\ RestOK'
      BY <1>1, <1>3, <2>2 DEF Peek, Goes, CallsOK, RestOK, Handler, Waiting
    <3> QED BY <3>1, <3>2
  <2> QED BY <1>3, <2>1, <2>2 DEF Peek
<1>4. CASE Enter(r)
  <2>1. CASE Cached /\ Takes(r)
    BY <1>4, <2>1, TakesType DEF Enter
  <2>2. CASE ~Cached /\ Goes(r, "connect") /\ UNCHANGED <<conn, gate>>
    <3>1. gate # <<>> /\ gate[1] = r
      BY <1>1, <1>4 DEF Enter, GateOK
    <3>2. GateOK'
      BY <1>1, <2>2, <3>1, GateHeld
    <3>3. CallsOK' /\ RestOK'
      BY <1>1, <1>4, <2>2 DEF Enter, Goes, CallsOK, RestOK, Handler, Waiting
    <3> QED BY <3>2, <3>3
  <2> QED BY <1>4, <2>1, <2>2 DEF Enter
<1>5. CASE Connect(r)
  <2>1. gate # <<>> /\ gate[1] = r
    BY <1>1, <1>5 DEF Connect, GateOK
  <2>2. GateOK'
    BY <1>1, <1>5, <2>1, GateHeld DEF Connect
  <2>3. CallsOK' /\ RestOK'
    BY <1>1, <1>5 DEF Connect, Goes, CallsOK, RestOK, Handler, Waiting, States
  <2> QED BY <2>2, <2>3
<1>6. CASE Store(r)
  <2>1. GateOK'
    BY <1>1, <1>6, GateLeft DEF Store
  <2>2. CallsOK' /\ RestOK'
    BY <1>1, <1>6 DEF Store, Goes, CallsOK, RestOK, Handler, Waiting
  <2> QED BY <2>1, <2>2
<1>7. CASE Send(r)
  <2>1. GateOK'
    BY <1>1, <1>7, GateApart DEF Send
  <2>2. CallsOK' /\ RestOK'
    BY <1>1, <1>7 DEF Send, Goes, CallsOK, RestOK, Handler, Waiting
  <2> QED BY <2>1, <2>2
<1>8. CASE Answered(r)
  <2>1. GateOK'
    BY <1>1, <1>8, GateApart DEF Answered
  <2>2. CallsOK' /\ RestOK'
    BY <1>1, <1>8 DEF Answered, Goes, CallsOK, RestOK, Handler, Waiting
  <2> QED BY <2>1, <2>2
<1>9. CASE UploadEnds(r)
  <2>1. GateOK'
    BY <1>1, <1>9 DEF UploadEnds, GateOK, Distinct
  <2>2. CallsOK' /\ RestOK'
    BY <1>1, <1>9 DEF UploadEnds, CallsOK, RestOK
  <2> QED BY <2>1, <2>2
<1> QED BY <1>2, <1>3, <1>4, <1>5, <1>6, <1>7, <1>8, <1>9

(* A connection gets to a state in which it takes no more than before. *)
LEMMA BecomesType ==
  ASSUME TypeOK, NEW c \in Conns, NEW from \in States, NEW to \in {"lost", "detached", "dead"},
         Becomes(c, from, to)
  PROVE  TypeOK'
<1>1. CallsOK /\ GateOK /\ RestOK
  BY TypeParts
<1>2. GateOK'
  BY <1>1 DEF GateOK, Distinct, Becomes, calls
<1>3. CallsOK'
  BY <1>1 DEF CallsOK, Becomes, calls
<1>4. RestOK'
  BY <1>1 DEF RestOK, Becomes, calls, States
<1> QED BY <1>2, <1>3, <1>4, TypeParts, PTL

-----------------------------------------------------------------------------
(* The invariant is inductive *)

Fades(c) == \/ Becomes(c, "live", "lost") \/ Becomes(c, "live", "detached")
            \/ Becomes(c, "lost", "dead") \/ Becomes(c, "detached", "dead")

(* What a step can be, for the proofs: many end a handler in the same way. *)
LEMMA Steps ==
  ASSUME Next
  PROVE  \/ \E r \in Calls : \/ Ends(r) \/ Arrive(r) \/ Peek(r) \/ Enter(r) \/ Connect(r)
                             \/ Store(r) \/ Send(r) \/ Answered(r) \/ UploadEnds(r)
         \/ \E c \in Conns : Fades(c)
         \/ Shutdown
BY DEF Next, GateStopped, ConnectFails, SendRefused, SendStopped, SendFails, Dropped, BodyEnds,
       DriverStopped, DriverLearns, DriverUnused, GoAway, Lost, LastStreamEnds, Fades

(* Nothing opens a connection but Connect. *)
LEMMA FadesClosed ==
  ASSUME TypeOK, NEW c \in Conns, Fades(c), NEW d \in Conns, Closed(d)
  PROVE  Closed(d)'
BY DEF Fades, Becomes, Closed, TypeOK

LEMMA TypeStep ==
  ASSUME TypeOK, [Next]_vars
  PROVE  TypeOK'
<1>1. CASE UNCHANGED vars
  BY <1>1 DEF vars, TypeOK
<1>2. CASE Next
  <2>1. ASSUME NEW r \in Calls, Ends(r) PROVE TypeOK'
    BY <2>1, EndsType
  <2>2. ASSUME NEW r \in Calls,
               \/ Arrive(r) \/ Peek(r) \/ Enter(r) \/ Connect(r) \/ Store(r)
               \/ Send(r) \/ Answered(r) \/ UploadEnds(r)
        PROVE  TypeOK'
    BY <2>2, CallType
  <2>3. ASSUME NEW c \in Conns, Fades(c) PROVE TypeOK'
    BY <2>3, BecomesType DEF Fades, States
  <2>4. ASSUME Shutdown PROVE TypeOK'
    BY <2>4 DEF Shutdown, TypeOK, calls
  <2> QED BY <1>2, <2>1, <2>2, <2>3, <2>4, Steps
<1> QED BY <1>1, <1>2

LEMMA SenderStep ==
  ASSUME TypeOK, SenderInv, [Next]_vars
  PROVE  SenderInv'
<1>1. CASE UNCHANGED vars
  BY <1>1 DEF vars, SenderInv, Closed
<1>2. CASE Next
  <2>1. ASSUME NEW r \in Calls, Ends(r) PROVE SenderInv'
    BY <2>1 DEF Ends, Goes, SenderInv, Closed, TypeOK
  <2>2. ASSUME NEW r \in Calls, Arrive(r) PROVE SenderInv'
    BY <2>2 DEF Arrive, Goes, SenderInv, Closed, TypeOK
  <2>3. ASSUME NEW r \in Calls, Cached, Takes(r), UNCHANGED <<cached, state>>
        PROVE  SenderInv'
    BY <2>3 DEF Takes, Goes, Cached, SenderInv, Closed, TypeOK
  <2>4. ASSUME NEW r \in Calls, Peek(r) PROVE SenderInv'
    BY <2>3, <2>4 DEF Peek, Goes, SenderInv, Closed, TypeOK
  <2>5. ASSUME NEW r \in Calls, Enter(r) PROVE SenderInv'
    BY <2>3, <2>5 DEF Enter, Goes, Cached, SenderInv, Closed, TypeOK
  <2>6. ASSUME NEW r \in Calls, Connect(r) PROVE SenderInv'
    <3>1. PICK c \in Conns : /\ Free(c) /\ state' = [state EXCEPT ![c] = "live"]
                             /\ conn' = [conn EXCEPT ![r] = c]
      BY <2>6 DEF Connect
    <3>2. \A d \in Conns : d # c => Closed(d)' = Closed(d)
      BY <3>1 DEF Closed, TypeOK
    <3>3. cached # c /\ UNCHANGED cached
      BY <2>6, <3>1 DEF Free, Connect
    <3>4. /\ pc'[r] = "store" /\ pc[r] = "connect"
          /\ \A s \in Calls : s # r => pc'[s] = pc[s] /\ conn'[s] = conn[s]
      BY <2>6, <3>1 DEF Connect, Goes, TypeOK
    <3>5. \A s \in Calls : s # r /\ pc[s] \in {"ready", "send"} => conn[s] # c /\ conn[s] \in Conns
      BY <3>1 DEF Free, TypeOK
    <3>6. cached = NoConn \/ Closed(cached)'
      BY <3>2, <3>3, <3>4, GrpcAssumption DEF SenderInv, TypeOK
    <3> QED BY <3>2, <3>3, <3>4, <3>5, <3>6 DEF SenderInv
  <2>7. ASSUME NEW r \in Calls, Store(r) PROVE SenderInv'
    <3>1. /\ pc'[r] = "ready" /\ pc[r] = "store" /\ cached' = conn[r]
          /\ UNCHANGED <<conn, state>>
          /\ \A s \in Calls : s # r => pc'[s] = pc[s]
      BY <2>7 DEF Store, Goes, TypeOK
    <3>2. \A s \in Calls : s # r => pc[s] \notin {"connect", "store"}
      BY <3>1 DEF TypeOK
    <3>3. \A s \in Calls : s # r /\ pc[s] \in {"ready", "send"} => Closed(conn[s])
      BY <3>1, GrpcAssumption DEF SenderInv, TypeOK
    <3> QED BY <3>1, <3>2, <3>3 DEF SenderInv, Closed
  <2>8. ASSUME NEW r \in Calls, Send(r) \/ Answered(r) \/ UploadEnds(r) PROVE SenderInv'
    BY <2>8 DEF Send, Answered, UploadEnds, Goes, SenderInv, Closed, TypeOK
  <2>9. ASSUME NEW c \in Conns, Fades(c) PROVE SenderInv'
    <3>1. \A d \in Conns : Closed(d) => Closed(d)'
      BY <2>9, FadesClosed
    <3>2. UNCHANGED <<pc, conn, cached>>
      BY <2>9 DEF Fades, Becomes, calls
    <3> QED BY <3>1, <3>2, GrpcAssumption DEF SenderInv, TypeOK
  <2>10. ASSUME Shutdown PROVE SenderInv'
    BY <2>10 DEF Shutdown, calls, SenderInv, Closed
  <2> QED BY <1>2, <2>1, <2>2, <2>4, <2>5, <2>6, <2>7, <2>8, <2>9, <2>10, Steps
<1> QED BY <1>1, <1>2

LEMMA StaleStep ==
  ASSUME TypeOK, StaleInv, [Next]_vars
  PROVE  StaleInv'
<1>1. CASE UNCHANGED vars
  BY <1>1 DEF vars, StaleInv, Closed
<1>2. CASE Next
  <2>1. ASSUME NEW r \in Calls, Ends(r) PROVE StaleInv'
    BY <2>1 DEF Ends, Goes, StaleInv, Closed, TypeOK
  <2>2. ASSUME NEW r \in Calls, Arrive(r) PROVE StaleInv'
    BY <2>2 DEF Arrive, Goes, StaleInv, Closed, TypeOK
  <2>3. ASSUME NEW r \in Calls, Peek(r) \/ Enter(r) PROVE StaleInv'
    <3>1. UNCHANGED <<state, stale>>
      BY <2>3 DEF Peek, Enter
    <3>2. \A s \in Calls : s # r => pc'[s] = pc[s] /\ conn'[s] = conn[s]
      BY <2>3 DEF Peek, Enter, Takes, Goes, TypeOK
    <3>3. \/ pc'[r] = "ready" /\ conn'[r] = cached /\ ~Closed(cached)
          \/ pc'[r] \in {"gate", "connect"}
      BY <2>3 DEF Peek, Enter, Takes, Goes, Cached, TypeOK
    <3>4. \A s \in Calls : \A c \in stale'[s] : Closed(c)'
      BY <3>1 DEF StaleInv, Closed
    <3>5. pc'[r] \in {"store", "ready", "send"} => conn'[r] \notin stale'[r]
      BY <3>1, <3>3 DEF StaleInv
    <3> QED BY <3>1, <3>2, <3>4, <3>5 DEF StaleInv
  <2>4. ASSUME NEW r \in Calls, Connect(r) PROVE StaleInv'
    <3>1. PICK c \in Conns : /\ Free(c) /\ state' = [state EXCEPT ![c] = "live"]
                             /\ conn' = [conn EXCEPT ![r] = c]
                             /\ stale' = [s \in Calls |-> stale[s] \ {c}]
      BY <2>4 DEF Connect
    <3>2. \A d \in Conns : d # c => Closed(d)' = Closed(d)
      BY <3>1 DEF Closed, TypeOK
    <3>3. /\ pc'[r] = "store" /\ conn'[r] = c
          /\ \A s \in Calls : s # r => pc'[s] = pc[s] /\ conn'[s] = conn[s]
      BY <2>4, <3>1 DEF Connect, Goes, TypeOK
    <3> QED BY <3>1, <3>2, <3>3 DEF StaleInv, TypeOK
  <2>5. ASSUME NEW r \in Calls, Store(r) \/ Send(r) \/ Answered(r) \/ UploadEnds(r)
        PROVE  StaleInv'
    BY <2>5 DEF Store, Send, Answered, UploadEnds, Goes, StaleInv, Closed, TypeOK
  <2>6. ASSUME NEW c \in Conns, Fades(c) PROVE StaleInv'
    <3>1. \A d \in Conns : Closed(d) => Closed(d)'
      BY <2>6, FadesClosed
    <3>2. UNCHANGED <<pc, conn, stale>>
      BY <2>6 DEF Fades, Becomes, calls
    <3>3. \A s \in Calls : stale[s] \subseteq Conns
      BY DEF TypeOK
    <3>4. \A s \in Calls : \A d \in stale'[s] : Closed(d)'
      BY <3>1, <3>2, <3>3 DEF StaleInv
    <3> QED BY <3>2, <3>4 DEF StaleInv
  <2>7. ASSUME Shutdown PROVE StaleInv'
    BY <2>7 DEF Shutdown, calls, StaleInv, Closed
  <2> QED BY <1>2, <2>1, <2>2, <2>3, <2>4, <2>5, <2>6, <2>7, Steps
<1> QED BY <1>1, <1>2

(* A new holder of a permit came through Arrive, one at a time. *)
LEMMA LeaseStep ==
  ASSUME TypeOK, LeaseInv, [Next]_vars
  PROVE  LeaseInv'
<1>1. IsFiniteSet(Leases) /\ Cardinality(Leases) \in Nat
  <2>1. Leases \subseteq Calls
    BY DEF Leases, TypeOK
  <2> QED BY <2>1, GrpcAssumption, FS_Subset, FS_CardinalityType
<1>2. ASSUME Leases' \subseteq Leases PROVE LeaseInv'
  <2>1. Cardinality(Leases') <= Cardinality(Leases) /\ Cardinality(Leases') \in Nat
    BY <1>1, <1>2, FS_Subset, FS_CardinalityType
  <2> QED BY <1>1, <2>1, GrpcAssumption DEF LeaseInv
<1>3. CASE UNCHANGED vars
  BY <1>2, <1>3 DEF vars, Leases
<1>4. CASE Next
  <2>1. ASSUME NEW r \in Calls, Ends(r) PROVE LeaseInv'
    BY <1>2, <2>1 DEF Ends, Goes, Leases, TypeOK
  <2>2. ASSUME NEW r \in Calls, Arrive(r) PROVE LeaseInv'
    <3>1. Leases' = Leases \cup {r} /\ r \notin Leases
      BY <2>2 DEF Arrive, Goes, Leases, TypeOK
    <3>2. Cardinality(Leases') = Cardinality(Leases) + 1
      BY <1>1, <3>1, FS_AddElement
    <3>3. Cardinality(Leases) < MaxStreams
      BY <2>2 DEF Arrive
    <3> QED BY <1>1, <3>2, <3>3, GrpcAssumption DEF LeaseInv
  <2>3. ASSUME NEW r \in Calls,
               \/ Peek(r) \/ Enter(r) \/ Connect(r) \/ Store(r)
               \/ Send(r) \/ Answered(r) \/ UploadEnds(r)
        PROVE  LeaseInv'
    <3>1. /\ r \in Leases
          /\ uploading' \subseteq uploading \cup {r}
          /\ \A s \in Calls : s # r => pc'[s] = pc[s]
      BY <2>3 DEF Peek, Enter, Takes, Connect, Store, Send, Answered, UploadEnds, Goes, Leases, TypeOK
    <3> QED BY <1>2, <3>1 DEF Leases
  <2>4. ASSUME NEW c \in Conns, Fades(c) PROVE LeaseInv'
    BY <1>2, <2>4 DEF Fades, Becomes, calls, Leases
  <2>5. ASSUME Shutdown PROVE LeaseInv'
    BY <1>2, <2>5 DEF Shutdown, calls, Leases
  <2> QED BY <1>4, <2>1, <2>2, <2>3, <2>4, <2>5, Steps
<1> QED BY <1>3, <1>4

THEOREM Invariance == Spec => []IInv
<1>1. IInv /\ [Next]_vars => IInv'
  BY TypeStep, SenderStep, StaleStep, LeaseStep DEF IInv
<1> QED BY <1>1, InitInv, PTL DEF Spec

-----------------------------------------------------------------------------
(* What follows *)

(* The state of calls, gate and connections is as declared, and the line   *)
(* at the gate consists of those that wait or connect, its holder first.   *)
THEOREM TypeCorrect == Spec => []TypeOK
BY Invariance, PTL DEF IInv

(* However many calls race for a connection and wherever one is dropped,   *)
(* there is never more than one connection that requests can be sent on.   *)
THEOREM SingleConnection == Spec => []OneConnection
<1>1. ASSUME IInv PROVE OneConnection
  <2> SUFFICES ASSUME NEW c \in Conns, ~Closed(c), cached = c \/ Senders(c) # {},
                      NEW d \in Conns, ~Closed(d), cached = d \/ Senders(d) # {}
               PROVE  c = d
    BY DEF OneConnection
  <2>1. ASSUME NEW e \in Conns, ~Closed(e), cached = e \/ Senders(e) # {}, cached # e
        PROVE  (cached = NoConn \/ Closed(cached)) /\ e = conn[gate[1]]
    <3>1. PICK r \in Calls : conn[r] = e /\ pc[r] = "store"
      BY <1>1, <2>1 DEF Senders, IInv, SenderInv
    <3> QED BY <1>1, <3>1 DEF IInv, SenderInv, TypeOK
  <2>2. CASE cached = c /\ cached = d
    BY <2>2
  <2>3. CASE cached # c /\ cached # d
    BY <2>1, <2>3
  <2>4. CASE cached = c /\ cached # d
    BY <2>1, <2>4, GrpcAssumption
  <2>5. CASE cached # c /\ cached = d
    BY <2>1, <2>5, GrpcAssumption
  <2> QED BY <2>2, <2>3, <2>4, <2>5
<1> QED BY <1>1, Invariance, PTL

(* The backend never has more streams than max_concurrent_streams, halves  *)
(* that outlive their call included.                                       *)
THEOREM StreamsWithinLimit == Spec => []StreamsBounded
<1>1. ASSUME IInv PROVE StreamsBounded
  <2>1. Streams \subseteq Leases /\ Leases \subseteq Calls
    BY <1>1 DEF Streams, Leases, IInv, TypeOK
  <2>2. /\ IsFiniteSet(Leases) /\ Cardinality(Streams) <= Cardinality(Leases)
        /\ Cardinality(Streams) \in Nat /\ Cardinality(Leases) \in Nat
    BY <2>1, GrpcAssumption, FS_Subset, FS_CardinalityType
  <2> QED BY <1>1, <2>2, GrpcAssumption DEF IInv, LeaseInv, StreamsBounded
<1> QED BY <1>1, Invariance, PTL

(* No call is sent on a connection that had ended before the call came.    *)
THEOREM NeverStale == Spec => []FreshConnection
<1>1. ASSUME IInv PROVE FreshConnection
  <2> SUFFICES ASSUME NEW r \in Calls, pc[r] \in {"ready", "send"}
               PROVE  conn[r] \notin stale[r]
    BY DEF FreshConnection
  <2>1. pc[r] \in {"store", "ready", "send"}
    OBVIOUS
  <2> QED BY <1>1, <2>1 DEF IInv, StaleInv
<1> QED BY <1>1, Invariance, PTL
=============================================================================
