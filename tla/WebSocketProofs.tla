-------------------------- MODULE WebSocketProofs ---------------------------
(* Theorems about WebSocketRelay as WebSocketUpgrade starts it, for any     *)
(* number of frames and any subprotocols.                                   *)
EXTENDS WebSocketUpgrade, FiniteSetTheorems, SequenceTheorems, TLAPS

-----------------------------------------------------------------------------
(* The inductive invariant *)

Kinds == {"data", "ping", "close", "nonsense", "badclose"}
Frames == [kind : {"data", "pong", "close"}, n : Nat, whole : BOOLEAN]
Endings == {"closed", "error", "cancelled"}
Jobs == [at : {"none", "read", "lock", "write", "shut", "ended"},
         to : Peers \cup {"none"}, kind : {"none", "data", "pong", "close"},
         n : Nat, then : {"none", "read", "forward", "shut", "violation"} \cup Endings]
Reasons == {"none", "ClientClosed", "BackendClosed", "RelayError", "InternalError",
            "GatewayShutdown"}

RelayTypes ==
  /\ tcp \in BOOLEAN /\ shutdown \in BOOLEAN /\ cancelled \in BOOLEAN
  /\ heard \in [Peers -> Seq(Kinds)]
  /\ pump \in [Peers -> Jobs] /\ holder \in [Peers -> Peers \cup {"none"}]
  /\ wire \in [Peers -> Seq(Frames)] /\ lost \subseteq Peers
  /\ closing \in [Peers -> {"due", "write", "done"}] /\ blamed \in 0..1
  /\ main \in Before \cup {"run", "join", "close", "done"} /\ reason \in Reasons

Busy(p) == pump[p].at \in {"lock", "write"}

\* What a pump writes is the answer to what it read last.
JobOK(p) ==
  /\ Len(heard[p]) <= MaxFrames
  /\ Busy(p) =>
       \/ /\ pump[p].kind = "data" /\ pump[p].to = Other(p) /\ pump[p].then = "read"
          /\ pump[p].n = Len(heard[p]) /\ pump[p].n > 0
       \/ pump[p].kind = "pong" /\ pump[p].to = p /\ pump[p].then = "read"
       \/ /\ pump[p].kind = "close" /\ pump[p].to = p /\ Heard(p, {"close"})
          /\ pump[p].then = IF tcp THEN "shut" ELSE "forward"
          /\ tcp => p = "client"
       \/ /\ pump[p].kind = "close" /\ pump[p].to = p /\ pump[p].then = "violation"
          /\ Heard(p, {"badclose"})
       \/ /\ pump[p].kind = "close" /\ pump[p].to = Other(p) /\ pump[p].then = "closed"
          /\ ~tcp /\ Heard(p, {"close"})
  /\ pump[p].at = "shut" => tcp /\ p = "client" /\ Heard(p, {"close"})
  /\ pump[p].at = "ended" =>
       /\ pump[p].then \in Endings
       /\ pump[p].then = "closed" => (tcp /\ p = "backend") \/ Heard(p, {"close"})

JobInv == \A p \in Peers : JobOK(p)

\* The lock of a writer is held by the pump that is in a frame on it.
HoldInv ==
  \A p, q \in Peers : holder[q] = p <=> pump[p].at = "write" /\ pump[p].to = q

\* What has begun, and what has ended, at each place of main.
PhaseInv ==
  /\ cancelled <=> reason # "none"
  /\ main \in Before \cup {"run"} => reason = "none"
  /\ main \in {"join", "close"} => reason # "none"
  /\ main \in Before \/ Refused =>
       \A p \in Peers : heard[p] = <<>> /\ wire[p] = <<>> /\ pump[p].at = "none"
  /\ ~(main \in Before \/ Refused) => \A p \in Peers : pump[p].at # "none"
  /\ main \notin {"close", "done"} \/ Refused => \A q \in Peers : closing[q] = "due"
  /\ main = "close" \/ (main = "done" /\ ~Refused) =>
       \A p \in Peers : pump[p].at = "ended"

\* A frame that was left unfinished is the last one, and is being written,
\* unless a write failed or was cancelled.
WireInv ==
  \A q \in Peers :
    /\ \A i \in 1..Len(wire[q]) :
         wire[q][i].whole \/ cancelled \/ q \in lost
           \/ (i = Len(wire[q]) /\ holder[q] # "none")
    /\ closing[q] = "write" => Len(wire[q]) > 0
    /\ \A p \in Peers : holder[q] = p =>
         /\ Len(wire[q]) > 0
         /\ wire[q][Len(wire[q])].kind = pump[p].kind

Carries(q, i, m) == wire[q][i].kind = "data" /\ wire[q][i].n = m

\* The messages of a sender are on the wire in their order, none after a close.
InPlace(q, i) ==
  wire[q][i].kind = "data" =>
    /\ wire[q][i].n \in 1..Len(heard[Other(q)])
    /\ \A j \in 1..(i - 1) : wire[q][j].kind # "close"
    /\ \A m \in 1..(wire[q][i].n - 1) : heard[Other(q)][m] = "data" =>
         \E j \in 1..(i - 1) : Carries(q, j, m)

OrderInv == \A q \in Peers : \A i \in 1..Len(wire[q]) : InPlace(q, i)

\* A pump that has not ended has sent on every message but the one at hand.
SentOn(p) ==
  pump[p].at # "ended" =>
    \A m \in 1..Len(heard[p]) : heard[p][m] = "data" =>
      \/ \E j \in 1..Len(wire[Other(p)]) : Carries(Other(p), j, m)
      \/ pump[p].at = "lock" /\ pump[p].kind = "data" /\ pump[p].n = m

SentInv == \A p \in Peers : SentOn(p)

GotClose(q) ==
  \E i \in 1..Len(wire[q]) :
    /\ wire[q][i].kind = "close" /\ wire[q][i].whole
    /\ q \in lost \/ \A j \in 1..(i - 1) : wire[q][j].whole

Cause == lost # {} \/ \E p \in Peers : Heard(p, {"close", "badclose", "nonsense"})

\* As long as the gateway has cancelled nothing, a pump that ends as closed
\* has told those it had to, and one that ends in an error has met a cause.
CloseOK(p) ==
  /\ Busy(p) /\ pump[p].then = "closed" => GotClose(p)
  /\ pump[p].at = "shut" => GotClose(p)
  /\ pump[p].at = "ended" =>
       /\ pump[p].then = "closed" =>
            \A q \in Peers : ~tcp \/ (q = "client" /\ p = "client") => GotClose(q)
       /\ pump[p].then = "error" => Cause
       /\ pump[p].then # "cancelled"

CloseInv == ~cancelled => \A p \in Peers : CloseOK(p)

\* Until then a writer is closed only because a peer has sent a close.
AskedInv ==
  ~cancelled =>
    \A q \in Peers : Closed(q) => \E s \in Peers : Heard(s, {"close", "badclose"})

\* What main reports is what it had from the pump that ended first.
ReasonInv ==
  /\ reason = "ClientClosed" =>
       \A q \in Peers : ~tcp \/ q = "client" => GotClose(q)
  /\ reason = "BackendClosed" => \A q \in Peers : ~tcp => GotClose(q)
  /\ Justified

\* The client is blamed once, for its frames or for its request.
BlameInv ==
  /\ blamed = 1 => \/ pump["client"].at = "ended" /\ Heard("client", {"badclose", "nonsense"})
                   \/ Refused /\ Verdict # "ok"
  /\ Refused => (blamed = 1 <=> answer \in {400, 426, 505})

HandshakeInv ==
  /\ request \in Requests /\ answer \in {0, 101, 200, 400, 426, 502, 503, 505}
  /\ selected \subseteq Protocols
  /\ main \in {"connect", "upgrade", "launch"} => Verdict = "ok"
  /\ main \in {"accept", "connect"} => answer = 0
  /\ main \in {"upgrade", "launch"} => answer \in {101, 200}
  /\ answer \in {101, 200} =>
       /\ main \in {"upgrade", "launch"} \/ Refused
       /\ Verdict = "ok" /\ blamed = 0
       /\ selected \subseteq request.offered /\ Cardinality(selected) <= 1

WebSocketInv ==
  /\ RelayTypes /\ JobInv /\ HoldInv /\ PhaseInv /\ WireInv /\ OrderInv /\ SentInv
  /\ CloseInv /\ AskedInv /\ ReasonInv /\ BlameInv /\ HandshakeInv

-----------------------------------------------------------------------------
(* The peers, and what a write does to a wire *)

(* The other peer of the other peer: the two writers are told apart. *)
LEMMA TwoPeers ==
  ASSUME NEW p \in Peers
  PROVE  /\ Other(p) \in Peers /\ Other(p) # p /\ Other(Other(p)) = p
         /\ \A q \in Peers : q = p \/ q = Other(p)
         /\ p # "none"
  BY DEF Peers, Other

(* A frame that begins is the last one, and leaves those before it alone. *)
LEMMA FrameBegins ==
  ASSUME wire \in [Peers -> Seq(Frames)], NEW q \in Peers,
         NEW kind \in {"data", "pong", "close"}, NEW n \in Nat,
         wire' = [wire EXCEPT ![q] = Started(q, kind, n)]
  PROVE  /\ wire' \in [Peers -> Seq(Frames)]
         /\ Len(wire[q]) \in Nat /\ Len(wire'[q]) = Len(wire[q]) + 1
         /\ \A i \in 1..Len(wire[q]) : wire'[q][i] = wire[q][i]
         /\ wire'[q][Len(wire[q]) + 1].kind = kind /\ wire'[q][Len(wire[q]) + 1].n = n
         /\ \A r \in Peers \ {q} : wire'[r] = wire[r]
  <1> DEFINE new == [kind |-> kind, n |-> n, whole |-> FALSE]
  <1>1. new \in Frames BY DEF Frames
  <1>2. wire[q] \in Seq(Frames) OBVIOUS
  <1>3. wire'[q] = Append(wire[q], new) BY DEF Started
  <1>4. wire'[q] \in Seq(Frames) BY <1>1, <1>2, <1>3
  <1>5. wire' \in [Peers -> Seq(Frames)] BY <1>4
  <1> HIDE DEF new
  <1>6. /\ Len(wire[q]) \in Nat /\ Len(wire'[q]) = Len(wire[q]) + 1
        /\ \A i \in 1..Len(wire[q]) : wire'[q][i] = wire[q][i]
        /\ wire'[q][Len(wire[q]) + 1] = new
    BY <1>1, <1>2, <1>3
  <1> QED BY <1>5, <1>6 DEF new

(* A frame that ends becomes whole; nothing else of the wire changes. *)
LEMMA FrameEnds ==
  ASSUME wire \in [Peers -> Seq(Frames)], NEW q \in Peers, Len(wire[q]) > 0,
         wire' = [wire EXCEPT ![q] = Finished(q)]
  PROVE  /\ wire' \in [Peers -> Seq(Frames)]
         /\ Len(wire[q]) \in Nat /\ Len(wire'[q]) = Len(wire[q])
         /\ \A i \in 1..Len(wire[q]) :
              /\ wire'[q][i].kind = wire[q][i].kind /\ wire'[q][i].n = wire[q][i].n
              /\ i # Len(wire[q]) => wire'[q][i].whole = wire[q][i].whole
         /\ wire'[q][Len(wire[q])].whole = TRUE
         /\ \A r \in Peers \ {q} : wire'[r] = wire[r]
  <1>1. PICK s \in Seq(Frames) : s = wire[q] OBVIOUS
  <1>2. PICK k \in 1..Len(s) : k = Len(s) BY <1>1
  <1>3. s[k] \in Frames BY <1>2
  <1>4. PICK f \in Frames : f = [s[k] EXCEPT !.whole = TRUE] BY <1>3 DEF Frames
  <1>5. wire'[q] = [s EXCEPT ![k] = f]
    <2>1. Finished(q) = [s EXCEPT ![k] = [s[k] EXCEPT !.whole = TRUE]]
      BY <1>1, <1>2, <1>3 DEF Finished
    <2> QED BY <2>1, <1>4
  <1>6. wire'[q] \in Seq(Frames) /\ Len(wire'[q]) = Len(s) /\ Len(s) \in Nat
    <2>1. Len(s) \in Nat OBVIOUS
    <2>2. [s EXCEPT ![k] = f] \in Seq(Frames) BY ExceptSeq
    <2>3. Len([s EXCEPT ![k] = f]) = Len(s) BY ExceptSeq
    <2> QED BY <1>5, <2>1, <2>2, <2>3, Zenon
  <1>7. wire' \in [Peers -> Seq(Frames)] BY <1>6
  <1>8. \A i \in 1..Len(s) : wire'[q][i] = IF i = k THEN f ELSE s[i] BY <1>5
  <1>9. f.kind = s[k].kind /\ f.n = s[k].n /\ f.whole = TRUE BY <1>3, <1>4 DEF Frames
  <1>10. /\ \A i \in 1..Len(s) : /\ wire'[q][i].kind = s[i].kind /\ wire'[q][i].n = s[i].n
                                 /\ i # k => wire'[q][i].whole = s[i].whole
         /\ wire'[q][k].whole = TRUE
    BY <1>8, <1>9, <1>2
  <1> QED BY <1>1, <1>2, <1>6, <1>7, <1>10

\* What was written stays written, what was heard stays heard.
Grown ==
  \A q \in Peers :
    /\ Len(wire[q]) \in Nat /\ Len(wire'[q]) \in Nat /\ Len(wire[q]) <= Len(wire'[q])
    /\ \A i \in 1..Len(wire[q]) :
         /\ wire'[q][i].kind = wire[q][i].kind /\ wire'[q][i].n = wire[q][i].n
         /\ wire[q][i].whole => wire'[q][i].whole

Remembered ==
  \A p \in Peers :
    /\ Len(heard[p]) \in Nat /\ Len(heard'[p]) \in Nat /\ Len(heard[p]) <= Len(heard'[p])
    /\ \A m \in 1..Len(heard[p]) : heard'[p][m] = heard[p][m]

LEMMA WireKept ==
  ASSUME wire \in [Peers -> Seq(Frames)], UNCHANGED wire PROVE Grown
  <1>1. \A q \in Peers : Len(wire[q]) \in Nat OBVIOUS
  <1> QED BY <1>1 DEF Grown

LEMMA HeardKept ==
  ASSUME heard \in [Peers -> Seq(Kinds)], UNCHANGED heard PROVE Remembered
  <1>1. \A q \in Peers : Len(heard[q]) \in Nat OBVIOUS
  <1> QED BY <1>1 DEF Remembered

LEMMA HeardMore ==
  ASSUME heard \in [Peers -> Seq(Kinds)], NEW p \in Peers, NEW kind \in Kinds,
         heard' = [heard EXCEPT ![p] = Append(@, kind)]
  PROVE  /\ Remembered /\ heard' \in [Peers -> Seq(Kinds)]
         /\ Len(heard[p]) \in Nat /\ Len(heard'[p]) = Len(heard[p]) + 1
         /\ heard'[p][Len(heard[p]) + 1] = kind
         /\ \A q \in Peers \ {p} : heard'[q] = heard[q]
  <1>1. heard[p] \in Seq(Kinds) OBVIOUS
  <1>2. heard'[p] = Append(heard[p], kind) OBVIOUS
  <1>3. heard'[p] \in Seq(Kinds) BY <1>1, <1>2
  <1>4. heard' \in [Peers -> Seq(Kinds)] BY <1>3
  <1>5. /\ Len(heard[p]) \in Nat /\ Len(heard'[p]) = Len(heard[p]) + 1
        /\ heard'[p][Len(heard[p]) + 1] = kind
        /\ \A m \in 1..Len(heard[p]) : heard'[p][m] = heard[p][m]
    BY <1>1, <1>2
  <1>6. \A q \in Peers \ {p} : heard'[q] = heard[q] /\ Len(heard[q]) \in Nat OBVIOUS
  <1> QED BY <1>4, <1>5, <1>6 DEF Remembered

LEMMA BeginningGrows ==
  ASSUME wire \in [Peers -> Seq(Frames)], NEW q \in Peers,
         NEW kind \in {"data", "pong", "close"}, NEW n \in Nat,
         wire' = [wire EXCEPT ![q] = Started(q, kind, n)]
  PROVE  Grown
  <1>1. \A r \in Peers : Len(wire[r]) \in Nat OBVIOUS
  <1>2. /\ Len(wire'[q]) = Len(wire[q]) + 1
        /\ \A i \in 1..Len(wire[q]) : wire'[q][i] = wire[q][i]
        /\ \A r \in Peers \ {q} : wire'[r] = wire[r]
    BY FrameBegins
  <1> QED BY <1>1, <1>2 DEF Grown

LEMMA EndingGrows ==
  ASSUME wire \in [Peers -> Seq(Frames)], NEW q \in Peers, Len(wire[q]) > 0,
         wire' = [wire EXCEPT ![q] = Finished(q)]
  PROVE  Grown
  <1>1. \A r \in Peers : Len(wire[r]) \in Nat OBVIOUS
  <1>2. /\ Len(wire'[q]) = Len(wire[q])
        /\ \A i \in 1..Len(wire[q]) :
              /\ wire'[q][i].kind = wire[q][i].kind /\ wire'[q][i].n = wire[q][i].n
              /\ i # Len(wire[q]) => wire'[q][i].whole = wire[q][i].whole
        /\ wire'[q][Len(wire[q])].whole = TRUE
        /\ \A r \in Peers \ {q} : wire'[r] = wire[r]
    BY FrameEnds
  <1>3. \A i \in 1..Len(wire[q]) : wire[q][i].whole => wire'[q][i].whole BY <1>2
  <1> QED BY <1>1, <1>2, <1>3 DEF Grown

(* A peer that was told of the close stays told. *)
LEMMA TellingStays ==
  ASSUME RelayTypes, RelayTypes', Grown, lost \subseteq lost', NEW q \in Peers, GotClose(q)
  PROVE  GotClose(q)'
  <1>1. Len(wire[q]) \in Nat /\ Len(wire'[q]) \in Nat /\ Len(wire[q]) <= Len(wire'[q])
    BY DEF Grown
  <1>2. PICK i \in 1..Len(wire[q]) :
          /\ wire[q][i].kind = "close" /\ wire[q][i].whole
          /\ q \in lost \/ \A j \in 1..(i - 1) : wire[q][j].whole
    BY DEF GotClose
  <1>3. i \in 1..Len(wire'[q]) BY <1>1
  <1>4. wire'[q][i].kind = "close" /\ wire'[q][i].whole BY <1>2 DEF Grown
  <1>5. \A j \in 1..(i - 1) : j \in 1..Len(wire[q]) BY <1>1
  <1>6. q \in lost' \/ \A j \in 1..(i - 1) : wire'[q][j].whole BY <1>2, <1>5 DEF Grown
  <1> QED BY <1>3, <1>4, <1>6 DEF GotClose

LEMMA HearingStays ==
  ASSUME RelayTypes, RelayTypes', Remembered, NEW p \in Peers, NEW kinds, Heard(p, kinds)
  PROVE  Heard(p, kinds)'
  <1>1. PICK i \in DOMAIN heard[p] : heard[p][i] \in kinds BY DEF Heard
  <1>2. heard[p] \in Seq(Kinds) /\ heard'[p] \in Seq(Kinds) BY DEF RelayTypes
  <1>3. /\ DOMAIN heard[p] = 1..Len(heard[p]) /\ DOMAIN heard'[p] = 1..Len(heard'[p])
        /\ Len(heard[p]) \in Nat /\ Len(heard'[p]) \in Nat
    BY <1>2
  <1>4. i \in DOMAIN heard'[p] /\ heard'[p][i] = heard[p][i] BY <1>3 DEF Remembered
  <1> QED BY <1>1, <1>4 DEF Heard

LEMMA CauseStays ==
  ASSUME RelayTypes, RelayTypes', Remembered, lost \subseteq lost', Cause
  PROVE  Cause'
  BY HearingStays DEF Cause

LEMMA CarryingStays ==
  ASSUME Grown, NEW q \in Peers, NEW m, \E j \in 1..Len(wire[q]) : Carries(q, j, m)
  PROVE  (\E j \in 1..Len(wire[q]) : Carries(q, j, m))'
  BY DEF Grown, Carries

(* Types of a pump's record, by component. *)
LEMMA JobFields ==
  ASSUME RelayTypes, NEW p \in Peers
  PROVE  /\ pump[p].at \in {"none", "read", "lock", "write", "shut", "ended"}
         /\ pump[p].to \in Peers \cup {"none"} /\ pump[p].n \in Nat
         /\ pump[p].kind \in {"none", "data", "pong", "close"}
         /\ pump[p].then \in {"none", "read", "forward", "shut", "violation"} \cup Endings
         /\ heard[p] \in Seq(Kinds) /\ Len(heard[p]) \in Nat
         /\ wire[p] \in Seq(Frames) /\ Len(wire[p]) \in Nat
  <1>1. pump[p] \in Jobs /\ heard[p] \in Seq(Kinds) /\ wire[p] \in Seq(Frames)
    BY DEF RelayTypes
  <1>2. Len(heard[p]) \in Nat /\ Len(wire[p]) \in Nat BY <1>1
  <1> QED BY <1>1, <1>2 DEF Jobs

-----------------------------------------------------------------------------
(* What a step leaves alone stays true *)

LEMMA PumpMoves ==
  ASSUME RelayTypes, NEW p \in Peers, NEW state \in Jobs, Becomes(p, state)
  PROVE  /\ pump' \in [Peers -> Jobs] /\ pump'[p] = state
         /\ \A q \in Peers \ {p} : pump'[q] = pump[q]
  BY DEF RelayTypes, Becomes

LEMMA EndedFields ==
  ASSUME NEW report \in Endings
  PROVE  /\ Ended(report) \in Jobs /\ Ended(report).at = "ended"
         /\ Ended(report).then = report
  BY DEF Ended, Idle, Jobs, Endings

LEMMA SendFields ==
  ASSUME NEW to \in Peers, NEW kind \in {"data", "pong", "close"}, NEW n \in Nat,
         NEW then \in {"read", "forward", "shut", "violation"} \cup Endings
  PROVE  /\ Send(to, kind, n, then) \in Jobs /\ Send(to, kind, n, then).at = "lock"
         /\ Send(to, kind, n, then).to = to /\ Send(to, kind, n, then).kind = kind
         /\ Send(to, kind, n, then).n = n /\ Send(to, kind, n, then).then = then
  BY DEF Send, Jobs

LEMMA JobStays ==
  ASSUME NEW q \in Peers, JobOK(q), pump'[q] = pump[q], heard'[q] = heard[q], tcp' = tcp
  PROVE  JobOK(q)'
  BY DEF JobOK, Busy, Heard

LEMMA CloseStays ==
  ASSUME RelayTypes, RelayTypes', NEW q \in Peers, CloseOK(q), pump'[q] = pump[q],
         tcp' = tcp, Grown, Remembered, lost \subseteq lost'
  PROVE  CloseOK(q)'
  <1>1. \A r \in Peers : GotClose(r) => GotClose(r)' BY TellingStays
  <1>2. Cause => Cause' BY CauseStays
  <1> QED BY <1>1, <1>2 DEF CloseOK, Busy

(* No close is on a wire that was on none, when only heard or lost grow. *)
LEMMA AskedStays ==
  ASSUME RelayTypes, RelayTypes', AskedInv, Remembered, cancelled' = cancelled, UNCHANGED wire
  PROVE  AskedInv'
  <1> SUFFICES ASSUME ~cancelled, NEW q \in Peers, Closed(q)'
               PROVE  (\E s \in Peers : Heard(s, {"close", "badclose"}))'
    BY DEF AskedInv
  <1>1. Closed(q) BY DEF Closed
  <1>2. PICK s \in Peers : Heard(s, {"close", "badclose"}) BY <1>1 DEF AskedInv
  <1>3. Heard(s, {"close", "badclose"})' BY <1>2, HearingStays
  <1> QED BY <1>3

LEMMA PlaceStays ==
  ASSUME RelayTypes, RelayTypes', Grown, Remembered,
         NEW q \in Peers, NEW i \in 1..Len(wire[q]), InPlace(q, i)
  PROVE  InPlace(q, i)'
  <1> DEFINE h == heard[Other(q)]
             g == heard'[Other(q)]
  <1>1. /\ Len(wire[q]) \in Nat
        /\ \A j \in 1..Len(wire[q]) :
             wire'[q][j].kind = wire[q][j].kind /\ wire'[q][j].n = wire[q][j].n
    BY DEF Grown
  <1>2. /\ Len(h) \in Nat /\ Len(g) \in Nat /\ Len(h) <= Len(g)
        /\ \A m \in 1..Len(h) : g[m] = h[m]
    BY TwoPeers DEF Remembered
  <1>3. \A j \in 1..(i - 1) : j \in 1..Len(wire[q]) BY <1>1
  <1>4. SUFFICES ASSUME wire'[q][i].kind = "data"
                 PROVE  /\ wire'[q][i].n \in 1..Len(g)
                        /\ \A j \in 1..(i - 1) : wire'[q][j].kind # "close"
                        /\ \A m \in 1..(wire'[q][i].n - 1) : g[m] = "data" =>
                             \E j \in 1..(i - 1) :
                               wire'[q][j].kind = "data" /\ wire'[q][j].n = m
    BY Zenon DEF InPlace, Carries
  <1>5. /\ wire[q][i].n \in 1..Len(h)
        /\ \A j \in 1..(i - 1) : wire[q][j].kind # "close"
        /\ \A m \in 1..(wire[q][i].n - 1) : h[m] = "data" =>
             \E j \in 1..(i - 1) : wire[q][j].kind = "data" /\ wire[q][j].n = m
    BY <1>1, <1>4 DEF InPlace, Carries
  <1>6. PICK k \in 1..Len(h) : k = wire[q][i].n /\ k = wire'[q][i].n BY <1>1, <1>5
  <1> HIDE DEF h, g
  <1>7. k \in 1..Len(g) /\ \A m \in 1..(k - 1) : g[m] = h[m] BY <1>2
  <1>8. \A j \in 1..(i - 1) : wire'[q][j].kind # "close" BY <1>1, <1>3, <1>5
  <1>9. ASSUME NEW m \in 1..(k - 1), g[m] = "data"
        PROVE  \E j \in 1..(i - 1) : wire'[q][j].kind = "data" /\ wire'[q][j].n = m
    <2>1. PICK j \in 1..(i - 1) : wire[q][j].kind = "data" /\ wire[q][j].n = m
      BY <1>5, <1>6, <1>7, <1>9
    <2> QED BY <2>1, <1>1, <1>3
  <1> QED BY <1>6, <1>7, <1>8, <1>9

LEMMA OrderStays ==
  ASSUME RelayTypes, RelayTypes', OrderInv, Remembered, UNCHANGED wire
  PROVE  OrderInv'
  <1>1. Grown BY WireKept DEF RelayTypes
  <1>2. ASSUME NEW q \in Peers, NEW i \in 1..Len(wire'[q]) PROVE InPlace(q, i)'
    <2>1. i \in 1..Len(wire[q]) /\ InPlace(q, i) BY DEF OrderInv
    <2> QED BY <1>1, <2>1, PlaceStays
  <1> QED BY <1>2 DEF OrderInv

(* A peer whose pump neither hears nor takes up anything has its messages sent. *)
LEMMA SentStays ==
  ASSUME NEW q \in Peers, Grown, pump'[q] = pump[q], heard'[q] = heard[q], SentOn(q)
  PROVE  SentOn(q)'
  <1> SUFFICES ASSUME pump[q].at # "ended", NEW m \in 1..Len(heard[q]), heard[q][m] = "data"
               PROVE  \/ (\E j \in 1..Len(wire[Other(q)]) : Carries(Other(q), j, m))'
                      \/ pump[q].at = "lock" /\ pump[q].kind = "data" /\ pump[q].n = m
    BY DEF SentOn
  <1>1. \/ \E j \in 1..Len(wire[Other(q)]) : Carries(Other(q), j, m)
        \/ pump[q].at = "lock" /\ pump[q].kind = "data" /\ pump[q].n = m
    BY DEF SentOn
  <1> QED BY <1>1, CarryingStays, TwoPeers

LEMMA ReasonStays ==
  ASSUME RelayTypes, RelayTypes', ReasonInv, Grown, Remembered, lost \subseteq lost',
         UNCHANGED <<reason, tcp>>
  PROVE  ReasonInv'
  <1>1. \A r \in Peers : GotClose(r) => GotClose(r)' BY TellingStays
  <1>2. \A p \in Peers : Heard(p, {"close"}) => Heard(p, {"close"})' BY HearingStays
  <1>3. Cause => Cause' BY CauseStays
  <1>4. Justified <=> /\ reason # "InternalError"
                      /\ reason = "RelayError" => Cause
                      /\ reason = "ClientClosed" => Heard("client", {"close"})
                      /\ reason = "BackendClosed" => tcp \/ Heard("backend", {"close"})
    BY DEF Justified, Cause
  <1>5. Justified' <=> /\ reason' # "InternalError"
                       /\ reason' = "RelayError" => Cause'
                       /\ reason' = "ClientClosed" => Heard("client", {"close"})'
                       /\ reason' = "BackendClosed" => tcp' \/ Heard("backend", {"close"})'
    BY DEF Justified, Cause
  <1>6. "client" \in Peers /\ "backend" \in Peers BY DEF Peers
  <1> QED BY <1>1, <1>2, <1>3, <1>4, <1>5, <1>6 DEF ReasonInv

(* The lock that a pump lets go of, and those it leaves alone. *)
LEMMA LettingGo ==
  ASSUME RelayTypes, HoldInv, NEW p \in Peers, holder' = Released(p),
         pump'[p].at # "write", \A q \in Peers \ {p} : pump'[q] = pump[q]
  PROVE  /\ HoldInv' /\ holder' \in [Peers -> Peers \cup {"none"}]
         /\ \A q \in Peers : holder'[q] = IF holder[q] = p THEN "none" ELSE holder[q]
  <1>1. \A q \in Peers : holder'[q] = IF holder[q] = p THEN "none" ELSE holder[q]
    BY DEF Released
  <1>2. holder \in [Peers -> Peers \cup {"none"}] BY DEF RelayTypes
  <1>3. holder' \in [Peers -> Peers \cup {"none"}] BY <1>2 DEF Released
  <1>4. ASSUME NEW r \in Peers, NEW q \in Peers
        PROVE  holder'[q] = r <=> pump'[r].at = "write" /\ pump'[r].to = q
    <2>1. holder[q] = r <=> pump[r].at = "write" /\ pump[r].to = q BY DEF HoldInv
    <2>2. ASSUME r = p PROVE holder'[q] # r BY <2>2, <1>1, TwoPeers
    <2>3. ASSUME r # p PROVE holder'[q] = r <=> holder[q] = r BY <2>3, <1>1, TwoPeers
    <2> QED BY <2>1, <2>2, <2>3
  <1> QED BY <1>1, <1>3, <1>4 DEF HoldInv

(* A pump that is in no frame has no lock to let go of. *)
LEMMA NothingHeld ==
  ASSUME RelayTypes, HoldInv, NEW p \in Peers, pump[p].at # "write"
  PROVE  Released(p) = holder
  <1>1. \A q \in Peers : holder[q] # p BY DEF HoldInv
  <1>2. holder \in [Peers -> Peers \cup {"none"}] BY DEF RelayTypes
  <1> QED BY <1>1, <1>2 DEF Released

-----------------------------------------------------------------------------
(* A pump that ends *)

Stops(p, report) ==
  /\ pump[p].at \in {"read", "lock", "write", "shut"}
  /\ Becomes(p, Ended(report)) /\ holder' = Released(p)
  /\ lost \subseteq lost' /\ lost' \subseteq Peers
  /\ UNCHANGED <<heard, wire, blamed>> /\ UNCHANGED outside /\ UNCHANGED handshake

(* Only while the relay runs, or is joined, is a pump at work. *)
LEMMA AtWork ==
  ASSUME WebSocketInv, NEW p \in Peers, pump[p].at \notin {"none", "ended"}
  PROVE  main \in {"run", "join"} /\ ~Refused
  BY DEF WebSocketInv, RelayTypes, PhaseInv, Refused

(* A step of a pump leaves the phases as they are. *)
LEMMA PhaseStays ==
  ASSUME WebSocketInv, NEW p \in Peers, pump[p].at \notin {"none", "ended"},
         pump'[p].at # "none", \A q \in Peers \ {p} : pump'[q] = pump[q],
         UNCHANGED outside
  PROVE  PhaseInv'
  <1>1. main \in {"run", "join"} /\ ~Refused BY AtWork
  <1>2. main' = main /\ reason' = reason /\ cancelled' = cancelled /\ closing' = closing
    BY DEF outside
  <1>3. ~Refused' /\ main' \notin Before BY <1>1, <1>2 DEF Refused, Before
  <1>4. \A q \in Peers : pump[q].at # "none" BY <1>1 DEF WebSocketInv, PhaseInv, Before
  <1>5. \A q \in Peers : pump'[q].at # "none" BY <1>4
  <1> QED BY <1>1, <1>2, <1>3, <1>5 DEF WebSocketInv, PhaseInv, Before

(* As long as a pump has not ended, the handshake is over, and the client *)
(* was not blamed if it is the client's pump.                             *)
LEMMA HandshakeStays ==
  ASSUME WebSocketInv, NEW p \in Peers, pump[p].at \notin {"none", "ended"},
         UNCHANGED outside, UNCHANGED handshake, blamed' \in 0..1
  PROVE  HandshakeInv'
  <1>1. main \in {"run", "join"} /\ ~Refused BY AtWork
  <1>2. main' = main /\ reason' = reason /\ answer' = answer BY DEF outside, handshake
  <1>3. HandshakeInv BY DEF WebSocketInv
  <1>4. answer \notin {101, 200} BY <1>1, <1>3 DEF HandshakeInv
  <1>5. /\ request' \in Requests /\ answer' \in {0, 101, 200, 400, 426, 502, 503, 505}
        /\ selected' \subseteq Protocols
    BY <1>3 DEF HandshakeInv, handshake
  <1>6. main' \notin {"connect", "upgrade", "launch", "accept"} BY <1>1, <1>2
  <1> QED BY <1>2, <1>4, <1>5, <1>6 DEF HandshakeInv

LEMMA BlameStays ==
  ASSUME WebSocketInv, RelayTypes', NEW p \in Peers, pump[p].at \notin {"none", "ended"},
         \A q \in Peers \ {p} : pump'[q] = pump[q],
         Remembered, UNCHANGED outside, UNCHANGED handshake, UNCHANGED blamed
  PROVE  BlameInv'
  <1>1. main \in {"run", "join"} /\ ~Refused BY AtWork
  <1>2. main' = main /\ reason' = reason /\ blamed' = blamed BY DEF outside
  <1>3. ~Refused' BY <1>1, <1>2 DEF Refused
  <1>4. BlameInv /\ RelayTypes BY DEF WebSocketInv
  <1>5. ASSUME blamed = 1
        PROVE  pump'["client"].at = "ended" /\ Heard("client", {"badclose", "nonsense"})'
    <2>1. pump["client"].at = "ended" /\ Heard("client", {"badclose", "nonsense"})
      BY <1>1, <1>4, <1>5 DEF BlameInv
    <2>2. "client" \in Peers \ {p} BY <2>1 DEF Peers
    <2> QED BY <2>1, <2>2, <1>4, HearingStays
  <1> QED BY <1>2, <1>3, <1>5 DEF BlameInv

LEMMA StopKeeps ==
  ASSUME WebSocketInv, NEW p \in Peers, NEW report \in Endings, Stops(p, report),
         pump[p].at = "write" => cancelled \/ pump[p].to \in lost',
         report = "closed" => (tcp /\ p = "backend") \/ Heard(p, {"close"}),
         ~cancelled =>
           /\ report = "closed" =>
                \A q \in Peers : ~tcp \/ (q = "client" /\ p = "client") => GotClose(q)
           /\ report = "error" => Cause'
           /\ report # "cancelled"
  PROVE  WebSocketInv'
  <1>1. /\ pump' \in [Peers -> Jobs] /\ pump'[p].at = "ended" /\ pump'[p].then = report
        /\ \A q \in Peers \ {p} : pump'[q] = pump[q]
    BY PumpMoves, EndedFields DEF Stops, WebSocketInv
  <1>2. /\ heard' = heard /\ wire' = wire /\ blamed' = blamed /\ tcp' = tcp
        /\ cancelled' = cancelled /\ closing' = closing /\ lost \subseteq lost'
    BY DEF Stops, outside
  <1>3. /\ HoldInv' /\ holder' \in [Peers -> Peers \cup {"none"}]
        /\ \A q \in Peers : holder'[q] = IF holder[q] = p THEN "none" ELSE holder[q]
    BY <1>1, LettingGo DEF Stops, WebSocketInv
  <1>4. RelayTypes' BY <1>1, <1>2, <1>3 DEF Stops, outside, WebSocketInv, RelayTypes
  <1>5. Grown /\ Remembered BY <1>2, WireKept, HeardKept DEF WebSocketInv, RelayTypes
  <1>6. JobInv'
    <2>1. JobOK(p)'
      <3>1. ~Busy(p)' BY <1>1 DEF Busy
      <3>2. JobOK(p) BY DEF WebSocketInv, JobInv
      <3> QED BY <1>1, <1>2, <3>1, <3>2 DEF JobOK, Heard
    <2>2. \A q \in Peers \ {p} : JobOK(q)'
      BY <1>1, <1>2, JobStays DEF WebSocketInv, JobInv
    <2> QED BY <2>1, <2>2 DEF JobInv
  <1>7. PhaseInv' BY <1>1, PhaseStays DEF Stops
  <1>8. WireInv'
    <2> SUFFICES ASSUME NEW q \in Peers
                 PROVE  /\ \A i \in 1..Len(wire[q]) :
                             wire[q][i].whole \/ cancelled \/ q \in lost'
                               \/ (i = Len(wire[q]) /\ holder'[q] # "none")
                        /\ closing[q] = "write" => Len(wire[q]) > 0
                        /\ \A r \in Peers : holder'[q] = r =>
                             /\ Len(wire[q]) > 0
                             /\ wire[q][Len(wire[q])].kind = pump'[r].kind
      BY <1>2 DEF WireInv
    <2>1. /\ \A i \in 1..Len(wire[q]) :
               wire[q][i].whole \/ cancelled \/ q \in lost
                 \/ (i = Len(wire[q]) /\ holder[q] # "none")
          /\ closing[q] = "write" => Len(wire[q]) > 0
          /\ \A r \in Peers : holder[q] = r =>
               /\ Len(wire[q]) > 0
               /\ wire[q][Len(wire[q])].kind = pump[r].kind
      BY DEF WebSocketInv, WireInv
    <2>2. holder[q] = p => cancelled \/ q \in lost' BY DEF WebSocketInv, HoldInv
    <2>3. holder'[q] # "none" \/ holder[q] = "none" \/ holder[q] = p BY <1>3
    <2>4. \A r \in Peers : holder'[q] = r => holder[q] = r /\ r # p BY <1>3, TwoPeers
    <2> QED BY <2>1, <2>2, <2>3, <2>4, <1>1, <1>2
  <1>9. OrderInv' BY <1>2, <1>4, <1>5, OrderStays DEF WebSocketInv
  <1>10. SentInv'
    <2>1. SentOn(p)' BY <1>1 DEF SentOn
    <2>2. \A q \in Peers \ {p} : SentOn(q)'
      BY <1>1, <1>2, <1>5, SentStays DEF WebSocketInv, SentInv
    <2> QED BY <2>1, <2>2 DEF SentInv
  <1>11. CloseInv'
    <2> SUFFICES ASSUME ~cancelled PROVE \A q \in Peers : CloseOK(q)'
      BY <1>2 DEF CloseInv
    <2>1. CloseOK(p)'
      <3>1. \A r \in Peers : GotClose(r) => GotClose(r)'
        BY <1>2, <1>4, <1>5, TellingStays DEF WebSocketInv
      <3>2. ~Busy(p)' BY <1>1 DEF Busy
      <3> QED BY <1>1, <1>2, <3>1, <3>2 DEF CloseOK
    <2>2. \A q \in Peers \ {p} : CloseOK(q)'
      BY <1>1, <1>2, <1>4, <1>5, CloseStays DEF WebSocketInv, CloseInv
    <2> QED BY <2>1, <2>2
  <1>12. AskedInv' BY <1>2, <1>4, <1>5, AskedStays DEF WebSocketInv
  <1>13. ReasonInv'
    BY <1>2, <1>4, <1>5, ReasonStays DEF WebSocketInv, Stops, outside
  <1>14. BlameInv' BY <1>1, <1>4, <1>5, BlameStays DEF Stops
  <1>15. HandshakeInv'
    BY <1>4, HandshakeStays DEF Stops, RelayTypes
  <1> QED
    BY <1>3, <1>4, <1>6, <1>7, <1>8, <1>9, <1>10, <1>11, <1>12, <1>13, <1>14, <1>15
    DEF WebSocketInv

-----------------------------------------------------------------------------
(* A pump that reads a frame *)

LEMMA HeardNow ==
  ASSUME WebSocketInv, NEW p \in Peers, NEW kind \in Kinds, Hears(p, kind)
  PROVE  /\ Remembered /\ heard' \in [Peers -> Seq(Kinds)]
         /\ Len(heard[p]) \in Nat /\ Len(heard'[p]) = Len(heard[p]) + 1
         /\ Len(heard'[p]) <= MaxFrames
         /\ heard'[p][Len(heard[p]) + 1] = kind
         /\ \A kinds : kind \in kinds => Heard(p, kinds)'
         /\ \A q \in Peers \ {p} : heard'[q] = heard[q]
  <1>1. heard' = [heard EXCEPT ![p] = Append(@, kind)] /\ Len(heard[p]) < MaxFrames
    BY DEF Hears
  <1>2. /\ Remembered /\ heard' \in [Peers -> Seq(Kinds)]
        /\ Len(heard[p]) \in Nat /\ Len(heard'[p]) = Len(heard[p]) + 1
        /\ heard'[p][Len(heard[p]) + 1] = kind
        /\ \A q \in Peers \ {p} : heard'[q] = heard[q]
    BY <1>1, HeardMore DEF WebSocketInv, RelayTypes
  <1>3. Len(heard'[p]) <= MaxFrames BY <1>1, <1>2, RelayAssumption
  <1>4. Len(heard[p]) + 1 \in DOMAIN heard'[p]
    <2>1. heard'[p] \in Seq(Kinds) BY <1>2
    <2> QED BY <1>2, <2>1
  <1> QED BY <1>2, <1>3, <1>4 DEF Heard

LEMMA HearKeeps ==
  ASSUME WebSocketInv, NEW p \in Peers, NEW kind \in Kinds, Hears(p, kind),
         NEW state \in Jobs, Becomes(p, state), UNCHANGED handshake,
         \/ state.at = "lock" /\ state.then # "closed"
         \/ state.at = "ended" /\ state.then = "error" /\ kind = "nonsense",
         kind = "data" => /\ state.at = "lock" /\ state.kind = "data"
                          /\ state.n = Len(heard[p]) + 1,
         JobOK(p)', blamed' \in 0..1, BlameInv'
  PROVE  WebSocketInv'
  <1>1. /\ pump' \in [Peers -> Jobs] /\ pump'[p] = state
        /\ \A q \in Peers \ {p} : pump'[q] = pump[q]
    BY PumpMoves DEF WebSocketInv
  <1>2. /\ Remembered /\ heard' \in [Peers -> Seq(Kinds)]
        /\ Len(heard[p]) \in Nat /\ Len(heard'[p]) = Len(heard[p]) + 1
        /\ heard'[p][Len(heard[p]) + 1] = kind
        /\ \A kinds : kind \in kinds => Heard(p, kinds)'
        /\ \A q \in Peers \ {p} : heard'[q] = heard[q]
    BY HeardNow
  <1>3. /\ pump[p].at = "read" /\ holder' = holder /\ wire' = wire /\ lost' = lost
        /\ tcp' = tcp /\ cancelled' = cancelled /\ closing' = closing
    BY DEF Hears, outside
  <1>4. RelayTypes' BY <1>1, <1>2, <1>3 DEF Hears, outside, WebSocketInv, RelayTypes
  <1>5. Grown BY <1>3, WireKept DEF WebSocketInv, RelayTypes
  <1>6. pump'[p].at \notin {"none", "write"} /\ pump[p].at \notin {"none", "ended"}
    BY <1>1, <1>3
  <1>7. JobInv'
    <2>1. \A q \in Peers \ {p} : JobOK(q)'
      BY <1>1, <1>2, <1>3, JobStays DEF WebSocketInv, JobInv
    <2> QED BY <2>1 DEF JobInv
  <1>8. HoldInv'
    <2>1. holder' = Released(p) BY <1>3, NothingHeld DEF WebSocketInv
    <2> QED BY <1>1, <1>6, <2>1, LettingGo DEF WebSocketInv
  <1>9. PhaseInv' BY <1>1, <1>6, PhaseStays DEF Hears
  <1>10. WireInv'
    <2>1. \A q \in Peers : holder[q] # p BY <1>3 DEF WebSocketInv, HoldInv
    <2>2. \A q, r \in Peers : holder[q] = r => pump'[r] = pump[r] BY <1>1, <2>1
    <2> QED BY <1>3, <2>2 DEF WebSocketInv, WireInv
  <1>11. OrderInv' BY <1>2, <1>3, <1>4, OrderStays DEF WebSocketInv
  <1>12. SentInv'
    <2>1. SentOn(p)'
      <3> SUFFICES ASSUME pump'[p].at # "ended",
                          NEW m \in 1..Len(heard'[p]), heard'[p][m] = "data"
                   PROVE  \/ (\E j \in 1..Len(wire[Other(p)]) : Carries(Other(p), j, m))'
                          \/ pump'[p].at = "lock" /\ pump'[p].kind = "data" /\ pump'[p].n = m
        BY DEF SentOn
      <3>1. CASE m = Len(heard[p]) + 1 BY <1>1, <1>2, <3>1
      <3>2. CASE m # Len(heard[p]) + 1
        <4>1. m \in 1..Len(heard[p]) BY <1>2, <3>2
        <4>2. heard[p][m] = "data" BY <1>2, <4>1 DEF Remembered
        <4>3. \E j \in 1..Len(wire[Other(p)]) : Carries(Other(p), j, m)
          BY <1>3, <4>1, <4>2 DEF WebSocketInv, SentInv, SentOn
        <4> QED BY <4>3, <1>5, CarryingStays, TwoPeers
      <3> QED BY <3>1, <3>2
    <2>2. \A q \in Peers \ {p} : SentOn(q)'
      BY <1>1, <1>2, <1>5, SentStays DEF WebSocketInv, SentInv
    <2> QED BY <2>1, <2>2 DEF SentInv
  <1>13. CloseInv'
    <2> SUFFICES ASSUME ~cancelled PROVE \A q \in Peers : CloseOK(q)'
      BY <1>3 DEF CloseInv
    <2>1. CloseOK(p)'
      <3>1. kind = "nonsense" => Cause' BY <1>2 DEF Cause
      <3> QED BY <1>1, <3>1 DEF CloseOK, Busy
    <2>2. \A q \in Peers \ {p} : CloseOK(q)'
      BY <1>1, <1>2, <1>3, <1>4, <1>5, CloseStays DEF WebSocketInv, CloseInv
    <2> QED BY <2>1, <2>2
  <1>14. AskedInv' BY <1>2, <1>3, <1>4, AskedStays DEF WebSocketInv
  <1>15. ReasonInv'
    BY <1>2, <1>3, <1>4, <1>5, ReasonStays DEF WebSocketInv, Hears, outside
  <1>16. HandshakeInv' BY <1>6, HandshakeStays DEF Hears
  <1> QED
    BY <1>4, <1>7, <1>8, <1>9, <1>10, <1>11, <1>12, <1>13, <1>14, <1>15, <1>16
    DEF WebSocketInv

(* The answer to a frame: what the pump writes, and to whom. *)
LEMMA AnswerKeeps ==
  ASSUME WebSocketInv, NEW p \in Peers, NEW kind \in {"data", "ping", "close", "badclose"},
         Hears(p, kind), UNCHANGED blamed, UNCHANGED handshake,
         NEW state \in Jobs, Becomes(p, state), state.at = "lock",
         \/ /\ kind = "data" /\ state.kind = "data" /\ state.to = Other(p)
            /\ state.n = Len(heard[p]) + 1 /\ state.then = "read"
         \/ kind = "ping" /\ state.kind = "pong" /\ state.to = p /\ state.then = "read"
         \/ /\ kind = "close" /\ state.kind = "close" /\ state.to = p
            /\ state.then = (IF tcp THEN "shut" ELSE "forward") /\ (tcp => p = "client")
         \/ /\ kind = "badclose" /\ state.kind = "close" /\ state.to = p
            /\ state.then = "violation"
  PROVE  WebSocketInv'
  <1>1. kind \in Kinds BY DEF Kinds
  <1>2. /\ pump' \in [Peers -> Jobs] /\ pump'[p] = state
        /\ \A q \in Peers \ {p} : pump'[q] = pump[q]
    BY PumpMoves DEF WebSocketInv
  <1>3. /\ Remembered /\ heard' \in [Peers -> Seq(Kinds)]
        /\ Len(heard[p]) \in Nat /\ Len(heard'[p]) = Len(heard[p]) + 1
        /\ Len(heard'[p]) <= MaxFrames
        /\ \A kinds : kind \in kinds => Heard(p, kinds)'
    BY <1>1, HeardNow
  <1>4. tcp' = tcp /\ pump[p].at = "read" BY DEF Hears, outside
  <1>5. JobOK(p)'
    <2>1. \/ kind = "close" /\ Heard(p, {"close"})'
          \/ kind = "badclose" /\ Heard(p, {"badclose"})'
          \/ kind \in {"data", "ping"}
      BY <1>3
    <2> QED BY <1>2, <1>3, <1>4, <2>1 DEF JobOK, Busy
  <1>6. BlameInv'
    <2>1. RelayTypes'
      BY <1>2, <1>3 DEF Hears, outside, WebSocketInv, RelayTypes
    <2> QED BY <1>2, <1>3, <1>4, <2>1, BlameStays DEF Hears
  <1>7. blamed' \in 0..1 BY DEF WebSocketInv, RelayTypes
  <1>8. state.then # "closed" BY DEF Endings
  <1> QED BY <1>1, <1>5, <1>6, <1>7, <1>8, HearKeeps

LEMMA HearingKeeps ==
  ASSUME WebSocketInv, UNCHANGED handshake, NEW p \in Peers,
         HearData(p) \/ HearPing(p) \/ HearClose(p) \/ HearBadClose(p)
  PROVE  WebSocketInv'
  <1>1. Other(p) \in Peers /\ Len(heard[p]) + 1 \in Nat
    BY TwoPeers, JobFields DEF WebSocketInv
  <1>2. ASSUME HearData(p) PROVE WebSocketInv'
    <2>1. PICK state \in Jobs : state = Send(Other(p), "data", Len(heard[p]) + 1, "read")
      BY <1>1, SendFields
    <2>2. /\ state.at = "lock" /\ state.kind = "data" /\ state.to = Other(p)
          /\ state.n = Len(heard[p]) + 1 /\ state.then = "read"
      BY <1>1, <2>1, SendFields
    <2> QED BY <1>2, <2>1, <2>2, AnswerKeeps DEF HearData
  <1>3. ASSUME HearPing(p) PROVE WebSocketInv'
    <2>1. PICK state \in Jobs : state = Send(p, "pong", 0, "read") BY SendFields
    <2>2. /\ state.at = "lock" /\ state.kind = "pong" /\ state.to = p
          /\ state.then = "read"
      BY <2>1, SendFields
    <2> QED BY <1>3, <2>1, <2>2, AnswerKeeps DEF HearPing
  <1>4. ASSUME HearClose(p) PROVE WebSocketInv'
    <2>1. PICK state \in Jobs : state = Send(p, "close", 0, IF tcp THEN "shut" ELSE "forward")
      BY SendFields
    <2>2. /\ state.at = "lock" /\ state.kind = "close" /\ state.to = p
          /\ state.then = (IF tcp THEN "shut" ELSE "forward")
      BY <2>1, SendFields
    <2>3. tcp => p = "client" BY <1>4 DEF HearClose, Speaks
    <2> QED BY <1>4, <2>1, <2>2, <2>3, AnswerKeeps DEF HearClose
  <1>5. ASSUME HearBadClose(p) PROVE WebSocketInv'
    <2>1. PICK state \in Jobs : state = Send(p, "close", 0, "violation") BY SendFields
    <2>2. /\ state.at = "lock" /\ state.kind = "close" /\ state.to = p
          /\ state.then = "violation"
      BY <2>1, SendFields
    <2> QED BY <1>5, <2>1, <2>2, AnswerKeeps DEF HearBadClose
  <1> QED BY <1>2, <1>3, <1>4, <1>5

(* A frame that breaks the protocol: the client is blamed for its own only. *)
LEMMA NonsenseKeeps ==
  ASSUME WebSocketInv, UNCHANGED handshake, NEW p \in Peers, HearNonsense(p)
  PROVE  WebSocketInv'
  <1>1. Hears(p, "nonsense") /\ pump[p].at = "read" BY DEF HearNonsense, Hears
  <1>2. "nonsense" \in Kinds /\ "error" \in Endings BY DEF Kinds, Endings
  <1>3. PICK state \in Jobs : /\ state = Ended("error") /\ state.at = "ended"
                              /\ state.then = "error"
    BY <1>2, EndedFields
  <1>4. Becomes(p, state) BY <1>3 DEF HearNonsense
  <1>5. /\ pump' \in [Peers -> Jobs] /\ pump'[p] = state
        /\ \A q \in Peers \ {p} : pump'[q] = pump[q]
    BY <1>4, PumpMoves DEF WebSocketInv
  <1>6. /\ Remembered /\ heard' \in [Peers -> Seq(Kinds)]
        /\ Len(heard'[p]) <= MaxFrames
        /\ \A kinds : "nonsense" \in kinds => Heard(p, kinds)'
    BY <1>1, <1>2, HeardNow
  <1>7. JobOK(p)' BY <1>2, <1>3, <1>5, <1>6 DEF JobOK, Busy
  <1>8. main \in {"run", "join"} /\ ~Refused BY <1>1, AtWork
  <1>9. ~Refused' BY <1>1, <1>8 DEF Refused, Hears, outside
  <1>10. blamed' \in 0..1 /\ BlameInv'
    <2>1. CASE p = "client"
      <3>1. blamed \in 0..1 /\ blamed # 1
        BY <1>1, <1>8, <2>1 DEF WebSocketInv, RelayTypes, BlameInv
      <3>2. blamed' = 1 BY <2>1, <3>1 DEF HearNonsense
      <3>3. Heard("client", {"badclose", "nonsense"})' BY <1>6, <2>1
      <3> QED BY <1>3, <1>5, <1>9, <2>1, <3>2, <3>3 DEF BlameInv
    <2>2. CASE p # "client"
      <3>1. blamed' = blamed BY <2>2 DEF HearNonsense
      <3>2. RelayTypes'
        BY <1>5, <1>6, <1>1, <3>1 DEF Hears, outside, WebSocketInv, RelayTypes
      <3> QED BY <1>1, <1>5, <1>6, <3>1, <3>2, BlameStays DEF Hears, RelayTypes
    <2> QED BY <2>1, <2>2
  <1> QED BY <1>1, <1>2, <1>3, <1>4, <1>7, <1>10, HearKeeps

-----------------------------------------------------------------------------
(* The ways in which a pump ends *)

LEMMA StoppingKeeps ==
  ASSUME WebSocketInv, UNCHANGED handshake, NEW p \in Peers,
         ReadEnds(p) \/ ReadFails(p) \/ WriterClosed(p) \/ WriteFails(p)
           \/ ShutEnds(p) \/ Cancel(p)
  PROVE  WebSocketInv'
  <1>1. "closed" \in Endings /\ "error" \in Endings /\ "cancelled" \in Endings BY DEF Endings
  <1>2. pump[p].at # "write" => Released(p) = holder BY NothingHeld DEF WebSocketInv
  <1>3. lost \subseteq Peers BY DEF WebSocketInv, RelayTypes
  <1>4. JobOK(p) BY DEF WebSocketInv, JobInv
  <1>5. ASSUME ReadEnds(p) PROVE WebSocketInv'
    <2>1. Stops(p, "closed") BY <1>2, <1>3, <1>5 DEF ReadEnds, Stops
    <2>2. tcp /\ p = "backend" BY <1>5 DEF ReadEnds, Speaks, Peers
    <2>3. pump[p].at # "write" BY <1>5 DEF ReadEnds
    <2> QED BY <1>1, <2>1, <2>2, <2>3, StopKeeps
  <1>6. ASSUME ReadFails(p) PROVE WebSocketInv'
    <2>1. Stops(p, "error") BY <1>2, <1>3, <1>6 DEF ReadFails, Stops
    <2>2. pump[p].at # "write" /\ Cause' BY <1>6 DEF ReadFails, Cause
    <2> QED BY <1>1, <2>1, <2>2, StopKeeps
  <1>7. ASSUME WriterClosed(p) PROVE WebSocketInv'
    <2>1. Stops(p, "error") BY <1>2, <1>3, <1>7 DEF WriterClosed, Stops
    <2>2. pump[p].at # "write" /\ Closed(pump[p].to) BY <1>7 DEF WriterClosed
    <2>3. pump[p].to \in Peers
      BY <1>4, <1>7, TwoPeers DEF WriterClosed, JobOK, Busy
    <2>4. ~cancelled => Cause'
      <3>1. ~cancelled => \E s \in Peers : Heard(s, {"close", "badclose"})
        BY <2>2, <2>3 DEF WebSocketInv, AskedInv
      <3> QED BY <3>1, <1>7 DEF Cause, Heard, WriterClosed
    <2> QED BY <1>1, <2>1, <2>2, <2>4, StopKeeps
  <1>8. ASSUME WriteFails(p) PROVE WebSocketInv'
    <2>1. pump[p].to \in Peers /\ lost' = lost \cup {pump[p].to}
      BY <1>4, <1>8, TwoPeers DEF WriteFails, JobOK, Busy
    <2>2. Stops(p, "error") BY <1>3, <1>8, <2>1 DEF WriteFails, Stops
    <2>3. Cause' BY <2>1 DEF Cause
    <2> QED BY <1>1, <2>1, <2>2, <2>3, StopKeeps
  <1>9. ASSUME ShutEnds(p) PROVE WebSocketInv'
    <2>1. Stops(p, "closed") BY <1>2, <1>3, <1>9 DEF ShutEnds, Stops
    <2>2. pump[p].at = "shut" /\ pump[p].at # "write" BY <1>9 DEF ShutEnds
    <2>3. tcp /\ p = "client" /\ Heard(p, {"close"}) BY <1>4, <2>2 DEF JobOK
    <2>4. ~cancelled => GotClose("client")
      BY <2>2, <2>3 DEF WebSocketInv, CloseInv, CloseOK
    <2> QED BY <1>1, <2>1, <2>2, <2>3, <2>4, StopKeeps
  <1>10. ASSUME Cancel(p) PROVE WebSocketInv'
    <2>1. PICK report \in {"cancelled", "error"} : Becomes(p, Ended(report))
      BY <1>10 DEF Cancel, Reports
    <2>2. Stops(p, report) /\ cancelled BY <1>3, <1>10, <2>1 DEF Cancel, Stops
    <2> QED BY <1>1, <2>1, <2>2, StopKeeps
  <1> QED BY <1>5, <1>6, <1>7, <1>8, <1>9, <1>10

-----------------------------------------------------------------------------
(* A frame is begun *)

(* The frame that a pump begins, on the writer that it has locked. *)
LEMMA JobOfLock ==
  ASSUME WebSocketInv, NEW p \in Peers, Busy(p)
  PROVE  /\ pump[p].to \in Peers /\ pump[p].n \in Nat
         /\ pump[p].kind \in {"data", "pong", "close"}
         /\ pump[p].then \in {"read", "forward", "shut", "violation", "closed"}
  <1>1. JobOK(p) /\ RelayTypes BY DEF WebSocketInv, JobInv
  <1> QED BY <1>1, JobFields, TwoPeers DEF JobOK

LEMMA LockKeeps ==
  ASSUME WebSocketInv, UNCHANGED handshake, NEW p \in Peers, Lock(p)
  PROVE  WebSocketInv'
  <1>1. PICK to \in Peers, kind \in {"data", "pong", "close"}, n \in Nat :
          to = pump[p].to /\ kind = pump[p].kind /\ n = pump[p].n
    BY JobOfLock DEF Lock, Busy
  <1>2. PICK state : state = [pump[p] EXCEPT !.at = "write"] OBVIOUS
  <1>3. /\ state \in Jobs /\ state.at = "write" /\ state.to = to /\ state.kind = kind
        /\ state.n = n /\ state.then = pump[p].then
    <2>1. pump[p] \in Jobs BY DEF WebSocketInv, RelayTypes
    <2> QED BY <1>1, <1>2, <2>1 DEF Jobs
  <1>4. /\ pump[p].at = "lock" /\ holder[to] = "none" /\ ~(Closed(to) /\ kind # "close")
        /\ wire' = [wire EXCEPT ![to] = Started(to, kind, n)]
        /\ holder' = [holder EXCEPT ![to] = p] /\ Becomes(p, state)
    BY <1>1, <1>2 DEF Lock
  <1>5. /\ heard' = heard /\ lost' = lost /\ blamed' = blamed /\ tcp' = tcp
        /\ cancelled' = cancelled /\ closing' = closing
    BY DEF Lock, outside
  <1>6. /\ pump' \in [Peers -> Jobs] /\ pump'[p] = state
        /\ \A q \in Peers \ {p} : pump'[q] = pump[q]
    BY <1>3, <1>4, PumpMoves DEF WebSocketInv
  <1>7. wire \in [Peers -> Seq(Frames)] /\ RelayTypes BY DEF WebSocketInv, RelayTypes
  <1>8. PICK k \in Nat : k = Len(wire[to]) BY <1>7, JobFields
  <1>9. /\ wire' \in [Peers -> Seq(Frames)] /\ Len(wire'[to]) = k + 1
        /\ \A i \in 1..k : wire'[to][i] = wire[to][i]
        /\ wire'[to][k + 1].kind = kind /\ wire'[to][k + 1].n = n
        /\ \A r \in Peers \ {to} : wire'[r] = wire[r]
    <2>1. /\ wire' \in [Peers -> Seq(Frames)] /\ Len(wire'[to]) = Len(wire[to]) + 1
          /\ \A i \in 1..Len(wire[to]) : wire'[to][i] = wire[to][i]
          /\ wire'[to][Len(wire[to]) + 1].kind = kind
          /\ wire'[to][Len(wire[to]) + 1].n = n
          /\ \A r \in Peers \ {to} : wire'[r] = wire[r]
      BY <1>4, <1>7, FrameBegins
    <2> QED BY <1>8, <2>1
  <1>10. holder' \in [Peers -> Peers \cup {"none"}]
    BY <1>4 DEF WebSocketInv, RelayTypes
  <1>11. RelayTypes' BY <1>5, <1>6, <1>9, <1>10 DEF Lock, outside, WebSocketInv, RelayTypes
  <1>12. Grown BY <1>4, <1>7, BeginningGrows
  <1>13. Remembered BY <1>5, <1>7, HeardKept DEF RelayTypes
  <1>14. JobInv'
    <2>1. JobOK(p)'
      <3>1. JobOK(p) /\ Busy(p) BY <1>4 DEF WebSocketInv, JobInv, Busy
      <3> QED BY <1>1, <1>3, <1>5, <1>6, <3>1 DEF JobOK, Busy, Heard
    <2>2. \A q \in Peers \ {p} : JobOK(q)'
      BY <1>5, <1>6, JobStays DEF WebSocketInv, JobInv
    <2> QED BY <2>1, <2>2 DEF JobInv
  <1>15. HoldInv'
    <2> SUFFICES ASSUME NEW r \in Peers, NEW q \in Peers
                 PROVE  holder'[q] = r <=> pump'[r].at = "write" /\ pump'[r].to = q
      BY DEF HoldInv
    <2>1. holder'[q] = IF q = to THEN p ELSE holder[q]
      BY <1>4, <1>7 DEF RelayTypes
    <2>2. holder[q] = r <=> pump[r].at = "write" /\ pump[r].to = q
      BY DEF WebSocketInv, HoldInv
    <2>3. CASE r = p BY <1>3, <1>4, <1>6, <2>1, <2>2, <2>3
    <2>4. CASE r # p BY <1>4, <1>6, <2>1, <2>2, <2>4, TwoPeers
    <2> QED BY <2>3, <2>4
  <1>16. PhaseInv' BY <1>3, <1>4, <1>6, PhaseStays DEF Lock
  <1>17. WireInv'
    <2> SUFFICES ASSUME NEW q \in Peers
                 PROVE  /\ \A i \in 1..Len(wire'[q]) :
                             wire'[q][i].whole \/ cancelled \/ q \in lost
                               \/ (i = Len(wire'[q]) /\ holder'[q] # "none")
                        /\ closing[q] = "write" => Len(wire'[q]) > 0
                        /\ \A r \in Peers : holder'[q] = r =>
                             /\ Len(wire'[q]) > 0
                             /\ wire'[q][Len(wire'[q])].kind = pump'[r].kind
      BY <1>5 DEF WireInv
    <2>1. /\ \A i \in 1..Len(wire[q]) :
               wire[q][i].whole \/ cancelled \/ q \in lost
                 \/ (i = Len(wire[q]) /\ holder[q] # "none")
          /\ closing[q] = "write" => Len(wire[q]) > 0
          /\ \A r \in Peers : holder[q] = r =>
               /\ Len(wire[q]) > 0
               /\ wire[q][Len(wire[q])].kind = pump[r].kind
      BY DEF WebSocketInv, WireInv
    <2>2. CASE q = to
      <3>1. holder'[q] = p /\ p # "none"
        BY <1>4, <1>7, <2>2, TwoPeers DEF RelayTypes
      <3>2. \A i \in 1..(k + 1) : i = k + 1 \/ i \in 1..k OBVIOUS
      <3>3. \A i \in 1..k : wire'[q][i].whole \/ cancelled \/ q \in lost
        BY <1>4, <1>8, <1>9, <2>1, <2>2
      <3>4. k + 1 > 0 OBVIOUS
      <3>5. wire'[q][k + 1].kind = pump'[p].kind BY <1>3, <1>6, <1>9, <2>2
      <3> QED BY <1>9, <2>2, <3>1, <3>2, <3>3, <3>4, <3>5
    <2>3. CASE q # to
      <3>1. holder'[q] = holder[q] BY <1>4, <2>3
      <3>2. wire'[q] = wire[q] BY <1>9, <2>3
      <3>3. holder[q] # p BY <1>4 DEF WebSocketInv, HoldInv
      <3> QED BY <1>6, <2>1, <3>1, <3>2, <3>3
    <2> QED BY <2>2, <2>3
  <1>18. OrderInv'
    <2> SUFFICES ASSUME NEW q \in Peers, NEW i \in 1..Len(wire'[q])
                 PROVE  InPlace(q, i)'
      BY DEF OrderInv
    <2>1. CASE i \in 1..Len(wire[q])
      BY <1>7, <1>11, <1>12, <1>13, <2>1, PlaceStays DEF WebSocketInv, OrderInv
    <2>2. CASE i \notin 1..Len(wire[q])
      <3>1. q = to /\ i = k + 1 BY <1>8, <1>9, <2>2
      <3> SUFFICES ASSUME kind = "data"
                   PROVE  /\ n \in 1..Len(heard[Other(to)])
                          /\ \A j \in 1..k : wire'[to][j].kind # "close"
                          /\ \A m \in 1..(n - 1) : heard[Other(to)][m] = "data" =>
                               (\E j \in 1..k : Carries(to, j, m))'
        <4>1. (k + 1) - 1 = k OBVIOUS
        <4> QED BY <1>5, <1>9, <3>1, <4>1, Zenon DEF InPlace
      <3>2. to = Other(p) /\ n = Len(heard[p]) /\ n > 0 /\ Other(to) = p
        <4>1. JobOK(p) /\ Busy(p) BY <1>4 DEF WebSocketInv, JobInv, Busy
        <4>2. to = Other(p) /\ n = Len(heard[p]) /\ n > 0 BY <1>1, <4>1 DEF JobOK
        <4> QED BY <4>2, TwoPeers
      <3>3. \A j \in 1..k : wire'[to][j].kind # "close"
        <4>1. wire[to] \in Seq(Frames) /\ DOMAIN wire[to] = 1..k BY <1>7, <1>8
        <4> QED BY <1>4, <1>9, <4>1 DEF Closed
      <3>4. ASSUME NEW m \in 1..(n - 1), heard[p][m] = "data"
            PROVE  (\E j \in 1..k : Carries(to, j, m))'
        <4>1. m \in 1..Len(heard[p]) /\ m # n BY <3>2
        <4>2. \E j \in 1..Len(wire[to]) : Carries(to, j, m)
          BY <1>1, <1>4, <3>2, <3>4, <4>1 DEF WebSocketInv, SentInv, SentOn
        <4>3. PICK j \in 1..k : wire[to][j].kind = "data" /\ wire[to][j].n = m
          BY <1>8, <4>2 DEF Carries
        <4>4. Carries(to, j, m)' BY <1>9, <4>3 DEF Carries
        <4> QED BY <4>4
      <3> QED BY <3>2, <3>3, <3>4
    <2> QED BY <2>1, <2>2
  <1>19. SentInv'
    <2>1. SentOn(p)'
      <3> SUFFICES ASSUME NEW m \in 1..Len(heard[p]), heard[p][m] = "data"
                   PROVE  (\E j \in 1..Len(wire[Other(p)]) : Carries(Other(p), j, m))'
        BY <1>5 DEF SentOn
      <3>1. \/ \E j \in 1..Len(wire[Other(p)]) : Carries(Other(p), j, m)
            \/ pump[p].kind = "data" /\ pump[p].n = m
        BY <1>4 DEF WebSocketInv, SentInv, SentOn
      <3>2. CASE pump[p].kind = "data" /\ pump[p].n = m
        <4>1. to = Other(p) /\ kind = "data" /\ n = m
          <5>1. JobOK(p) /\ Busy(p) BY <1>4 DEF WebSocketInv, JobInv, Busy
          <5> QED BY <1>1, <3>2, <5>1 DEF JobOK
        <4>2. k + 1 \in 1..Len(wire'[to]) BY <1>9
        <4>3. Carries(to, k + 1, m)' BY <1>9, <4>1 DEF Carries
        <4> QED BY <4>1, <4>2, <4>3
      <3> QED BY <3>1, <3>2, <1>12, CarryingStays, TwoPeers
    <2>2. \A q \in Peers \ {p} : SentOn(q)'
      BY <1>5, <1>6, <1>12, SentStays DEF WebSocketInv, SentInv
    <2> QED BY <2>1, <2>2 DEF SentInv
  <1>20. CloseInv'
    <2> SUFFICES ASSUME ~cancelled PROVE \A q \in Peers : CloseOK(q)'
      BY <1>5 DEF CloseInv
    <2>1. CloseOK(p)'
      <3>1. pump[p].then = "closed" => GotClose(p)
        BY <1>4 DEF WebSocketInv, CloseInv, CloseOK, Busy
      <3>2. pump[p].then = "closed" => GotClose(p)'
        BY <1>5, <1>7, <1>11, <1>12, <3>1, TellingStays
      <3> QED BY <1>3, <1>6, <3>2 DEF CloseOK, Busy
    <2>2. \A q \in Peers \ {p} : CloseOK(q)'
      BY <1>5, <1>6, <1>7, <1>11, <1>12, <1>13, CloseStays DEF WebSocketInv, CloseInv
    <2> QED BY <2>1, <2>2
  <1>21. AskedInv'
    <2> SUFFICES ASSUME ~cancelled, NEW q \in Peers, Closed(q)'
                 PROVE  \E s \in Peers : Heard(s, {"close", "badclose"})
      BY <1>5 DEF AskedInv, Heard
    <2>1. CASE q = to /\ kind = "close"
      <3>1. JobOK(p) /\ Busy(p) BY <1>4 DEF WebSocketInv, JobInv, Busy
      <3> QED BY <1>1, <2>1, <3>1 DEF JobOK, Heard
    <2>2. CASE ~(q = to /\ kind = "close")
      <3>1. PICK i \in DOMAIN wire'[q] : wire'[q][i].kind = "close" BY DEF Closed
      <3>2. wire'[q] \in Seq(Frames) /\ wire[q] \in Seq(Frames) BY <1>7, <1>9
      <3>3. i \in 1..Len(wire'[q]) /\ DOMAIN wire[q] = 1..Len(wire[q]) BY <3>1, <3>2
      <3>4. i \in 1..Len(wire[q]) /\ wire'[q][i] = wire[q][i]
        BY <1>8, <1>9, <2>2, <3>1, <3>3
      <3>5. Closed(q) BY <3>1, <3>3, <3>4 DEF Closed
      <3> QED BY <3>5 DEF WebSocketInv, AskedInv
    <2> QED BY <2>1, <2>2
  <1>22. ReasonInv'
    BY <1>5, <1>7, <1>11, <1>12, <1>13, ReasonStays DEF WebSocketInv, Lock, outside
  <1>23. BlameInv'
    BY <1>4, <1>6, <1>11, <1>13, BlameStays DEF Lock
  <1>24. HandshakeInv' BY <1>4, <1>11, HandshakeStays DEF Lock, RelayTypes
  <1> QED
    BY <1>11, <1>14, <1>15, <1>16, <1>17, <1>18, <1>19, <1>20, <1>21, <1>22, <1>23, <1>24
    DEF WebSocketInv

-----------------------------------------------------------------------------
(* A frame is finished *)

(* What the pump does next, by what it was writing. *)
LEMMA AfterWriting ==
  ASSUME WebSocketInv, NEW p \in Peers, pump[p].at = "write"
  PROVE  \E state \in Jobs :
           /\ state = After(p)
           /\ \/ pump[p].then = "read" /\ state.at = "read"
              \/ /\ pump[p].then = "forward" /\ state.at = "lock" /\ state.to = Other(p)
                 /\ state.kind = "close" /\ state.then = "closed"
              \/ pump[p].then = "shut" /\ state.at = "shut"
              \/ pump[p].then = "closed" /\ state.at = "ended" /\ state.then = "closed"
              \/ pump[p].then = "violation" /\ state.at = "ended" /\ state.then = "error"
  <1> DEFINE then == pump[p].then
  <1>1. then \in {"read", "forward", "shut", "violation", "closed"}
    BY JobOfLock DEF Busy
  <1>2. Other(p) \in Peers /\ "closed" \in Endings /\ "error" \in Endings
    BY TwoPeers DEF Endings
  <1>3. CASE then = "read"
    <2>1. After(p) = Idle BY <1>3 DEF After
    <2>2. Idle \in Jobs /\ Idle.at = "read" BY DEF Idle, Jobs
    <2> QED BY <1>3, <2>1, <2>2
  <1>4. CASE then = "forward"
    <2>1. After(p) = Send(Other(p), "close", 0, "closed") BY <1>4 DEF After
    <2> QED BY <1>2, <1>4, <2>1, SendFields
  <1>5. CASE then = "shut"
    <2>1. After(p) = [Idle EXCEPT !.at = "shut"] BY <1>5 DEF After
    <2>2. [Idle EXCEPT !.at = "shut"] \in Jobs /\ [Idle EXCEPT !.at = "shut"].at = "shut"
      BY DEF Idle, Jobs
    <2> QED BY <1>5, <2>1, <2>2
  <1>6. CASE then = "closed"
    <2>1. After(p) = Ended("closed") BY <1>6 DEF After
    <2> QED BY <1>2, <1>6, <2>1, EndedFields
  <1>7. CASE then = "violation"
    <2>1. After(p) = Ended("error") BY <1>7 DEF After
    <2> QED BY <1>2, <1>7, <2>1, EndedFields
  <1> QED BY <1>1, <1>3, <1>4, <1>5, <1>6, <1>7

(* A close that was written to its end has been told. *)
LEMMA WritingTells ==
  ASSUME WebSocketInv, RelayTypes', NEW p \in Peers, NEW to \in Peers,
         pump[p].at = "write", pump[p].to = to, pump[p].kind = "close", ~cancelled,
         wire' = [wire EXCEPT ![to] = Finished(to)], lost' = lost
  PROVE  GotClose(to)'
  <1>1. holder[to] = p BY DEF WebSocketInv, HoldInv
  <1>2. Len(wire[to]) > 0 /\ wire[to][Len(wire[to])].kind = "close"
    BY <1>1 DEF WebSocketInv, WireInv
  <1>3. wire \in [Peers -> Seq(Frames)] BY DEF WebSocketInv, RelayTypes
  <1>4. PICK k \in Nat : k = Len(wire[to]) /\ k > 0 BY <1>2, <1>3, JobFields DEF WebSocketInv
  <1>5. /\ Len(wire'[to]) = k
        /\ \A i \in 1..k : /\ wire'[to][i].kind = wire[to][i].kind
                           /\ i # k => wire'[to][i].whole = wire[to][i].whole
        /\ wire'[to][k].whole = TRUE
    <2>1. /\ wire' \in [Peers -> Seq(Frames)] /\ Len(wire'[to]) = Len(wire[to])
          /\ \A i \in 1..Len(wire[to]) :
               /\ wire'[to][i].kind = wire[to][i].kind /\ wire'[to][i].n = wire[to][i].n
               /\ i # Len(wire[to]) => wire'[to][i].whole = wire[to][i].whole
          /\ wire'[to][Len(wire[to])].whole = TRUE
          /\ \A r \in Peers \ {to} : wire'[r] = wire[r]
      BY <1>2, <1>3, FrameEnds
    <2> QED BY <1>4, <2>1
  <1>6. k \in 1..k /\ wire'[to][k].kind = "close" BY <1>2, <1>4, <1>5
  <1>7. \A j \in 1..(k - 1) : wire[to][j].whole \/ to \in lost
    BY <1>4 DEF WebSocketInv, WireInv
  <1>8. to \in lost' \/ \A j \in 1..(k - 1) : wire'[to][j].whole BY <1>4, <1>5, <1>7
  <1>9. wire'[to][k].whole BY <1>5
  <1> QED BY <1>5, <1>6, <1>8, <1>9 DEF GotClose

LEMMA WrittenKeeps ==
  ASSUME WebSocketInv, UNCHANGED handshake, NEW p \in Peers, Written(p)
  PROVE  WebSocketInv'
  <1>1. pump[p].at = "write" /\ Busy(p) /\ JobOK(p)
    BY DEF Written, Busy, WebSocketInv, JobInv
  <1>2. PICK to \in Peers : to = pump[p].to BY <1>1, JobOfLock
  <1>3. PICK state \in Jobs :
          /\ state = After(p)
          /\ \/ pump[p].then = "read" /\ state.at = "read"
             \/ /\ pump[p].then = "forward" /\ state.at = "lock" /\ state.to = Other(p)
                /\ state.kind = "close" /\ state.then = "closed"
             \/ pump[p].then = "shut" /\ state.at = "shut"
             \/ pump[p].then = "closed" /\ state.at = "ended" /\ state.then = "closed"
             \/ pump[p].then = "violation" /\ state.at = "ended" /\ state.then = "error"
    BY <1>1, AfterWriting
  <1>4. /\ wire' = [wire EXCEPT ![to] = Finished(to)] /\ holder' = Released(p)
        /\ Becomes(p, state)
        /\ blamed' = IF pump[p].then = "violation" /\ p = "client"
                     THEN blamed + 1 ELSE blamed
    BY <1>2, <1>3 DEF Written
  <1>5. /\ heard' = heard /\ lost' = lost /\ tcp' = tcp
        /\ cancelled' = cancelled /\ closing' = closing
    BY DEF Written, outside
  <1>6. /\ pump' \in [Peers -> Jobs] /\ pump'[p] = state
        /\ \A q \in Peers \ {p} : pump'[q] = pump[q]
    BY <1>3, <1>4, PumpMoves DEF WebSocketInv
  <1>7. wire \in [Peers -> Seq(Frames)] /\ RelayTypes BY DEF WebSocketInv, RelayTypes
  <1>8. holder[to] = p /\ Len(wire[to]) > 0
    BY <1>1, <1>2 DEF WebSocketInv, HoldInv, WireInv
  <1>9. PICK k \in Nat : k = Len(wire[to]) /\ k > 0 BY <1>7, <1>8, JobFields
  <1>10. /\ wire' \in [Peers -> Seq(Frames)] /\ Len(wire'[to]) = k
         /\ \A i \in 1..k :
              /\ wire'[to][i].kind = wire[to][i].kind /\ wire'[to][i].n = wire[to][i].n
              /\ i # k => wire'[to][i].whole = wire[to][i].whole
         /\ wire'[to][k].whole = TRUE
         /\ \A r \in Peers \ {to} : wire'[r] = wire[r]
    <2>1. /\ wire' \in [Peers -> Seq(Frames)] /\ Len(wire'[to]) = Len(wire[to])
          /\ \A i \in 1..Len(wire[to]) :
               /\ wire'[to][i].kind = wire[to][i].kind /\ wire'[to][i].n = wire[to][i].n
               /\ i # Len(wire[to]) => wire'[to][i].whole = wire[to][i].whole
          /\ wire'[to][Len(wire[to])].whole = TRUE
          /\ \A r \in Peers \ {to} : wire'[r] = wire[r]
      BY <1>4, <1>7, <1>8, FrameEnds
    <2> QED BY <1>9, <2>1
  <1>11. state.at \notin {"none", "write"} BY <1>3
  <1>12. /\ HoldInv' /\ holder' \in [Peers -> Peers \cup {"none"}]
         /\ \A q \in Peers : holder'[q] = IF holder[q] = p THEN "none" ELSE holder[q]
    BY <1>4, <1>6, <1>7, <1>11, LettingGo DEF WebSocketInv
  <1>13. main \in {"run", "join"} /\ ~Refused BY <1>1, AtWork
  <1>14. blamed' \in 0..1 /\ (blamed' = blamed \/ (p = "client" /\ pump[p].then = "violation"))
    <2>1. blamed \in 0..1 BY DEF WebSocketInv, RelayTypes
    <2>2. p = "client" => blamed # 1 BY <1>1, <1>13 DEF WebSocketInv, BlameInv
    <2> QED BY <1>4, <2>1, <2>2
  <1>15. RelayTypes'
    BY <1>5, <1>6, <1>10, <1>12, <1>14 DEF Written, outside, WebSocketInv, RelayTypes
  <1>16. Grown BY <1>4, <1>7, <1>8, EndingGrows
  <1>17. Remembered BY <1>5, <1>7, HeardKept DEF RelayTypes
  <1>18. JobInv'
    <2>1. JobOK(p)'
      <3>1. /\ pump[p].then = "forward" => ~tcp /\ Heard(p, {"close"})
            /\ pump[p].then = "shut" => tcp /\ p = "client" /\ Heard(p, {"close"})
            /\ pump[p].then = "closed" => Heard(p, {"close"})
        BY <1>1 DEF JobOK
      <3>2. Len(heard[p]) <= MaxFrames BY <1>1 DEF JobOK
      <3> QED BY <1>3, <1>5, <1>6, <3>1, <3>2 DEF JobOK, Busy, Heard, Endings
    <2>2. \A q \in Peers \ {p} : JobOK(q)'
      BY <1>5, <1>6, JobStays DEF WebSocketInv, JobInv
    <2> QED BY <2>1, <2>2 DEF JobInv
  <1>19. PhaseInv' BY <1>1, <1>6, <1>11, PhaseStays DEF Written
  <1>20. WireInv'
    <2> SUFFICES ASSUME NEW q \in Peers
                 PROVE  /\ \A i \in 1..Len(wire'[q]) :
                             wire'[q][i].whole \/ cancelled \/ q \in lost
                               \/ (i = Len(wire'[q]) /\ holder'[q] # "none")
                        /\ closing[q] = "write" => Len(wire'[q]) > 0
                        /\ \A r \in Peers : holder'[q] = r =>
                             /\ Len(wire'[q]) > 0
                             /\ wire'[q][Len(wire'[q])].kind = pump'[r].kind
      BY <1>5 DEF WireInv
    <2>1. /\ \A i \in 1..Len(wire[q]) :
               wire[q][i].whole \/ cancelled \/ q \in lost
                 \/ (i = Len(wire[q]) /\ holder[q] # "none")
          /\ closing[q] = "write" => Len(wire[q]) > 0
          /\ \A r \in Peers : holder[q] = r =>
               /\ Len(wire[q]) > 0
               /\ wire[q][Len(wire[q])].kind = pump[r].kind
      BY DEF WebSocketInv, WireInv
    <2>2. CASE q = to
      <3>1. holder'[q] = "none" BY <1>8, <1>12, <2>2
      <3>2. \A r \in Peers : r # "none" BY TwoPeers
      <3>3. \A i \in 1..k : wire'[q][i].whole \/ cancelled \/ q \in lost
        BY <1>9, <1>10, <2>1, <2>2
      <3> QED BY <1>9, <1>10, <2>2, <3>1, <3>2, <3>3
    <2>3. CASE q # to
      <3>1. holder[q] # p BY <1>2, <2>3 DEF WebSocketInv, HoldInv
      <3>2. holder'[q] = holder[q] BY <1>12, <3>1
      <3>3. wire'[q] = wire[q] BY <1>10, <2>3
      <3> QED BY <1>6, <2>1, <3>1, <3>2, <3>3
    <2> QED BY <2>2, <2>3
  <1>21. OrderInv'
    <2> SUFFICES ASSUME NEW q \in Peers, NEW i \in 1..Len(wire'[q])
                 PROVE  InPlace(q, i)'
      BY DEF OrderInv
    <2>1. i \in 1..Len(wire[q]) BY <1>9, <1>10
    <2> QED BY <1>7, <1>15, <1>16, <1>17, <2>1, PlaceStays DEF WebSocketInv, OrderInv
  <1>22. SentInv'
    <2>1. SentOn(p)'
      <3> SUFFICES ASSUME NEW m \in 1..Len(heard[p]), heard[p][m] = "data"
                   PROVE  (\E j \in 1..Len(wire[Other(p)]) : Carries(Other(p), j, m))'
        BY <1>5 DEF SentOn
      <3>1. \E j \in 1..Len(wire[Other(p)]) : Carries(Other(p), j, m)
        BY <1>1 DEF WebSocketInv, SentInv, SentOn
      <3> QED BY <3>1, <1>16, CarryingStays, TwoPeers
    <2>2. \A q \in Peers \ {p} : SentOn(q)'
      BY <1>5, <1>6, <1>16, SentStays DEF WebSocketInv, SentInv
    <2> QED BY <2>1, <2>2 DEF SentInv
  <1>23. CloseInv'
    <2> SUFFICES ASSUME ~cancelled PROVE \A q \in Peers : CloseOK(q)'
      BY <1>5 DEF CloseInv
    <2>1. CloseOK(p)'
      <3>1. \A r \in Peers : GotClose(r) => GotClose(r)'
        BY <1>5, <1>7, <1>15, <1>16, TellingStays
      <3>2. pump[p].then = "closed" => GotClose(p)
        BY <1>1 DEF WebSocketInv, CloseInv, CloseOK
      <3>3. pump[p].kind = "close" => GotClose(to)'
        BY <1>1, <1>2, <1>4, <1>5, <1>15, WritingTells
      <3>4. CASE pump[p].then = "read" BY <1>3, <1>6, <3>4 DEF CloseOK, Busy
      <3>5. CASE pump[p].then \in {"forward", "shut"}
        <4>1. pump[p].kind = "close" /\ to = p BY <1>1, <1>2, <3>5 DEF JobOK
        <4> QED BY <1>3, <1>6, <3>3, <3>5, <4>1 DEF CloseOK, Busy
      <3>6. CASE pump[p].then = "closed"
        <4>1. pump[p].kind = "close" /\ to = Other(p) BY <1>1, <1>2, <3>6 DEF JobOK
        <4>2. \A q \in Peers : GotClose(q)' BY <3>1, <3>2, <3>3, <3>6, <4>1, TwoPeers
        <4> QED BY <1>3, <1>6, <3>6, <4>2 DEF CloseOK, Busy
      <3>7. CASE pump[p].then = "violation"
        <4>1. Heard(p, {"badclose"}) BY <1>1, <3>7 DEF JobOK
        <4>2. Cause' BY <1>5, <4>1 DEF Cause, Heard
        <4> QED BY <1>3, <1>6, <3>7, <4>2 DEF CloseOK, Busy
      <3> QED BY <1>3, <3>4, <3>5, <3>6, <3>7
    <2>2. \A q \in Peers \ {p} : CloseOK(q)'
      BY <1>5, <1>6, <1>7, <1>15, <1>16, <1>17, CloseStays DEF WebSocketInv, CloseInv
    <2> QED BY <2>1, <2>2
  <1>24. AskedInv'
    <2> SUFFICES ASSUME ~cancelled, NEW q \in Peers, Closed(q)'
                 PROVE  \E s \in Peers : Heard(s, {"close", "badclose"})
      BY <1>5 DEF AskedInv, Heard
    <2>1. PICK i \in DOMAIN wire'[q] : wire'[q][i].kind = "close" BY DEF Closed
    <2>2. wire'[q] \in Seq(Frames) /\ wire[q] \in Seq(Frames) BY <1>7, <1>10
    <2>3. i \in 1..Len(wire'[q]) /\ DOMAIN wire[q] = 1..Len(wire[q]) BY <2>1, <2>2
    <2>4. i \in 1..Len(wire[q]) /\ wire[q][i].kind = "close"
      BY <1>9, <1>10, <2>1, <2>3
    <2>5. Closed(q) BY <2>3, <2>4 DEF Closed
    <2> QED BY <2>5 DEF WebSocketInv, AskedInv
  <1>25. ReasonInv'
    BY <1>5, <1>7, <1>15, <1>16, <1>17, ReasonStays DEF WebSocketInv, Written, outside
  <1>26. BlameInv'
    <2>1. CASE blamed' = blamed
      BY <1>1, <1>6, <1>15, <1>17, <2>1, BlameStays DEF Written
    <2>2. CASE p = "client" /\ pump[p].then = "violation"
      <3>1. ~Refused' BY <1>13 DEF Written, outside, Refused
      <3>2. pump'["client"].at = "ended" BY <1>3, <1>6, <2>2
      <3>3. Heard("client", {"badclose"}) BY <1>1, <2>2 DEF JobOK
      <3>4. Heard("client", {"badclose", "nonsense"})' BY <1>5, <3>3 DEF Heard
      <3> QED BY <3>1, <3>2, <3>4 DEF BlameInv
    <2> QED BY <1>14, <2>1, <2>2
  <1>27. HandshakeInv' BY <1>1, <1>14, HandshakeStays DEF Written
  <1> QED
    BY <1>12, <1>15, <1>18, <1>19, <1>20, <1>21, <1>22, <1>23, <1>24, <1>25, <1>26, <1>27
    DEF WebSocketInv

-----------------------------------------------------------------------------
(* main: the relay ends *)

(* What a step of main that writes nothing leaves as it is. *)
LEMMA MainQuiet ==
  ASSUME WebSocketInv, UNCHANGED pumps, UNCHANGED wire,
         main' \in Before \cup {"run", "join", "close", "done"}, reason' \in Reasons,
         shutdown' \in BOOLEAN, cancelled' \in BOOLEAN, cancelled => cancelled',
         closing' \in [Peers -> {"due", "write", "done"}],
         \A q \in Peers : closing'[q] = "write" => closing[q] = "write"
  PROVE  /\ RelayTypes' /\ JobInv' /\ HoldInv' /\ WireInv' /\ OrderInv' /\ SentInv'
         /\ CloseInv' /\ AskedInv'
  <1>1. /\ tcp' = tcp /\ heard' = heard /\ pump' = pump /\ holder' = holder
        /\ lost' = lost /\ blamed' = blamed /\ wire' = wire
    BY DEF pumps
  <1>2. RelayTypes' BY <1>1 DEF WebSocketInv, RelayTypes
  <1>3. Grown /\ Remembered BY <1>1, WireKept, HeardKept DEF WebSocketInv, RelayTypes
  <1>4. JobInv' BY <1>1, JobStays DEF WebSocketInv, JobInv
  <1>5. HoldInv' BY <1>1 DEF WebSocketInv, HoldInv
  <1>6. WireInv'
    <2> SUFFICES ASSUME NEW q \in Peers
                 PROVE  /\ \A i \in 1..Len(wire[q]) :
                             wire[q][i].whole \/ cancelled' \/ q \in lost
                               \/ (i = Len(wire[q]) /\ holder[q] # "none")
                        /\ closing'[q] = "write" => Len(wire[q]) > 0
                        /\ \A p \in Peers : holder[q] = p =>
                             /\ Len(wire[q]) > 0
                             /\ wire[q][Len(wire[q])].kind = pump[p].kind
      BY <1>1 DEF WireInv
    <2> QED BY DEF WebSocketInv, WireInv
  <1>7. OrderInv' BY <1>1, <1>2, <1>3, OrderStays DEF WebSocketInv
  <1>8. SentInv' BY <1>1, <1>3, SentStays DEF WebSocketInv, SentInv
  <1>9. CloseInv'
    <2> SUFFICES ASSUME ~cancelled' PROVE \A q \in Peers : CloseOK(q)' BY DEF CloseInv
    <2>1. \A q \in Peers : CloseOK(q) BY DEF WebSocketInv, CloseInv
    <2> QED BY <1>1, <1>2, <1>3, <2>1, CloseStays DEF WebSocketInv
  <1>10. AskedInv' BY <1>1 DEF WebSocketInv, AskedInv, Closed, Heard
  <1> QED BY <1>2, <1>4, <1>5, <1>6, <1>7, <1>8, <1>9, <1>10

(* Once the relay runs, the client has its answer and its blame is settled. *)
LEMMA RelayBlame ==
  ASSUME WebSocketInv, main \notin Before, ~Refused, ~Refused', UNCHANGED handshake,
         main' \in {"run", "join", "close", "done"}, UNCHANGED <<pump, heard, blamed>>
  PROVE  BlameInv' /\ HandshakeInv'
  <1>1. BlameInv'
    BY DEF WebSocketInv, BlameInv, Heard
  <1>2. answer \notin {101, 200} BY DEF WebSocketInv, HandshakeInv, Before
  <1>3. HandshakeInv'
    BY <1>2 DEF WebSocketInv, HandshakeInv, handshake
  <1> QED BY <1>1, <1>3

LEMMA EndsKeeps ==
  ASSUME WebSocketInv, UNCHANGED handshake, NEW why \in Reasons \ {"none"}, Ends(why),
         why = "ClientClosed" => /\ Heard("client", {"close"})
                                 /\ \A q \in Peers : ~tcp \/ q = "client" => GotClose(q),
         why = "BackendClosed" => /\ tcp \/ Heard("backend", {"close"})
                                  /\ \A q \in Peers : ~tcp => GotClose(q),
         why = "RelayError" => Cause, why # "InternalError"
  PROVE  WebSocketInv'
  <1>1. /\ main = "run" /\ main' = "join" /\ reason' = why /\ cancelled' = TRUE
        /\ wire' = wire /\ shutdown' = shutdown /\ closing' = closing
        /\ UNCHANGED pumps
    BY DEF Ends
  <1>2. /\ tcp' = tcp /\ heard' = heard /\ pump' = pump /\ lost' = lost
        /\ blamed' = blamed
    BY <1>1 DEF pumps
  <1>3. /\ RelayTypes' /\ JobInv' /\ HoldInv' /\ WireInv' /\ OrderInv' /\ SentInv'
        /\ CloseInv' /\ AskedInv'
    BY <1>1, MainQuiet DEF WebSocketInv, RelayTypes
  <1>4. ~Refused /\ ~Refused' /\ main \notin Before /\ main' \notin Before
    BY <1>1 DEF Refused, Before
  <1>5. PhaseInv' BY <1>1, <1>2, <1>4 DEF WebSocketInv, PhaseInv
  <1>6. ReasonInv'
    <2>1. \A q \in Peers : GotClose(q) => GotClose(q)' BY <1>1, <1>2 DEF GotClose
    <2>2. Justified' BY <1>1, <1>2 DEF Justified, Heard, Cause
    <2> QED BY <1>1, <1>2, <2>1, <2>2 DEF ReasonInv
  <1>7. BlameInv' /\ HandshakeInv' BY <1>1, <1>2, <1>4, RelayBlame
  <1> QED BY <1>3, <1>5, <1>6, <1>7 DEF WebSocketInv

(* The reason is what the pump that was seen to end first reports. *)
LEMMA FirstEndsKeeps ==
  ASSUME WebSocketInv, UNCHANGED handshake, NEW p \in Peers, FirstEnds(p)
  PROVE  WebSocketInv'
  <1>1. pump[p].at = "ended" /\ Ends(CloseReason(p)) /\ main = "run"
    BY DEF FirstEnds, Ends
  <1>2. ~cancelled BY <1>1 DEF WebSocketInv, PhaseInv
  <1>3. JobOK(p) /\ CloseOK(p) BY <1>2 DEF WebSocketInv, JobInv, CloseInv
  <1>4. pump[p].then \in {"closed", "error"} BY <1>1, <1>3 DEF JobOK, CloseOK, Endings
  <1>5. CASE pump[p].then = "error"
    <2>1. CloseReason(p) = "RelayError" BY <1>5 DEF CloseReason
    <2>2. Cause BY <1>1, <1>3, <1>5 DEF CloseOK
    <2> QED BY <1>1, <2>1, <2>2, EndsKeeps DEF Reasons
  <1>6. CASE pump[p].then = "closed"
    <2>1. \A q \in Peers : ~tcp \/ (q = "client" /\ p = "client") => GotClose(q)
      BY <1>1, <1>3, <1>6 DEF CloseOK
    <2>2. (tcp /\ p = "backend") \/ Heard(p, {"close"}) BY <1>1, <1>3, <1>6 DEF JobOK
    <2>3. CASE p = "client"
      <3>1. CloseReason(p) = "ClientClosed" BY <1>6, <2>3 DEF CloseReason
      <3> QED BY <1>1, <2>1, <2>2, <2>3, <3>1, EndsKeeps DEF Reasons
    <2>4. CASE p = "backend"
      <3>1. CloseReason(p) = "BackendClosed" BY <1>6, <2>4 DEF CloseReason
      <3> QED BY <1>1, <2>1, <2>2, <2>4, <3>1, EndsKeeps DEF Reasons
    <2> QED BY <2>3, <2>4 DEF Peers
  <1> QED BY <1>4, <1>5, <1>6

LEMMA StopEndsKeeps ==
  ASSUME WebSocketInv, UNCHANGED handshake, Stop PROVE WebSocketInv'
  BY EndsKeeps DEF Stop, Reasons

(* The other pump has ended too; the final closes are done; the shutdown. *)
LEMMA MainMovesKeeps ==
  ASSUME WebSocketInv, UNCHANGED handshake, Joined \/ Done \/ Shutdown
  PROVE  WebSocketInv'
  <1>1. /\ UNCHANGED pumps /\ wire' = wire /\ reason' = reason /\ cancelled' = cancelled
        /\ closing' = closing
    BY DEF Joined, Done, Shutdown
  <1>2. /\ tcp' = tcp /\ heard' = heard /\ pump' = pump /\ lost' = lost
        /\ blamed' = blamed
    BY <1>1 DEF pumps
  <1>3. main' \in Before \cup {"run", "join", "close", "done"} /\ shutdown' \in BOOLEAN
    BY DEF Joined, Done, Shutdown, WebSocketInv, RelayTypes
  <1>4. /\ RelayTypes' /\ JobInv' /\ HoldInv' /\ WireInv' /\ OrderInv' /\ SentInv'
        /\ CloseInv' /\ AskedInv'
    BY <1>1, <1>3, MainQuiet DEF WebSocketInv, RelayTypes
  <1>5. ReasonInv'
    <2>1. Grown /\ Remembered BY <1>1, <1>2, WireKept, HeardKept DEF WebSocketInv, RelayTypes
    <2> QED BY <1>1, <1>2, <1>4, <2>1, ReasonStays DEF WebSocketInv
  <1>6. CASE Joined \/ Done
    <2>1. /\ main \in {"join", "close"} /\ main' \in {"close", "done"}
          /\ \A p \in Peers : pump[p].at = "ended"
      BY <1>6 DEF Joined, Done, WebSocketInv, PhaseInv
    <2>2. reason # "none" BY <2>1 DEF WebSocketInv, PhaseInv
    <2>3. ~Refused /\ ~Refused' /\ main \notin Before /\ main' \notin Before
      BY <1>1, <2>1, <2>2 DEF Refused, Before
    <2>4. PhaseInv'
      BY <1>1, <1>2, <2>1, <2>2, <2>3 DEF WebSocketInv, PhaseInv
    <2>5. BlameInv' /\ HandshakeInv' BY <1>2, <2>1, <2>3, RelayBlame
    <2> QED BY <1>4, <1>5, <2>4, <2>5 DEF WebSocketInv
  <1>7. CASE Shutdown
    <2>1. main' = main BY <1>7 DEF Shutdown
    <2>2. Refused' <=> Refused BY <1>1, <2>1 DEF Refused
    <2>3. PhaseInv' BY <1>1, <1>2, <2>1, <2>2 DEF WebSocketInv, PhaseInv
    <2>4. Verdict' = Verdict
      BY DEF handshake, Verdict, ValidateDownstreamHandshake, FromDownstream, H1Upgrade
    <2>5. BlameInv'
      BY <1>2, <2>2, <2>4 DEF WebSocketInv, BlameInv, Heard, handshake
    <2>6. HandshakeInv'
      BY <1>2, <2>1, <2>2, <2>4 DEF WebSocketInv, HandshakeInv, handshake
    <2> QED BY <1>4, <1>5, <2>3, <2>5, <2>6 DEF WebSocketInv
  <1> QED BY <1>6, <1>7

-----------------------------------------------------------------------------
(* main: the last close frames *)

(* What a step does that only adds to the wire, once the pumps are joined. *)
LEMMA ClosingKeeps ==
  ASSUME WebSocketInv, UNCHANGED handshake, UNCHANGED pumps, NEW to \in Peers,
         UNCHANGED <<shutdown, cancelled, main, reason>>,
         main = "close" \/ (main = "done" /\ ~Refused), Grown,
         wire' \in [Peers -> Seq(Frames)], \A q \in Peers \ {to} : wire'[q] = wire[q],
         closing' \in [Peers -> {"due", "write", "done"}],
         \A q \in Peers : closing'[q] = "write" => Len(wire'[q]) > 0,
         \A i \in 1..Len(wire'[to]) : i \in 1..Len(wire[to]) \/ wire'[to][i].kind = "close"
  PROVE  WebSocketInv'
  <1>1. /\ tcp' = tcp /\ heard' = heard /\ pump' = pump /\ holder' = holder
        /\ lost' = lost /\ blamed' = blamed
        /\ main' = main /\ reason' = reason /\ cancelled' = cancelled
    BY DEF pumps
  <1>2. RelayTypes' BY <1>1 DEF WebSocketInv, RelayTypes
  <1>3. /\ Remembered /\ RelayTypes
    BY <1>1, HeardKept DEF WebSocketInv, RelayTypes
  <1>4. reason # "none" /\ cancelled /\ \A p \in Peers : pump[p].at = "ended"
    BY <1>3 DEF WebSocketInv, PhaseInv, Refused
  <1>5. ~Refused /\ ~Refused' /\ main \notin Before
    BY <1>1, <1>4 DEF Refused, Before
  <1>6. JobInv' BY <1>1, JobStays DEF WebSocketInv, JobInv
  <1>7. HoldInv' BY <1>1 DEF WebSocketInv, HoldInv
  <1>8. PhaseInv'
    BY <1>1, <1>4, <1>5 DEF PhaseInv, Before
  <1>9. WireInv'
    <2>1. \A p, q \in Peers : holder[q] # p BY <1>4 DEF WebSocketInv, HoldInv
    <2> QED BY <1>1, <1>4, <2>1 DEF WireInv
  <1>10. OrderInv'
    <2> SUFFICES ASSUME NEW q \in Peers, NEW i \in 1..Len(wire'[q])
                 PROVE  InPlace(q, i)'
      BY DEF OrderInv
    <2>1. CASE i \in 1..Len(wire[q])
      BY <1>2, <1>3, <2>1, PlaceStays DEF WebSocketInv, OrderInv
    <2>2. CASE i \notin 1..Len(wire[q])
      <3>1. q = to /\ wire'[q][i].kind = "close" BY <2>2
      <3> QED BY <3>1 DEF InPlace
    <2> QED BY <2>1, <2>2
  <1>11. SentInv' BY <1>1, <1>4 DEF SentInv, SentOn
  <1>12. CloseInv' /\ AskedInv' BY <1>1, <1>4 DEF CloseInv, AskedInv
  <1>13. ReasonInv' BY <1>1, <1>2, <1>3, ReasonStays DEF WebSocketInv
  <1>14. BlameInv' /\ HandshakeInv' BY <1>1, <1>5, RelayBlame
  <1> QED
    BY <1>2, <1>6, <1>7, <1>8, <1>9, <1>10, <1>11, <1>12, <1>13, <1>14 DEF WebSocketInv

LEMMA CloseStartsKeeps ==
  ASSUME WebSocketInv, UNCHANGED handshake, NEW q \in Peers, CloseStarts(q)
  PROVE  WebSocketInv'
  <1>1. /\ main = "close" /\ closing' = [closing EXCEPT ![q] = "write"]
        /\ wire' = [wire EXCEPT ![q] = Started(q, "close", 0)]
        /\ UNCHANGED pumps /\ UNCHANGED <<shutdown, cancelled, main, reason>>
    BY DEF CloseStarts
  <1>2. wire \in [Peers -> Seq(Frames)] /\ RelayTypes
        /\ closing \in [Peers -> {"due", "write", "done"}]
    BY DEF WebSocketInv, RelayTypes
  <1>3. /\ wire' \in [Peers -> Seq(Frames)]
        /\ Len(wire[q]) \in Nat /\ Len(wire'[q]) = Len(wire[q]) + 1
        /\ wire'[q][Len(wire[q]) + 1].kind = "close"
        /\ \A r \in Peers \ {q} : wire'[r] = wire[r]
    BY <1>1, <1>2, FrameBegins
  <1>4. Grown BY <1>1, <1>2, BeginningGrows
  <1>5. closing' \in [Peers -> {"due", "write", "done"}] BY <1>1, <1>2
  <1>6. \A r \in Peers : closing'[r] = "write" => Len(wire'[r]) > 0
    <2>1. \A r \in Peers \ {q} : closing'[r] = closing[r] BY <1>1, <1>2
    <2> QED BY <1>3, <2>1 DEF WebSocketInv, WireInv
  <1>7. \A i \in 1..Len(wire'[q]) : i \in 1..Len(wire[q]) \/ wire'[q][i].kind = "close"
    BY <1>3
  <1> QED BY <1>1, <1>3, <1>4, <1>5, <1>6, <1>7, ClosingKeeps

LEMMA CloseEndsKeeps ==
  ASSUME WebSocketInv, UNCHANGED handshake, NEW q \in Peers,
         CloseWritten(q) \/ CloseGivenUp(q)
  PROVE  WebSocketInv'
  <1>1. /\ closing[q] = "write" /\ closing' = [closing EXCEPT ![q] = "done"]
        /\ wire' = [wire EXCEPT ![q] = Finished(q)] \/ wire' = wire
        /\ UNCHANGED pumps /\ UNCHANGED <<shutdown, cancelled, main, reason>>
    BY DEF CloseWritten, CloseGivenUp
  <1>2. /\ wire \in [Peers -> Seq(Frames)] /\ RelayTypes /\ Len(wire[q]) > 0
        /\ closing \in [Peers -> {"due", "write", "done"}]
    BY <1>1 DEF WebSocketInv, RelayTypes, WireInv
  <1>3. main = "close" \/ (main = "done" /\ ~Refused)
    BY <1>1 DEF WebSocketInv, PhaseInv
  <1>4. closing' \in [Peers -> {"due", "write", "done"}] BY <1>1, <1>2
  <1>5. /\ wire' \in [Peers -> Seq(Frames)] /\ \A r \in Peers : Len(wire'[r]) = Len(wire[r])
        /\ \A r \in Peers \ {q} : wire'[r] = wire[r]
    <2>1. CASE wire' = wire BY <1>2, <2>1
    <2>2. CASE wire' = [wire EXCEPT ![q] = Finished(q)]
      <3>1. /\ wire' \in [Peers -> Seq(Frames)] /\ Len(wire'[q]) = Len(wire[q])
            /\ \A r \in Peers \ {q} : wire'[r] = wire[r]
        BY <1>2, <2>2, FrameEnds
      <3> QED BY <3>1
    <2> QED BY <1>1, <2>1, <2>2
  <1>6. Grown BY <1>1, <1>2, EndingGrows, WireKept
  <1>7. \A r \in Peers : closing'[r] = "write" => Len(wire'[r]) > 0
    <2>1. \A r \in Peers : closing'[r] = "write" => closing[r] = "write" BY <1>1, <1>2
    <2> QED BY <1>5, <2>1 DEF WebSocketInv, WireInv
  <1>8. \A i \in 1..Len(wire'[q]) : i \in 1..Len(wire[q]) BY <1>5
  <1> QED BY <1>1, <1>3, <1>4, <1>5, <1>6, <1>7, <1>8, ClosingKeeps

-----------------------------------------------------------------------------
(* The handshake *)

\* The request is as it was asked, and nothing has begun.
LEMMA BeforeRelay ==
  ASSUME WebSocketInv, main \in Before
  PROVE  /\ blamed = 0 /\ reason = "none" /\ ~cancelled
         /\ \A p \in Peers : /\ heard[p] = <<>> /\ wire[p] = <<>>
                             /\ pump[p].at = "none" /\ closing[p] = "due"
  <1>1. /\ reason = "none" /\ ~Refused /\ main \notin {"close", "done"} /\ ~cancelled
        /\ \A p \in Peers : heard[p] = <<>> /\ wire[p] = <<>> /\ pump[p].at = "none"
    BY DEF WebSocketInv, PhaseInv, Refused, Before
  <1>2. blamed # 1
    <2>1. pump["client"].at # "ended" BY <1>1 DEF Peers
    <2> QED BY <1>1, <2>1 DEF WebSocketInv, BlameInv
  <1> QED BY <1>1, <1>2 DEF WebSocketInv, RelayTypes, PhaseInv

LEMMA HandKeeps ==
  ASSUME WebSocketInv, main \in Before, UNCHANGED untouched,
         main' \in {"connect", "upgrade", "launch", "done"}, blamed' \in 0..1,
         BlameInv', HandshakeInv'
  PROVE  WebSocketInv'
  <1>1. /\ tcp' = tcp /\ heard' = heard /\ pump' = pump /\ holder' = holder
        /\ wire' = wire /\ lost' = lost /\ shutdown' = shutdown
        /\ cancelled' = cancelled /\ reason' = reason /\ closing' = closing
    BY DEF untouched
  <1>2. RelayTypes' BY <1>1 DEF WebSocketInv, RelayTypes, Before
  <1>3. Grown /\ Remembered BY <1>1, WireKept, HeardKept DEF WebSocketInv, RelayTypes
  <1>4. JobInv' BY <1>1, JobStays DEF WebSocketInv, JobInv
  <1>5. HoldInv' BY <1>1 DEF WebSocketInv, HoldInv
  <1>6. PhaseInv'
    <2>1. /\ reason = "none" /\ ~cancelled
          /\ \A p \in Peers : /\ heard[p] = <<>> /\ wire[p] = <<>>
                              /\ pump[p].at = "none" /\ closing[p] = "due"
      BY BeforeRelay
    <2>2. main' \in Before \/ Refused' BY <1>1, <2>1 DEF Before, Refused
    <2>3. main' \notin {"join", "close"} /\ ~(main' = "done" /\ ~Refused')
      BY <1>1, <2>1 DEF Refused
    <2>4. reason' = "none" /\ ~cancelled' BY <1>1, <2>1
    <2>5. \A p \in Peers : /\ heard'[p] = <<>> /\ wire'[p] = <<>>
                           /\ pump'[p].at = "none" /\ closing'[p] = "due"
      BY <1>1, <2>1
    <2> QED BY <2>2, <2>3, <2>4, <2>5 DEF PhaseInv
  <1>7. WireInv' BY <1>1 DEF WebSocketInv, WireInv
  <1>8. OrderInv' BY <1>1, <1>2, <1>3, OrderStays DEF WebSocketInv
  <1>9. SentInv' BY <1>1, <1>3, SentStays DEF WebSocketInv, SentInv
  <1>10. CloseInv'
    <2> SUFFICES ASSUME ~cancelled PROVE \A q \in Peers : CloseOK(q)'
      BY <1>1 DEF CloseInv
    <2> QED BY <1>1, <1>2, <1>3, CloseStays DEF WebSocketInv, CloseInv
  <1>11. AskedInv' BY <1>1 DEF WebSocketInv, AskedInv, Closed, Heard
  <1>12. ReasonInv' BY <1>1, <1>2, <1>3, ReasonStays DEF WebSocketInv
  <1> QED
    BY <1>2, <1>4, <1>5, <1>6, <1>7, <1>8, <1>9, <1>10, <1>11, <1>12 DEF WebSocketInv

(* A refusal blames the client for its own errors only. *)
LEMMA RefuseKeeps ==
  ASSUME WebSocketInv, main \in Before,
         NEW error \in {"ShuttingDown", "BackendTimeout", "Backend"}
                         \cup ({Verdict} \ {"ok"}),
         Refuse(error)
  PROVE  WebSocketInv'
  <1>1. /\ main' = "done" /\ answer' = Status(error) /\ request' = request
        /\ selected' = selected /\ UNCHANGED untouched
        /\ blamed' = IF IsClientProtocolViolation(error) THEN blamed + 1 ELSE blamed
    BY DEF Refuse
  <1>2. blamed = 0 BY BeforeRelay
  <1>3. Verdict \in {"ok", "UnsupportedHttpVersion", "Http1UpgradeRequired",
                     "Http2ExtendedConnectRequired", "InvalidHeaders", "InvalidHandshake"}
    BY DEF Verdict, ValidateDownstreamHandshake, FromDownstream, H1Upgrade
  <1>4. /\ blamed' \in 0..1
        /\ blamed' = 1 => Verdict # "ok"
        /\ blamed' = 1 <=> answer' \in {400, 426, 505}
        /\ answer' \in {400, 426, 502, 503, 505}
    <2>1. CASE error \in {"ShuttingDown", "BackendTimeout", "Backend"}
      <3>1. ~IsClientProtocolViolation(error) BY <2>1 DEF IsClientProtocolViolation
      <3>2. answer' \in {502, 503} BY <1>1, <2>1 DEF Status
      <3> QED BY <1>1, <1>2, <3>1, <3>2
    <2>2. CASE error = Verdict /\ Verdict # "ok"
      <3>1. IsClientProtocolViolation(error) BY <1>3, <2>2 DEF IsClientProtocolViolation
      <3>2. answer' \in {400, 426, 505} BY <1>1, <1>3, <2>2 DEF Status
      <3> QED BY <1>1, <1>2, <2>2, <3>1, <3>2
    <2> QED BY <2>1, <2>2
  <1>5. Verdict' = Verdict
    BY <1>1 DEF Verdict, ValidateDownstreamHandshake, FromDownstream, H1Upgrade
  <1>6. Refused' BY <1>1, BeforeRelay DEF untouched, Refused
  <1>7. BlameInv' BY <1>4, <1>5, <1>6 DEF BlameInv
  <1>8. HandshakeInv' BY <1>1, <1>4 DEF WebSocketInv, HandshakeInv
  <1> QED BY <1>1, <1>4, <1>7, <1>8, HandKeeps

(* The handler or the task that is gone has answered nobody. *)
LEMMA GoesKeeps ==
  ASSUME WebSocketInv, main \in Before, UNCHANGED handshake,
         NEW place \in {"connect", "done"}, Goes(place),
         place = "connect" => Verdict = "ok" /\ answer = 0
  PROVE  WebSocketInv'
  <1>1. main' = place /\ blamed' = blamed /\ UNCHANGED untouched BY DEF Goes
  <1>2. blamed = 0 /\ reason = "none" BY BeforeRelay
  <1>3. Verdict' = Verdict /\ answer' = answer
    BY DEF handshake, Verdict, ValidateDownstreamHandshake, FromDownstream, H1Upgrade
  <1>4. Refused' <=> place = "done" BY <1>1, <1>2 DEF untouched, Refused
  <1>5. answer \in {0, 101, 200} BY DEF WebSocketInv, HandshakeInv, Before
  <1>6. BlameInv' BY <1>1, <1>2, <1>3, <1>5 DEF BlameInv
  <1>7. HandshakeInv'
    BY <1>1, <1>2, <1>3, <1>4, <1>5 DEF WebSocketInv, HandshakeInv, handshake
  <1> QED BY <1>1, <1>2, <1>6, <1>7, HandKeeps

(* A subprotocol is confirmed only if it was offered, and only one. *)
LEMMA ConnectedKeeps ==
  ASSUME WebSocketInv, main = "connect", NEW names \in SUBSET Protocols,
         ValidateBackendSubprotocol(names), Connected(names)
  PROVE  WebSocketInv'
  <1>1. /\ answer' = (IF request.version = "http1" THEN 101 ELSE 200)
        /\ selected' = names /\ request' = request
        /\ main' = (IF request.version = "http1" THEN "upgrade" ELSE "launch")
        /\ blamed' = blamed /\ UNCHANGED untouched
    BY DEF Connected, Goes
  <1>2. blamed = 0 /\ reason = "none" /\ main \in Before BY BeforeRelay DEF Before
  <1>3. Verdict' = Verdict /\ Verdict = "ok"
    BY <1>1 DEF Verdict, ValidateDownstreamHandshake, FromDownstream, H1Upgrade,
                WebSocketInv, HandshakeInv
  <1>4. ~Refused' BY <1>1 DEF Refused
  <1>5. names \subseteq request.offered /\ Cardinality(names) <= 1
    <2>1. CASE names = {} BY <2>1, FS_EmptySet
    <2>2. CASE names # {}
      <3>1. PICK name \in request.offered : names = {name}
        BY <2>2 DEF ValidateBackendSubprotocol
      <3> QED BY <3>1, FS_Singleton
    <2> QED BY <2>1, <2>2
  <1>6. BlameInv' BY <1>1, <1>2, <1>4 DEF BlameInv
  <1>7. HandshakeInv'
    BY <1>1, <1>2, <1>3, <1>5 DEF WebSocketInv, HandshakeInv
  <1> QED BY <1>1, <1>2, <1>6, <1>7, HandKeeps

LEMMA StartKeeps ==
  ASSUME WebSocketInv, main \in Before, Start
  PROVE  WebSocketInv'
  <1>1. /\ main' = "run" /\ pump' = [p \in Peers |-> Idle]
        /\ answer' = 0 /\ selected' = {}
        /\ tcp' = tcp /\ heard' = heard /\ holder' = holder /\ wire' = wire
        /\ lost' = lost /\ shutdown' = shutdown /\ cancelled' = cancelled
        /\ reason' = reason /\ closing' = closing /\ blamed' = blamed
    BY DEF Start
  <1>2. /\ blamed = 0 /\ reason = "none" /\ ~cancelled
        /\ \A p \in Peers : /\ heard[p] = <<>> /\ wire[p] = <<>>
                            /\ pump[p].at = "none" /\ closing[p] = "due"
    BY BeforeRelay
  <1>3. Idle \in Jobs /\ Idle.at = "read" BY DEF Idle, Jobs
  <1>4. \A p \in Peers : pump'[p] = Idle /\ pump'[p].at = "read" BY <1>1, <1>3
  <1>5. RelayTypes' BY <1>1, <1>3 DEF WebSocketInv, RelayTypes
  <1>6. JobInv'
    <2>1. \A p \in Peers : JobOK(p) => Len(heard[p]) <= MaxFrames BY DEF JobOK
    <2> QED BY <1>1, <1>4, <2>1 DEF WebSocketInv, JobInv, JobOK, Busy
  <1>7. HoldInv' BY <1>1, <1>2, <1>4 DEF WebSocketInv, HoldInv
  <1>8. ~Refused' /\ main' \notin Before BY <1>1 DEF Refused, Before
  <1>9. PhaseInv' BY <1>1, <1>2, <1>4, <1>8 DEF PhaseInv
  <1>10. WireInv'
    <2>1. \A p, q \in Peers : holder[q] # p BY <1>2 DEF WebSocketInv, HoldInv
    <2> QED BY <1>1, <1>2, <2>1 DEF WireInv
  <1>11. OrderInv' BY <1>1, <1>2 DEF OrderInv
  <1>12. SentInv' BY <1>1, <1>2 DEF SentInv, SentOn
  <1>13. CloseInv' BY <1>4 DEF CloseInv, CloseOK, Busy
  <1>14. AskedInv' BY <1>1 DEF WebSocketInv, AskedInv, Closed, Heard
  <1>15. ReasonInv' BY <1>1, <1>2 DEF ReasonInv, Justified
  <1>16. BlameInv' BY <1>1, <1>2, <1>8 DEF BlameInv
  <1>17. HandshakeInv'
    <2>1. [version |-> "http1", sound |-> TRUE, plain |-> TRUE, keyed |-> TRUE,
           offered |-> {}] \in Requests
      BY DEF Requests
    <2>2. request' \in Requests BY <2>1 DEF Start
    <2> QED BY <1>1, <2>2 DEF HandshakeInv
  <1> QED
    BY <1>5, <1>6, <1>7, <1>9, <1>10, <1>11, <1>12, <1>13, <1>14, <1>15, <1>16, <1>17
    DEF WebSocketInv

-----------------------------------------------------------------------------
(* Every step *)

LEMMA FirstWebSocket == UpgradeInit => WebSocketInv
  <1> SUFFICES ASSUME UpgradeInit PROVE WebSocketInv OBVIOUS
  <1>1. /\ main = "accept" /\ pump = [p \in Peers |-> [Idle EXCEPT !.at = "none"]]
        /\ request \in Requests /\ answer = 0 /\ selected = {}
        /\ tcp \in BOOLEAN /\ heard = [p \in Peers |-> <<>>]
        /\ holder = [p \in Peers |-> "none"] /\ wire = [p \in Peers |-> <<>>] /\ lost = {}
        /\ shutdown = FALSE /\ cancelled = FALSE /\ reason = "none"
        /\ closing = [p \in Peers |-> "due"] /\ blamed = 0
    BY DEF UpgradeInit, Fresh
  <1>2. \A p \in Peers : /\ pump[p] \in Jobs /\ pump[p].at = "none"
                         /\ heard[p] = <<>> /\ wire[p] = <<>> /\ holder[p] = "none"
                         /\ closing[p] = "due"
    BY <1>1 DEF Idle, Jobs
  <1>3. RelayTypes
    <2>1. <<>> \in Seq(Kinds) /\ <<>> \in Seq(Frames) OBVIOUS
    <2>2. pump \in [Peers -> Jobs] BY <1>1, <1>2
    <2>3. heard \in [Peers -> Seq(Kinds)] /\ wire \in [Peers -> Seq(Frames)]
      BY <1>1, <2>1
    <2>4. /\ holder \in [Peers -> Peers \cup {"none"}]
          /\ closing \in [Peers -> {"due", "write", "done"}]
      BY <1>1
    <2>5. main \in Before /\ reason \in Reasons /\ blamed \in 0..1 /\ lost \subseteq Peers
      BY <1>1 DEF Before, Reasons
    <2>6. tcp \in BOOLEAN /\ shutdown \in BOOLEAN /\ cancelled \in BOOLEAN BY <1>1
    <2> QED BY <2>2, <2>3, <2>4, <2>5, <2>6 DEF RelayTypes
  <1>4. JobInv BY <1>2, RelayAssumption DEF JobInv, JobOK, Busy
  <1>5. HoldInv BY <1>2, TwoPeers DEF HoldInv
  <1>6. PhaseInv BY <1>1, <1>2 DEF PhaseInv, Before, Refused
  <1>7. WireInv BY <1>2, TwoPeers DEF WireInv
  <1>8. OrderInv /\ SentInv BY <1>2 DEF OrderInv, SentInv, SentOn
  <1>9. CloseInv BY <1>2 DEF CloseInv, CloseOK, Busy
  <1>10. AskedInv BY <1>2 DEF AskedInv, Closed
  <1>11. ReasonInv BY <1>1 DEF ReasonInv, Justified
  <1>12. BlameInv BY <1>1 DEF BlameInv, Refused
  <1>13. HandshakeInv BY <1>1 DEF HandshakeInv
  <1> QED
    BY <1>3, <1>4, <1>5, <1>6, <1>7, <1>8, <1>9, <1>10, <1>11, <1>12, <1>13
    DEF WebSocketInv

LEMMA WebSocketStep == WebSocketInv /\ [UpgradeNext]_upgradeVars => WebSocketInv'
  <1> SUFFICES ASSUME WebSocketInv, [UpgradeNext]_upgradeVars PROVE WebSocketInv' OBVIOUS
  <1>1. ASSUME Accept PROVE WebSocketInv'
    <2>1. main = "accept" /\ main \in Before BY <1>1 DEF Accept, Before
    <2>2. answer = 0 BY <2>1 DEF WebSocketInv, HandshakeInv
    <2> QED BY <1>1, <2>1, <2>2, RefuseKeeps, GoesKeeps DEF Accept
  <1>2. ASSUME ConnectStopped \/ ConnectTimesOut \/ ConnectFails PROVE WebSocketInv'
    BY <1>2, RefuseKeeps DEF ConnectStopped, ConnectTimesOut, ConnectFails, Before
  <1>3. ASSUME ConnectWebSocket \/ ConnectTcp PROVE WebSocketInv'
    <2>1. main = "connect" /\ main \in Before
      BY <1>3 DEF ConnectWebSocket, ConnectTcp, Before
    <2>2. PICK names \in SUBSET Protocols :
            \/ ValidateBackendSubprotocol(names) /\ Connected(names)
            \/ Refuse("Backend")
      BY <1>3 DEF ConnectWebSocket, ConnectTcp, ValidateBackendSubprotocol
    <2> QED BY <2>1, <2>2, RefuseKeeps, ConnectedKeeps
  <1>4. ASSUME HandlerDropped \/ DownstreamFails \/ DownstreamTimesOut PROVE WebSocketInv'
    BY <1>4, GoesKeeps DEF HandlerDropped, DownstreamFails, DownstreamTimesOut, Before
  <1>5. ASSUME EstablishedRelay \/ DownstreamUpgraded PROVE WebSocketInv'
    BY <1>5, StartKeeps DEF EstablishedRelay, DownstreamUpgraded, Before
  <1>6. ASSUME UNCHANGED handshake, NEW p \in Peers,
               Pump(p) \/ FirstEnds(p) \/ CloseStarts(p) \/ CloseWritten(p) \/ CloseGivenUp(p)
        PROVE  WebSocketInv'
    BY <1>6, HearingKeeps, NonsenseKeeps, StoppingKeeps, LockKeeps, WrittenKeeps,
       FirstEndsKeeps, CloseStartsKeeps, CloseEndsKeeps
    DEF Pump
  <1>7. ASSUME UNCHANGED handshake, Stop \/ Joined \/ Done \/ Shutdown PROVE WebSocketInv'
    BY <1>7, StopEndsKeeps, MainMovesKeeps
  <1>8. ASSUME UNCHANGED upgradeVars PROVE WebSocketInv'
    <2>1. /\ UNCHANGED pumps /\ UNCHANGED wire /\ UNCHANGED handshake
          /\ UNCHANGED <<shutdown, cancelled, main, reason, closing>>
      BY <1>8 DEF upgradeVars, vars, pumps
    <2>2. RelayTypes BY DEF WebSocketInv
    <2>3. /\ RelayTypes' /\ JobInv' /\ HoldInv' /\ WireInv' /\ OrderInv' /\ SentInv'
          /\ CloseInv' /\ AskedInv'
      BY <2>1, <2>2, MainQuiet DEF RelayTypes
    <2>4. Refused' <=> Refused BY <2>1 DEF Refused
    <2>5. Verdict' = Verdict
      BY <2>1 DEF handshake, Verdict, ValidateDownstreamHandshake, FromDownstream, H1Upgrade
    <2>6. PhaseInv' BY <2>1, <2>4 DEF pumps, WebSocketInv, PhaseInv
    <2>7. ReasonInv'
      BY <2>1 DEF pumps, WebSocketInv, ReasonInv, GotClose, Justified, Heard
    <2>8. BlameInv'
      BY <2>1, <2>4, <2>5 DEF pumps, handshake, WebSocketInv, BlameInv, Heard
    <2>9. HandshakeInv'
      BY <2>1, <2>4, <2>5 DEF pumps, handshake, WebSocketInv, HandshakeInv
    <2> QED BY <2>3, <2>6, <2>7, <2>8, <2>9 DEF WebSocketInv
  <1> QED BY <1>1, <1>2, <1>3, <1>4, <1>5, <1>6, <1>7, <1>8 DEF UpgradeNext, Next

(* Whatever the peers send, in whatever order the pumps, their cancellation *)
(* and the shutdown fall, the relay keeps what WebSocketInv says.           *)
THEOREM WebSocketInductive == UpgradeSpec => []WebSocketInv
  BY FirstWebSocket, WebSocketStep, PTL DEF UpgradeSpec

(* A writer is held exactly by the pump that is in a frame on it, and no    *)
(* frame is read or written before the client was told of the upgrade.      *)
THEOREM WebSocketTyped == UpgradeSpec => []UpgradeTypeOK
  <1>1. WebSocketInv => UpgradeTypeOK
    <2> SUFFICES ASSUME WebSocketInv PROVE UpgradeTypeOK OBVIOUS
    <2>1. \A q \in Peers : Writing(q) = {holder[q]} \ {"none"}
      <3>1. \A q \in Peers : holder[q] \in Peers \cup {"none"}
        BY DEF WebSocketInv, RelayTypes
      <3>2. \A p, q \in Peers : holder[q] = p <=> pump[p].at = "write" /\ pump[p].to = q
        BY DEF WebSocketInv, HoldInv
      <3>3. "none" \notin Peers BY DEF Peers
      <3> QED BY <3>1, <3>2, <3>3 DEF Writing
    <2>2. Shape
      BY <2>1 DEF Shape, WebSocketInv, RelayTypes, JobInv, JobOK
    <2> QED BY <2>2 DEF UpgradeTypeOK, WebSocketInv, RelayTypes, PhaseInv, HandshakeInv
  <1> QED BY <1>1, WebSocketInductive, PTL

(* While the relay runs and nothing failed no frame begins inside another,  *)
(* and a message follows every earlier one of its sender, and no close.     *)
THEOREM FramesInOrder == UpgradeSpec => []InOrder
  <1>1. WebSocketInv => InOrder
    <2> SUFFICES ASSUME WebSocketInv, NEW q \in Peers, NEW i \in DOMAIN wire[q]
                 PROVE  /\ \A j \in 1..(i - 1) : wire[q][j].whole \/ cancelled \/ q \in lost
                        /\ wire[q][i].kind = "data" =>
                             /\ \A j \in 1..(i - 1) : wire[q][j].kind # "close"
                             /\ \A m \in 1..(wire[q][i].n - 1) : heard[Other(q)][m] = "data" =>
                                  \E j \in 1..(i - 1) : wire[q][j].kind = "data" /\ wire[q][j].n = m
      BY Zenon DEF InOrder
    <2>1. wire[q] \in Seq(Frames) BY DEF WebSocketInv, RelayTypes
    <2>2. i \in 1..Len(wire[q]) /\ Len(wire[q]) \in Nat BY <2>1
    <2>3. \A j \in 1..(i - 1) : wire[q][j].whole \/ cancelled \/ q \in lost
      BY <2>2 DEF WebSocketInv, WireInv
    <2>4. InPlace(q, i) BY <2>2 DEF WebSocketInv, OrderInv
    <2> QED BY <2>3, <2>4, Zenon DEF InPlace, Carries
  <1> QED BY <1>1, WebSocketInductive, PTL

(* A relay that ends as closed by a peer has told each peer that it does    *)
(* not tell with a close frame of its own, in one whole frame.              *)
THEOREM ClosesTold == UpgradeSpec => []CloseTold
  <1>1. WebSocketInv => CloseTold
    <2> SUFFICES ASSUME WebSocketInv, reason \in {"ClientClosed", "BackendClosed"},
                        NEW q \in Peers, ~tcp \/ (q = "client" /\ reason = "ClientClosed")
                 PROVE  \E i \in DOMAIN wire[q] :
                          /\ wire[q][i].kind = "close" /\ wire[q][i].whole
                          /\ q \in lost \/ \A j \in 1..(i - 1) : wire[q][j].whole
      BY DEF CloseTold
    <2>1. GotClose(q) BY DEF WebSocketInv, ReasonInv
    <2>2. wire[q] \in Seq(Frames) BY DEF WebSocketInv, RelayTypes
    <2>3. DOMAIN wire[q] = 1..Len(wire[q]) BY <2>2
    <2> QED BY <2>1, <2>3 DEF GotClose
  <1> QED BY <1>1, WebSocketInductive, PTL

(* What the gateway reports of a relay, answers to a request and records    *)
(* against the client has its cause in the client or in the backend.        *)
THEOREM EveryoneAccountable == UpgradeSpec => []Accountable
  <1>1. WebSocketInv => Accountable
    BY DEF WebSocketInv, ReasonInv, BlameInv, HandshakeInv, Accountable
  <1> QED BY <1>1, WebSocketInductive, PTL
=============================================================================
