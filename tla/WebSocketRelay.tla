--------------------------- MODULE WebSocketRelay --------------------------
(***************************************************************************)
(* src/src/gateway/relay.rs: the relay between a WebSocket client and a    *)
(* backend, another WebSocket (run) or a TCP stream (run_tcp_backend).     *)
(* Two pumps, each reading from one peer, share the two writers: a pump    *)
(* answers pings and closes on the writer of its own peer, through the     *)
(* SDK's callback, and forwards to the other one.  The first pump to end,  *)
(* or the shutdown of the gateway, ends the relay; a cancelled pump drops  *)
(* whatever it was writing, in the middle of a frame too.                  *)
(***************************************************************************)
EXTENDS Naturals, Sequences, FiniteSets

CONSTANT MaxFrames   \* a peer sends

ASSUME RelayAssumption == MaxFrames \in Nat \ {0}

Peers == {"client", "backend"}
Other(p) == IF p = "client" THEN "backend" ELSE "client"

VARIABLES
  tcp,        \* the backend is a TCP stream
  heard,      \* history: the frames each peer's pump has read
  pump,       \* what the pump that reads from each peer does
  holder,     \* of the lock of the writer to each peer: a pump, or "none"
  wire,       \* what was written to each peer; [kind, n, whole]
  lost,       \* history: peers from or to whom a read or a write failed
  shutdown,   \* the token of the gateway
  cancelled,  \* relay_cancellation
  main,       \* "run", "join", "close", "done"
  reason,     \* CloseReason, or "none"
  closing,    \* the final close frame on each writer: "due", "write", "done"
  blamed      \* violations of the client that were recorded

vars == <<tcp, heard, pump, holder, wire, lost, shutdown, cancelled,
          main, reason, closing, blamed>>
outside == <<tcp, shutdown, cancelled, main, reason, closing>>

-----------------------------------------------------------------------------
(* The writers *)

Closed(q) == \E i \in DOMAIN wire[q] : wire[q][i].kind = "close"

Started(q, kind, n) == Append(wire[q], [kind |-> kind, n |-> n, whole |-> FALSE])
Finished(q) == [wire[q] EXCEPT ![Len(wire[q])].whole = TRUE]

(* at: "read", "lock", "write", "shut" or "ended" (then is the report);    *)
(* then, of a write: "read" or a frame to forward or a report.             *)
Idle == [at |-> "read", to |-> "none", kind |-> "none", n |-> 0, then |-> "none"]
Ended(report) == [Idle EXCEPT !.at = "ended", !.then = report]
Send(to, kind, n, then) == [at |-> "lock", to |-> to, kind |-> kind, n |-> n, then |-> then]

Becomes(p, state) == pump' = [pump EXCEPT ![p] = state]
(* Mutant: a pump that is dropped in a write keeps the lock. *)
ReleasedNot(p) == holder
Released(p) == [q \in Peers |-> IF holder[q] = p THEN "none" ELSE holder[q]]

Fresh ==
  /\ tcp \in BOOLEAN /\ heard = [p \in Peers |-> <<>>]
  /\ holder = [p \in Peers |-> "none"] /\ wire = [p \in Peers |-> <<>>] /\ lost = {}
  /\ shutdown = FALSE /\ cancelled = FALSE /\ reason = "none"
  /\ closing = [p \in Peers |-> "due"] /\ blamed = 0

Init == Fresh /\ main = "run" /\ pump = [p \in Peers |-> Idle]

-----------------------------------------------------------------------------
(* Reading.  A pong changes nothing; the fragments of a message are one frame. *)

Speaks(p) == p = "client" \/ ~tcp   \* frames, not bytes

Hears(p, kind) == /\ pump[p].at = "read" /\ Len(heard[p]) < MaxFrames
                  /\ heard' = [heard EXCEPT ![p] = Append(@, kind)]
                  /\ UNCHANGED <<holder, wire, lost>> /\ UNCHANGED outside

HearData(p) == /\ Hears(p, "data") /\ UNCHANGED blamed
               /\ Becomes(p, Send(Other(p), "data", Len(heard[p]) + 1, "read"))

HearPing(p) == /\ Speaks(p) /\ Hears(p, "ping") /\ UNCHANGED blamed
               /\ Becomes(p, Send(p, "pong", 0, "read"))

(* The SDK echoes a close before it returns it. *)
HearClose(p) == /\ Speaks(p) /\ Hears(p, "close") /\ UNCHANGED blamed
                /\ Becomes(p, Send(p, "close", 0, IF tcp THEN "shut" ELSE "forward"))

(* A frame that breaks the protocol, or a message that is too large. *)
HearNonsense(p) == /\ Speaks(p) /\ Hears(p, "nonsense")
                   /\ blamed' = IF p = "client" THEN blamed + 1 ELSE blamed
                   /\ Becomes(p, Ended("error"))

(* The SDK answers a close of a bad code before it reports the violation. *)
HearBadClose(p) == /\ Speaks(p) /\ Hears(p, "badclose") /\ UNCHANGED blamed
                   /\ Becomes(p, Send(p, "close", 0, "violation"))

(* The end of a WebSocket without a close frame is an error too. *)
ReadFails(p) == /\ pump[p].at = "read" /\ Becomes(p, Ended("error"))
                /\ lost' = lost \cup {p}
                /\ UNCHANGED <<heard, holder, wire, blamed>> /\ UNCHANGED outside

ReadEnds(p) == /\ pump[p].at = "read" /\ ~Speaks(p) /\ Becomes(p, Ended("closed"))
               /\ UNCHANGED <<heard, holder, wire, lost, blamed>> /\ UNCHANGED outside

-----------------------------------------------------------------------------
(* Writing: write_frame_and_flush *)

(* Mutant: try_lock, and the frame is dropped when it fails. *)
LockOrSkip(p) ==
  LET job == pump[p]
  IN /\ job.at = "lock" /\ ~(Closed(job.to) /\ job.kind # "close")
     /\ UNCHANGED <<heard, lost, blamed>> /\ UNCHANGED outside
     /\ IF holder[job.to] = "none"
        THEN /\ wire' = [wire EXCEPT ![job.to] = Started(job.to, job.kind, job.n)]
             /\ holder' = [holder EXCEPT ![job.to] = p]
             /\ Becomes(p, [job EXCEPT !.at = "write"])
        ELSE Becomes(p, Idle) /\ UNCHANGED <<wire, holder>>

Lock(p) ==
  LET job == pump[p]
  IN /\ job.at = "lock" /\ holder[job.to] = "none"
     /\ ~(Closed(job.to) /\ job.kind # "close")
     /\ wire' = [wire EXCEPT ![job.to] = Started(job.to, job.kind, job.n)]
     /\ holder' = [holder EXCEPT ![job.to] = p]
     /\ Becomes(p, [job EXCEPT !.at = "write"])
     /\ UNCHANGED <<heard, lost, blamed>> /\ UNCHANGED outside

(* After a close the SDK writes nothing but closes. *)
WriterClosed(p) ==
  LET job == pump[p]
  IN /\ job.at = "lock" /\ holder[job.to] = "none"
     /\ Closed(job.to) /\ job.kind # "close" /\ Becomes(p, Ended("error"))
     /\ UNCHANGED <<heard, holder, wire, lost, blamed>> /\ UNCHANGED outside

After(p) ==
  CASE pump[p].then = "read" -> Idle
    [] pump[p].then = "forward" -> Send(Other(p), "close", 0, "closed")
    [] pump[p].then = "shut" -> [Idle EXCEPT !.at = "shut"]
    [] pump[p].then = "closed" -> Ended("closed")
    [] pump[p].then = "violation" -> Ended("error")

Written(p) ==
  /\ pump[p].at = "write"
  /\ wire' = [wire EXCEPT ![pump[p].to] = Finished(pump[p].to)]
  /\ holder' = Released(p) /\ Becomes(p, After(p))
  /\ blamed' = IF pump[p].then = "violation" /\ p = "client" THEN blamed + 1 ELSE blamed
  /\ UNCHANGED <<heard, lost>> /\ UNCHANGED outside

(* Mutant: how the forwarding of a close ended is not looked at. *)
WriteFailsUnseen(p) ==
  /\ pump[p].at = "write" /\ lost' = lost \cup {pump[p].to}
  /\ holder' = Released(p)
  /\ Becomes(p, Ended(IF pump[p].then = "closed" THEN "closed" ELSE "error"))
  /\ UNCHANGED <<heard, wire, blamed>> /\ UNCHANGED outside

WriteFails(p) ==
  /\ pump[p].at = "write" /\ lost' = lost \cup {pump[p].to}
  /\ holder' = Released(p) /\ Becomes(p, Ended("error"))
  /\ UNCHANGED <<heard, wire, blamed>> /\ UNCHANGED outside

(* backend_write.shutdown(), for a second at most *)
ShutEnds(p) ==
  /\ pump[p].at = "shut" /\ Becomes(p, Ended("closed"))
  /\ UNCHANGED <<heard, holder, wire, lost, blamed>> /\ UNCHANGED outside

(* What a cancelled pump reports: forward_frame makes it an error, reading *)
(* and the bytes of a TCP stream do not, the SDK's callback may.           *)
Reports(p) ==
  CASE pump[p].at = "read" -> {"cancelled"}
    [] pump[p].to = p -> {"cancelled", "error"}
    [] OTHER -> IF tcp /\ p = "client" THEN {"cancelled"} ELSE {"error"}

(* Mutant: cancellation waits for the frame that is being written. *)
CancelBetweenFrames(p) ==
  /\ cancelled /\ pump[p].at \in {"read", "lock"}
  /\ \E report \in Reports(p) : Becomes(p, Ended(report))
  /\ UNCHANGED <<heard, holder, wire, lost, blamed>> /\ UNCHANGED outside

Cancel(p) ==
  /\ cancelled /\ pump[p].at \in {"read", "lock", "write"}
  /\ \E report \in Reports(p) : Becomes(p, Ended(report))
  /\ holder' = Released(p)
  /\ UNCHANGED <<heard, wire, lost, blamed>> /\ UNCHANGED outside

Pump(p) == \/ HearData(p) \/ HearPing(p) \/ HearClose(p) \/ HearNonsense(p)
           \/ HearBadClose(p) \/ ReadEnds(p) \/ ReadFails(p)
           \/ Lock(p) \/ WriterClosed(p) \/ Written(p) \/ WriteFails(p)
           \/ ShutEnds(p) \/ Cancel(p)

-----------------------------------------------------------------------------
(* run, run_tcp_backend *)

pumps == <<tcp, heard, pump, holder, lost, blamed>>

CloseReason(p) ==
  CASE pump[p].then = "closed" -> IF p = "client" THEN "ClientClosed" ELSE "BackendClosed"
    [] pump[p].then = "error" -> "RelayError"
    [] pump[p].then = "cancelled" -> "InternalError"

Ends(why) == /\ main = "run" /\ main' = "join" /\ reason' = why /\ cancelled' = TRUE
             /\ UNCHANGED <<wire, shutdown, closing>> /\ UNCHANGED pumps

Stop == shutdown /\ Ends("GatewayShutdown")

FirstEnds(p) == pump[p].at = "ended" /\ Ends(CloseReason(p))

Told == reason \in {"GatewayShutdown", "RelayError", "InternalError"}
Closers == IF tcp THEN {"client"} ELSE IF Told THEN Peers ELSE {}

Joined == /\ main = "join" /\ \A p \in Peers : pump[p].at = "ended"
          /\ main' = "close"
          /\ UNCHANGED <<wire, shutdown, cancelled, reason, closing>> /\ UNCHANGED pumps

(* best_effort_close: no pump is left to hold the lock *)
CloseStarts(q) ==
  /\ main = "close" /\ q \in Closers /\ closing[q] = "due" /\ holder[q] = "none"
  /\ closing' = [closing EXCEPT ![q] = "write"]
  /\ wire' = [wire EXCEPT ![q] = Started(q, "close", 0)]
  /\ UNCHANGED <<shutdown, cancelled, main, reason>> /\ UNCHANGED pumps

CloseWritten(q) ==
  /\ closing[q] = "write" /\ closing' = [closing EXCEPT ![q] = "done"]
  /\ wire' = [wire EXCEPT ![q] = Finished(q)]
  /\ UNCHANGED <<shutdown, cancelled, main, reason>> /\ UNCHANGED pumps

(* Its write fails, or its second passes. *)
CloseGivenUp(q) ==
  /\ main = "close" /\ q \in Closers /\ closing[q] = "write"
  /\ closing' = [closing EXCEPT ![q] = "done"]
  /\ UNCHANGED <<wire, shutdown, cancelled, main, reason>> /\ UNCHANGED pumps

Done == /\ main = "close" /\ main' = "done"
        /\ \A q \in Closers : closing[q] = "done"
        /\ UNCHANGED <<wire, shutdown, cancelled, reason, closing>> /\ UNCHANGED pumps

Shutdown == /\ ~shutdown /\ main # "done" /\ shutdown' = TRUE
            /\ UNCHANGED <<wire, cancelled, main, reason, closing>> /\ UNCHANGED pumps

Next == \/ \E p \in Peers : \/ Pump(p) \/ FirstEnds(p)
                            \/ CloseStarts(p) \/ CloseWritten(p) \/ CloseGivenUp(p)
        \/ Stop \/ Joined \/ Done \/ Shutdown

(* select! sees a cancelled token, timers fire, main is polled; nothing is *)
(* expected of the peers or of a write.                                    *)
Fairness ==
  /\ WF_vars(Stop) /\ WF_vars(Joined) /\ WF_vars(Done)
  /\ \A p \in Peers : /\ WF_vars(FirstEnds(p)) /\ WF_vars(Cancel(p)) /\ WF_vars(ShutEnds(p))
                      /\ WF_vars(CloseStarts(p)) /\ WF_vars(CloseGivenUp(p))

Spec == Init /\ [][Next]_vars /\ Fairness

-----------------------------------------------------------------------------
(* Properties *)

Writing(q) == {p \in Peers : pump[p].at = "write" /\ pump[p].to = q}

(* Shape: among the types, that a writer is held exactly by the pump that  *)
(* is in the middle of a frame on it, and that one at most is.             *)
Shape ==
  /\ tcp \in BOOLEAN /\ shutdown \in BOOLEAN /\ cancelled \in BOOLEAN
  /\ lost \subseteq Peers /\ blamed \in 0..1
  /\ \A q \in Peers : /\ Writing(q) = {holder[q]} \ {"none"}
                       /\ closing[q] \in {"due", "write", "done"}
                       /\ Len(heard[q]) <= MaxFrames

(* Two pumps share a writer, but no frame begins inside another one while  *)
(* the relay runs and nothing failed; a message is preceded by every       *)
(* message its sender sent before it, and never by a close.                *)
InOrder ==
  \A q \in Peers : \A i \in DOMAIN wire[q] :
    /\ \A j \in 1..(i - 1) : wire[q][j].whole \/ cancelled \/ q \in lost
    /\ wire[q][i].kind = "data" =>
         /\ \A j \in 1..(i - 1) : wire[q][j].kind # "close"
         /\ \A m \in 1..(wire[q][i].n - 1) : heard[Other(q)][m] = "data" =>
              \E j \in 1..(i - 1) : wire[q][j].kind = "data" /\ wire[q][j].n = m

(* A relay that ends as closed by a peer, without a close frame of its own *)
(* to two WebSockets, has told both: each got a whole close, after whole   *)
(* frames only unless a read or a write of it failed.                      *)
CloseTold ==
  main = "done" /\ reason \in {"ClientClosed", "BackendClosed"} =>
    \A q \in Peers : (~tcp \/ (q = "client" /\ reason = "ClientClosed")) =>
      \E i \in DOMAIN wire[q] :
        /\ wire[q][i].kind = "close" /\ wire[q][i].whole
        /\ q \in lost \/ \A j \in 1..(i - 1) : wire[q][j].whole

Heard(p, kinds) == \E i \in DOMAIN heard[p] : heard[p][i] \in kinds

(* What the relay reports has its cause in a peer: the gateway's own       *)
(* cancellation of the pumps is not an error.  (A close can end as an      *)
(* error: the other pump may find the writer closed by the echo before the *)
(* close is forwarded.)                                                    *)
Justified ==
  /\ reason # "InternalError"
  /\ reason = "RelayError" =>
       lost # {} \/ \E p \in Peers : Heard(p, {"close", "badclose", "nonsense"})
  /\ reason = "ClientClosed" => Heard("client", {"close"})
  /\ reason = "BackendClosed" => tcp \/ Heard("backend", {"close"})

(* A relay whose gateway shuts down or one of whose pumps has ended, ends, *)
(* whatever the peers do: the drain of the gateway waits for it.           *)
RelayEnds == (shutdown \/ \E p \in Peers : pump[p].at = "ended") ~> main = "done"
=============================================================================
