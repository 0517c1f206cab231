-------------------------- MODULE MessageSequence ---------------------------
(***************************************************************************)
(* src/src/gateway/websocket_message.rs: the order and size of fragments,  *)
(* UTF-8 across their boundaries (MessageSequence), and the messages made  *)
(* of them (BoundedMessages).  Frames come from the reader of the SDK.     *)
(*                                                                         *)
(* Bytes are reduced to eight classes: ASCII, leads of two, three and four *)
(* bytes, a lead whose second byte must be high (after E0; the limits of   *)
(* the second byte after ED, F0 and F4 are left out), low and high         *)
(* continuations, and bytes that never occur.                              *)
(*                                                                         *)
(* BoundedMessages has an opcode and a buffer of its own beside those of   *)
(* the sequence, set and cleared with them; its refusals, should they ever *)
(* differ, are left out.                                                   *)
(***************************************************************************)
EXTENDS Naturals, Sequences

CONSTANTS
  Maximum,      \* max_message_size
  MaxControl,   \* 125
  Payloads      \* what frames may carry

Bytes == {"ascii", "lead2", "lead3", "lead3high", "lead4", "low", "high", "never"}

MessageAssumption ==    \* of the constants, assumed where they get values
  /\ Maximum \in Nat \ {0} /\ MaxControl \in Nat /\ Payloads \subseteq Seq(Bytes)

VARIABLES
  opcode,     \* of the message that is open, or "none"
  bytes,      \* its length so far
  utf8_tail,  \* the incomplete character at its end
  fragments,  \* its collected payload
  verdict,    \* "ok", or the error that ended the reading
  out,        \* the message the last frame completed, or NoMessage
  said        \* history: kind, payload and end of the last data frame's message

vars == <<opcode, bytes, utf8_tail, fragments, verdict, out, said>>

-----------------------------------------------------------------------------
(* UTF-8, by what the characters are *)

Continuations == {"low", "high"}

Characters ==
  {<<"ascii">>}
  \cup {<<"lead2", c>> : c \in Continuations}
  \cup {<<"lead3", c, d>> : c, d \in Continuations}
  \cup {<<"lead3high", "high", d>> : d \in Continuations}
  \cup {<<"lead4", c, d, e>> : c, d, e \in Continuations}

Beginnings == UNION {{SubSeq(c, 1, n) : n \in 1..(Len(c) - 1)} : c \in Characters}

From(s, i) == SubSeq(s, i, Len(s))
Least(i, j) == IF i <= j THEN i ELSE j

Text[s \in Seq(Bytes)] ==   \* a sequence of whole characters
  \/ s = <<>>
  \/ \E n \in 1..Least(4, Len(s)) : SubSeq(s, 1, n) \in Characters /\ Text[From(s, n + 1)]

(* std::str::from_utf8: an error without error_len *)
Cut(s, i) == Text[SubSeq(s, 1, i - 1)] /\ From(s, i) \in Beginnings
Incomplete(s) == \E i \in 1..Len(s) : Cut(s, i)
Suffix(s) == From(s, CHOOSE i \in 1..Len(s) : Cut(s, i))

-----------------------------------------------------------------------------
(* validate_utf8 *)

Width(lead) == CASE lead = "lead2" -> 2
                 [] lead \in {"lead3", "lead3high"} -> 3
                 [] OTHER -> 4

(* Mutant: only the tail is looked at when a character was cut. *)
RemainderUnlessCut(tail, data) ==
  IF tail = <<>> THEN data ELSE <<>>

Taken(tail, data) ==
  IF tail = <<>> THEN 0 ELSE Least(Width(tail[1]) - Len(tail), Len(data))
Completed(tail, data) == tail \o SubSeq(data, 1, Taken(tail, data))
Remainder(tail, data) == From(data, Taken(tail, data) + 1)

NotText == <<"never">>   \* no tail: its byte begins nothing

(* The new tail, or NotText. *)
Checked(s, fin) == IF Text[s] THEN <<>>
                   ELSE IF Incomplete(s) /\ ~fin THEN Suffix(s)
                   ELSE NotText

Utf8(tail, data, fin) ==
  IF tail # <<>> /\ ~Text[Completed(tail, data)]
  THEN Checked(Completed(tail, data), fin)
  ELSE Checked(Remainder(tail, data), fin)

-----------------------------------------------------------------------------
(* validate and collect *)

NoMessage == [opcode |-> "none", payload |-> <<>>]
ControlFrame == [opcode |-> "Control", payload |-> <<>>]   \* passed on as it came

Init == /\ opcode = "none" /\ bytes = 0 /\ utf8_tail = <<>> /\ fragments = <<>>
        /\ verdict = "ok" /\ out = NoMessage
        /\ said = [kind |-> "none", payload |-> <<>>, fin |-> TRUE]

(* The reading stops: nothing looks at the state again. *)
Refuse(error) == /\ verdict' = error /\ out' = NoMessage
                 /\ UNCHANGED <<opcode, bytes, utf8_tail, fragments>>

Control(payload) ==
  /\ verdict = "ok" /\ UNCHANGED said
  /\ \/ /\ Len(payload) <= MaxControl
        /\ out' = ControlFrame
        /\ UNCHANGED <<opcode, bytes, utf8_tail, fragments, verdict>>
     \/ Len(payload) > MaxControl /\ Refuse("FrameTooLarge")

(* Mutant: the buffer is taken before the last fragment is appended. *)
CollectedEarly(kind, payload, fin) ==
  IF fin THEN /\ fragments' = <<>>
              /\ out' = [opcode |-> kind, payload |-> IF opcode = "none" THEN payload ELSE fragments]
         ELSE fragments' = fragments \o payload /\ out' = NoMessage

Collected(kind, payload, fin) ==
  IF fin THEN fragments' = <<>> /\ out' = [opcode |-> kind, payload |-> fragments \o payload]
         ELSE fragments' = fragments \o payload /\ out' = NoMessage

(* A data frame in its place: the message had length bytes and this tail. *)
Accept(kind, length, tail, payload, fin) ==
  LET newTail == IF kind = "Text" THEN Utf8(tail, payload, fin) ELSE tail
  IN \/ length + Len(payload) > Maximum /\ Refuse("FrameTooLarge")
     \/ length + Len(payload) <= Maximum /\ newTail = NotText /\ Refuse("InvalidUTF8")
     \/ /\ length + Len(payload) <= Maximum /\ newTail # NotText
        /\ utf8_tail' = newTail /\ UNCHANGED verdict
        /\ opcode' = IF fin THEN "none" ELSE kind
        /\ bytes' = IF fin THEN 0 ELSE length + Len(payload)
        /\ Collected(kind, payload, fin)

Said(kind, payload, fin) == said' = [kind |-> kind, payload |-> payload, fin |-> fin]

Begin(kind, payload, fin) ==
  /\ verdict = "ok"
  /\ \/ opcode # "none" /\ Refuse("InvalidFragment") /\ UNCHANGED said
     \/ opcode = "none" /\ Said(kind, payload, fin) /\ Accept(kind, 0, <<>>, payload, fin)

Continue(payload, fin) ==
  /\ verdict = "ok"
  /\ \/ opcode = "none" /\ Refuse("InvalidContinuationFrame") /\ UNCHANGED said
     \/ /\ opcode # "none" /\ Said(opcode, said.payload \o payload, fin)
        /\ Accept(opcode, bytes, utf8_tail, payload, fin)

Next == \E payload \in Payloads :
          \/ Control(payload)
          \/ \E fin \in BOOLEAN : \/ Continue(payload, fin)
                                  \/ \E kind \in {"Text", "Binary"} : Begin(kind, payload, fin)

Spec == Init /\ [][Next]_vars

-----------------------------------------------------------------------------
(* Properties *)

(* TypeOK: validate and collect agree on whether a message is open and how *)
(* long it is, though each keeps its own account; the tail stays a cut     *)
(* character of at most three bytes.                                       *)
TypeOK ==
  /\ opcode \in {"none", "Text", "Binary"}
  /\ verdict \in {"ok", "FrameTooLarge", "InvalidUTF8",
                 "InvalidFragment", "InvalidContinuationFrame"}
  /\ bytes = Len(fragments) /\ bytes <= Maximum
  /\ opcode = "none" => bytes = 0
  /\ utf8_tail \in Beginnings \cup {<<>>}

(* A text message is judged as if it were looked at whole, wherever its    *)
(* fragments cut its characters: it is refused exactly when its bytes so   *)
(* far are not text and cannot become text.                                *)
JudgedAsWhole ==
  said.kind = "Text" /\ verdict \in {"ok", "InvalidUTF8"} =>
    (verdict = "ok" <=> Text[said.payload] \/ (~said.fin /\ Incomplete(said.payload)))

(* What is delivered as a data message is every byte of its fragments, in  *)
(* order, under the opcode of the first, once the last has come; control   *)
(* frames between the fragments change nothing.                            *)
DeliversWhole ==
  /\ out.opcode \in {"Text", "Binary"} =>
       said.fin /\ out = [opcode |-> said.kind, payload |-> said.payload]
  /\ opcode # "none" /\ verdict = "ok" =>
       ~said.fin /\ fragments = said.payload /\ opcode = said.kind
=============================================================================
