------------------------------ MODULE MCParts -------------------------------
(***************************************************************************)
(* What Parts is given for TLC: configurations and requests for the        *)
(* decision, frames for the messages.                                      *)
(***************************************************************************)
EXTENDS Parts

CONSTANTS
  Alice, Bob, Edge,       \* addresses: two clients, one of Cloudflare's
  App, Files              \* hosts: of the routes, of the fallback alone

-----------------------------------------------------------------------------
(* Configurations: routes in each of their kinds, prefixes within prefixes *)
(* and beside longer names, a fallback for the host of the routes or not.  *)

MCTables ==
  {[host |-> App, websocket |-> {<<"/", "a", "/", "w">>}, grpc |-> {<<"/", "a", "/", "g">>},
    exact |-> {<<"/", "a", "/">>, <<"/", "b">>}, prefixes |-> prefixes,
    fallback |-> fallback,
    guarded |-> IF guarded
                THEN {[kind |-> "websocket", path |-> <<"/", "a", "/", "w">>],
                      [kind |-> "prefix", path |-> <<"/", "a">>],
                      [kind |-> "fallback", path |-> Nobody]}
                ELSE {},
    requireSni |-> guarded,
    bindings |-> IF guarded THEN <<>> ELSE [h \in {App} |-> fallback \cup {App}],
    scanned |-> {<<"/", "b">>, <<"/", "a", "/", "c">>}] :
     prefixes \in {{}, {<<"/", "a">>}, {<<"/">>, <<"/", "a", "/", "b">>},
                   {<<"/", "a">>, <<"/", "a", "/", "b">>}},
     fallback \in {{}, {Files}, {App, Files}},
     guarded \in BOOLEAN}

Paths ==
  {<<"/">>, <<"/", "a">>, <<"/", "a", "/">>, <<"/", "a", "a">>, <<"/", "b">>, <<"/", "b", "b">>,
   <<"/", "a", "/", "w">>, <<"/", "a", "/", "g">>, <<"/", "a", "/", "c">>,
   <<"/", "a", "/", "b">>, <<"/", "a", "/", "b", "b">>, <<"/", "a", "/", "b", "/", "a">>,
   <<"/", "b", "/", "b">>, <<"/", "/", "a">>, <<"/", "a", "/", ".">>}

Ordinary ==
  [health |-> FALSE, host |-> App, sni |-> App, path |-> <<"/", "a">>,
   peer |-> Alice, named |-> <<>>, http2 |-> TRUE, grpc |-> TRUE,
   headers |-> "ok", room |-> TRUE]

Senders == {<<Alice, <<>>>>, <<Alice, <<Bob>>>>, <<Edge, <<Bob>>>>}

(* Every path from every sender; then each thing that may be wrong, where  *)
(* it counts and where it does not.                                        *)
MCRequests ==
  {[Ordinary EXCEPT !.path = p, !.peer = s[1], !.named = s[2]] : p \in Paths, s \in Senders}
  \cup {[Ordinary EXCEPT !.host = h, !.sni = n, !.path = p] :
          h \in {App, Files, Nobody}, n \in {App, Files, Nobody}, p \in {<<"/", "a">>, <<"/", "b", "b">>}}
  \cup {[Ordinary EXCEPT !.path = p, !.peer = s[1], !.named = s[2], !.headers = "too large"] :
          p \in {<<"/", "a", "/", "w">>, <<"/", "a">>}, s \in Senders}
  \cup {[Ordinary EXCEPT !.path = p, !.http2 = FALSE] :
          p \in {<<"/", "a", "/", "g">>, <<"/", "a">>}}
  \cup {[Ordinary EXCEPT !.path = <<"/", "a", "/", "g">>, !.grpc = FALSE, !.peer = s[1], !.named = s[2]] :
          s \in Senders}
  \cup {[Ordinary EXCEPT !.path = p, !.room = FALSE] :
          p \in {<<"/", "a", "/", "g">>, <<"/", "a">>}}
  \cup {[Ordinary EXCEPT !.peer = Edge, !.named = n] : n \in {<<>>, <<Nobody>>, <<Alice, Bob>>}}
  \cup {[Ordinary EXCEPT !.health = TRUE, !.peer = a] : a \in {Alice, Edge}}

MCNetworkSets == {{}, {Edge}}
MCHealthPeers == {Alice}

-----------------------------------------------------------------------------
(* Frames of no byte, of every single byte, and of pairs that end one      *)
(* character and begin or spoil another.                                   *)

MCPayloads ==
  {<<>>}
  \cup {<<b>> : b \in {"ascii", "lead2", "lead3", "lead3high", "lead4", "low", "high", "never"}}
  \cup {<<"high", "lead2">>, <<"low", "ascii">>, <<"lead4", "high">>, <<"ascii", "lead3high">>}
=============================================================================
