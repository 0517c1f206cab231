-------------------------- MODULE RequestDecision ---------------------------
(***************************************************************************)
(* src/src/gateway/listener.rs, handle_request: what is decided about a    *)
(* request before anything waits for it, with the tables it asks           *)
(* (routes/table.rs, grpc/routes.rs, http_proxy/routes.rs, routing/mod.rs) *)
(* and the address the client goes by (security/client_address.rs).        *)
(*                                                                         *)
(* Routes belong to one host; another host is known for the fallback.      *)
(* Paths are sequences of characters, because a prefix ends at a segment   *)
(* and not anywhere.  What a WebSocket or gRPC handler makes of a request  *)
(* is elsewhere; here it is refused or reaches a target.                   *)
(***************************************************************************)
EXTENDS Naturals, Sequences, FiniteSets, FiniteSetsExt

CONSTANTS
  Requests,     \* of the records below
  Tables,       \* configurations
  NetworkSets,  \* what CloudflareNetworks may hold, as sets of addresses
  HealthPeers,  \* health_peer_networks
  Nobody

VARIABLES
  table,     \* the configuration, as it was loaded
  networks,  \* the current snapshot
  blocked,   \* what IpBlockingRuntime answers for
  request, answer,   \* the request that is decided, and how; or Nobody
  offenders  \* history: senders of requests that break a rule

vars == <<table, networks, blocked, request, answer, offenders>>

-----------------------------------------------------------------------------
(* Paths and the routes they name *)

Root == <<"/">>
Slashes(path) == {i \in 1..Len(path) : path[i] = "/"}

(* No repeated separators, no dot segments; a dot stands for one or two. *)
ValidHttpPath(path) ==
  /\ path # <<>> /\ path[1] = "/"
  /\ \A i \in Slashes(path) \ {Len(path)} :
       /\ path[i + 1] # "/"
       /\ path[i + 1] = "." => i + 2 <= Len(path) /\ path[i + 2] # "/"

(* At the boundary of a segment, as is_scan_namespace has it. *)
Within(prefix, path) ==
  \/ prefix = path
  \/ /\ Len(prefix) < Len(path) /\ path[Len(prefix) + 1] = "/"
     /\ SubSeq(path, 1, Len(prefix)) = prefix
Scans(t, path) == \E prefix \in t.scanned : Within(prefix, path)

(* Mutant: any beginning of the path will do. *)
LongestBeginning(prefixes, path) ==
  LET fitting == {p \in prefixes : Len(p) <= Len(path) /\ p = SubSeq(path, 1, Len(p))}
  IN IF fitting = {} THEN Nobody
     ELSE CHOOSE p \in fitting : \A q \in fitting : Len(q) <= Len(p)

(* The loop of HttpRouteTable::resolve: cut at the last slash and look     *)
(* again; Nobody if no prefix is found.                                    *)
LongestPrefix(prefixes, path) ==
  LET OrRoot == IF Root \in prefixes THEN Root ELSE Nobody
      from[n \in 1..Len(path)] ==
        LET candidate == SubSeq(path, 1, n)
            slash == Max(Slashes(candidate))
        IN IF candidate \in prefixes THEN candidate
           ELSE IF slash = 1 THEN OrRoot
           ELSE from[slash - 1]
  IN from[Len(path)]

Target(kind, path) == [kind |-> kind, path |-> path]
NoTarget == Target("none", Nobody)

ResolveHttp(t, path) ==
  LET prefix == LongestPrefix(t.prefixes, path)
  IN IF path \in t.exact THEN Target("exact", path)
     ELSE IF prefix # Nobody THEN Target("prefix", prefix)
     ELSE NoTarget

(* Explicit WebSocket and gRPC routes, then HTTP routes, then the fallback. *)
Resolve(t, host, path) ==
  LET http == IF host = t.host THEN ResolveHttp(t, path) ELSE NoTarget
  IN IF host = t.host /\ path \in t.websocket THEN Target("websocket", path)
     ELSE IF host = t.host /\ path \in t.grpc THEN Target("grpc", path)
     ELSE IF http # NoTarget THEN http
     ELSE IF host \in t.fallback THEN Target("fallback", Nobody)
     ELSE NoTarget

CloudflareOnly(t, target) == target \in t.guarded

(* What the configuration admits (config/mod.rs): explicit routes exclude  *)
(* each other, an exact HTTP route none of them; prefixes and explicit     *)
(* routes have no final slash.                                             *)
ValidTable(t) ==
  /\ t.websocket \cap t.grpc = {} /\ t.exact \cap (t.websocket \cup t.grpc) = {}
  /\ t.websocket \cup t.grpc \cup t.exact \cup t.prefixes # {}
  /\ \A p \in t.websocket \cup t.grpc \cup t.exact \cup t.prefixes \cup t.scanned : ValidHttpPath(p)
  /\ \A p \in (t.prefixes \cup t.websocket \cup t.grpc \cup t.scanned) \ {Root} : p[Len(p)] # "/"
  /\ \A p \in t.grpc : Cardinality(Slashes(p)) = 2
  /\ Root \notin t.scanned
  /\ \A sni \in DOMAIN t.bindings :
       t.bindings[sni] # {} /\ t.bindings[sni] \subseteq t.fallback \cup {t.host}

(* What the proofs need: the configurations are valid, paths are sequences *)
(* of characters, and Nobody is neither a path nor a request.  Assumed     *)
(* where the constants get their values.                                   *)
DecisionAssumption ==
  /\ \A t \in Tables :
       /\ ValidTable(t)
       /\ t.websocket \cup t.grpc \cup t.exact \cup t.prefixes \subseteq Seq(STRING)
  /\ \A q \in Requests : q.path \in Seq(STRING)
  /\ Nobody \notin Requests /\ \A t \in Tables : Nobody \notin t.prefixes

(* RoutingPolicy::permits_request_host; an SNI with bindings has no other  *)
(* hosts than those.                                                       *)
PermitsRequestHost(t, host, sni) ==
  /\ host \in t.fallback \cup {t.host}
  /\ IF sni = Nobody THEN ~t.requireSni
     ELSE IF sni \in DOMAIN t.bindings THEN host \in t.bindings[sni]
     ELSE sni = host

-----------------------------------------------------------------------------
(* The client *)

(* Mutant: the header is believed whoever sends it. *)
ResolveClientByHeader(q, guarded) ==
  IF Len(q.named) = 1 THEN q.named[1]
  ELSE IF guarded THEN Nobody ELSE q.peer

(* resolve_client_address: Nobody if the request is to be refused.  A      *)
(* header that is no address is Nobody, too.                               *)
ResolveClient(q, guarded) ==
  IF q.peer \notin networks
  THEN IF guarded THEN Nobody ELSE q.peer
  ELSE IF Len(q.named) = 1 THEN q.named[1] ELSE Nobody

-----------------------------------------------------------------------------
(* handle_request *)

Refused(status) == [status |-> status, target |-> NoTarget, charged |-> Nobody]
Violation(status, client) == [status |-> status, target |-> NoTarget, charged |-> client]
Reaches(target) == [status |-> "200", target |-> target, charged |-> Nobody]

GrpcStatus(q, target, grpc, http) == IF target.kind = "grpc" /\ q.http2 THEN grpc ELSE http

(* The request has a target and a client: checks that may count against it. *)
Judge(q, target, client) ==
  IF client \in blocked THEN Refused(GrpcStatus(q, target, "grpc 7", "403"))
  ELSE IF q.headers = "too large"
       THEN IF target.kind \in {"websocket", "grpc"} THEN Violation("431", client) ELSE Refused("431")
  ELSE IF target = NoTarget
       THEN IF Scans(table, q.path) THEN Violation("404", client) ELSE Refused("404")
  ELSE IF target.kind = "grpc" /\ ~(q.http2 /\ q.grpc) THEN Violation(IF q.http2 THEN "4xx" ELSE "505", client)
  ELSE IF ~q.room THEN Refused(GrpcStatus(q, target, "grpc 8", "503"))
  ELSE Reaches(target)

Decide(q) ==
  LET target == Resolve(table, q.host, q.path)
      client == ResolveClient(q, CloudflareOnly(table, target))
  IN IF q.health THEN Refused(IF q.peer \in HealthPeers THEN "200" ELSE "403")
     ELSE IF q.host = Nobody THEN Refused("400")
     ELSE IF ~PermitsRequestHost(table, q.host, q.sni) THEN Refused("421")
     ELSE IF ~ValidHttpPath(q.path) THEN Refused("400")
     ELSE IF client = Nobody THEN Refused("403")
     ELSE Judge(q, target, client)

-----------------------------------------------------------------------------
(* What the configuration means, to compare it with *)

(* The route a request should take, as a definition: of what matches at    *)
(* the boundary of a segment, the most specific.                           *)
Covers(prefix, path) == prefix = Root \/ Within(prefix, path)

MostSpecific(t, path) ==
  LET explicit == {Target("websocket", p) : p \in t.websocket} \cup {Target("grpc", p) : p \in t.grpc}
                  \cup {Target("exact", p) : p \in t.exact}
      covering == {p \in t.prefixes : Covers(p, path)}
  IN IF \E e \in explicit : e.path = path THEN {e \in explicit : e.path = path}
     ELSE {Target("prefix", p) : p \in {p \in covering : \A q \in covering : Len(q) <= Len(p)}}

Expected(t, host, path) ==
  LET own == IF host = t.host THEN MostSpecific(t, path) ELSE {}
  IN IF own # {} THEN own ELSE IF host \in t.fallback THEN {Target("fallback", Nobody)} ELSE {}

(* Who sent a request, if that can be told at all: the address a trusted   *)
(* proxy names, or the peer.                                               *)
Sender(q) == IF q.peer \in networks THEN q.named ELSE <<q.peer>>

(* The rules SizeViolation, InvalidGrpc and NamespaceScan. *)
BreaksRule(q) ==
  LET kinds == {t.kind : t \in Expected(table, q.host, q.path)}
  IN \/ q.headers = "too large" /\ kinds \cap {"websocket", "grpc"} # {}
     \/ ~(q.http2 /\ q.grpc) /\ "grpc" \in kinds
     \/ kinds = {} /\ Scans(table, q.path)

-----------------------------------------------------------------------------
Init ==
  /\ table \in Tables /\ networks \in NetworkSets
  /\ blocked = {} /\ offenders = {} /\ request = Nobody /\ answer = Nobody

(* A violation may be the one that blocks its client. *)
Arrive ==
  /\ request = Nobody
  /\ \E q \in Requests :
       /\ request' = q /\ answer' = Decide(q)
       /\ blocked' \in {blocked, blocked \cup ({Decide(q).charged} \ {Nobody})}
       /\ offenders' = offenders \cup
            (IF BreaksRule(q) /\ Len(Sender(q)) = 1 THEN {Sender(q)[1]} ELSE {})
  /\ UNCHANGED <<table, networks>>

Answer == /\ request # Nobody /\ request' = Nobody /\ answer' = Nobody
          /\ UNCHANGED <<table, networks, blocked, offenders>>

(* The maintenance task replaces the snapshot; a block ends. *)
Refresh == /\ request = Nobody /\ networks' \in NetworkSets \ {networks}
           /\ UNCHANGED <<table, blocked, request, answer, offenders>>
Release == /\ request = Nobody /\ \E c \in blocked : blocked' = blocked \ {c}
           /\ UNCHANGED <<table, networks, request, answer, offenders>>

Next == Arrive \/ Answer \/ Refresh \/ Release
Spec == Init /\ [][Next]_vars
-----------------------------------------------------------------------------
(* Properties *)

(* A request reaches the route that the configuration means for it, and no *)
(* other; the route's own origin policy decides who may use it; a blocked  *)
(* client reaches nothing, and "not found" means that there is nothing.    *)
RoutedRight ==
  answer # Nobody =>
    LET expected == Expected(table, request.host, request.path)
    IN /\ answer.target # NoTarget =>
            /\ expected = {answer.target}
            /\ answer.target \in table.guarded => request.peer \in networks
            /\ Sender(request)[1] \notin blocked
       /\ answer.status = "404" => expected = {}

(* Nobody is blocked for what another sent: neither a proxy for a client   *)
(* behind it, nor an address that somebody else named, nor a client whose  *)
(* requests broke no rule.                                                 *)
OnlyOffendersBlocked == blocked \subseteq offenders
=============================================================================
