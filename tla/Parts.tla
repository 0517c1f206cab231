------------------------------- MODULE Parts --------------------------------
(***************************************************************************)
(* Four parts that share no state, side by side: the file of blocked       *)
(* clients, the networks of Cloudflare with their file, the decision about *)
(* a request, and the messages of a WebSocket.  A behaviour is one of one  *)
(* part; the others stay as they are.                                      *)
(***************************************************************************)
EXTENDS BlockStateFile, FiniteSets

CONSTANTS
  Missing, Bad, Versions, MaxFaults, MaxStops,           \* CloudflareNetworks
  Requests, Tables, NetworkSets, HealthPeers, Nobody,    \* RequestDecision
  Maximum, MaxControl, Payloads                          \* MessageSequence

VARIABLES
  part,
  origin, pc, networks, got, synced, cache, cacheShadow, stamp, faults, stops,
  table, snapshot, blocked, request, answer, offenders,
  opcode, bytes, utf8_tail, fragments, verdict, out, said

networkVars == <<origin, pc, networks, got, synced, cache, cacheShadow, stamp, faults, stops>>
decisionVars == <<table, snapshot, blocked, request, answer, offenders>>
messageVars == <<opcode, bytes, utf8_tail, fragments, verdict, out, said>>
allVars == <<part, dvars, networkVars, decisionVars, messageVars>>

N == INSTANCE CloudflareNetworks WITH file <- cache, shadow <- cacheShadow
D == INSTANCE RequestDecision WITH networks <- snapshot
M == INSTANCE MessageSequence

ASSUME NetworksAssumed == N!NetworkAssumption
ASSUME DecisionAssumed == D!DecisionAssumption
ASSUME MessagesAssumed == M!MessageAssumption

-----------------------------------------------------------------------------
PartsInit ==
  /\ part \in {"block file", "networks", "decision", "messages"}
  /\ Init /\ N!Init /\ D!Init /\ M!Init
  /\ part # "block file" => file = NoFile
  /\ part # "networks" => cache = NoFile /\ stamp = "old"
  /\ part # "decision" => snapshot = {} /\ table = CHOOSE t \in Tables : TRUE

PartsNext ==
  \/ part = "block file" /\ Next /\ UNCHANGED <<part, networkVars, decisionVars, messageVars>>
  \/ part = "networks" /\ N!Next /\ UNCHANGED <<part, dvars, decisionVars, messageVars>>
  \/ part = "decision" /\ D!Next /\ UNCHANGED <<part, dvars, networkVars, messageVars>>
  \/ part = "messages" /\ M!Next /\ UNCHANGED <<part, dvars, networkVars, decisionVars>>

(* Where the networks are no part of it, their process is down: nothing of *)
(* their fairness is due.                                                  *)
PartsSpec == PartsInit /\ [][PartsNext]_allVars /\ N!Fairness

-----------------------------------------------------------------------------
(* The networks requests are judged by: CloudflareNetworks says what these *)
(* state, of the snapshot, the cache file and its refresh.                 *)
ServedIsKept == N!ServedIsKept
DueIsRefreshed == N!DueIsRefreshed

(* A request reaches its route, and a violation its sender, in             *)
(* handle_request: RequestDecision says what these state.                  *)
RoutedRight == D!RoutedRight
OnlyOffendersBlocked == D!OnlyOffendersBlocked

(* Text is judged as if it had come in one frame, and delivered to the     *)
(* last byte: MessageSequence says what these state of websocket_message.  *)
JudgedAsWhole == M!TypeOK /\ M!JudgedAsWhole
DeliversWhole == M!DeliversWhole
=============================================================================
