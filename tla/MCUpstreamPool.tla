--------------------------- MODULE MCUpstreamPool ---------------------------
(* Instances of UpstreamPool for TLC. *)
EXTENDS UpstreamPool, TLC

CONSTANTS one, two, c1

MCProtocol == [p \in Pools |-> IF p = one THEN "http1" ELSE "http2"]
MCOne == [p \in Pools |-> 1]
MCTwo == [p \in Pools |-> 2]
MCShared == [p \in Pools |-> IF p = one THEN 1 ELSE 2]
MCMany == [p \in Pools |-> Cardinality(Requests)]
MCAnyName == [p \in Pools |-> Conns]
MCOwnNames == [p \in Pools |-> IF p = one THEN {c1} ELSE Conns \ {c1}]
MCSymmetry == Permutations(Requests) \cup UNION {Permutations(ConnsOf[p]) : p \in Pools}
=============================================================================
