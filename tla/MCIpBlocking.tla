---------------------------- MODULE MCIpBlocking ----------------------------
(* Small instances of IpBlocking.  Their time units keep the order of the   *)
(* five minutes of a temporary block and the day of a durable one.          *)
EXTENDS IpBlocking, TLC

CONSTANTS a, b, c, d, scan, size

\* Every address in one shard, or one of them in a shard of its own.
MCOneShard == [ip \in IPs |-> 0]
MCTwoShards == [ip \in IPs |-> IF ip = a THEN 0 ELSE 1]
MCOnce == [r \in Rules |-> 1]
MCTwice == [r \in Rules |-> 2]
MCWindow == [r \in Rules |-> IF r = size THEN 3 ELSE 1]
MCSymmetry == Permutations(Tasks)
=============================================================================
