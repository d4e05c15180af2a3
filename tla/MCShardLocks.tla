---------------------------- MODULE MCShardLocks ----------------------------
(***************************************************************************)
(* A small instance of ShardLocks: four shards (ShardMap rounds the count  *)
(* up to a power of two), keys on three of them, and one command of each   *)
(* locking shape.                                                          *)
(***************************************************************************)
EXTENDS ShardLocks, TLC

MCKeys == {"a", "b", "c", "d"}

\* a and d share a shard: a command that names both must lock it once.
MCShardOf == ("a" :> 0) @@ ("b" :> 1) @@ ("c" :> 2) @@ ("d" :> 0)

Keyed(ks) == [all |-> FALSE, keys |-> ks, visits |-> <<>>]
Whole     == [all |-> TRUE, keys |-> <<>>, visits |-> <<>>]
Walk(vs)  == [all |-> FALSE, keys |-> <<>>, visits |-> vs]

\* MSET b a d: reversed order and two keys on one shard; RENAME c b, which
\* overlaps with it; FLUSHALL; SCAN from a cursor in shard 2.
MCCommands ==
  { Keyed(<<"b", "a", "d">>), Keyed(<<"c", "b">>), Whole, Walk(<<2, 3>>) }

\* An expiry sweep of shard 0, and an eviction cycle going from 2 to 1.
MCSweeps == { <<0>>, <<2, 1>> }
=============================================================================
