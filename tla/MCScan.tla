------------------------------- MODULE MCScan -------------------------------
(***************************************************************************)
(* A small instance of Scan: two shards, four virtual buckets per shard,   *)
(* four keys in the buckets of one shard and one key in the other.         *)
(***************************************************************************)
EXTENDS Scan, TLC

MCKeys == {"a", "b", "c", "d", "e"}
MCShardOf == [k \in MCKeys |-> IF k = "e" THEN 1 ELSE 0]
MCHash == ("a" :> 0) @@ ("b" :> 1) @@ ("c" :> 2) @@ ("d" :> 3) @@ ("e" :> 1)

(* The line on which SweepProofs proves SCAN complete.                     *)
ASSUME MCKeysOnLine == Line!KeysOnLine
=============================================================================
