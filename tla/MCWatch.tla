------------------------------ MODULE MCWatch -------------------------------
(***************************************************************************)
(* Small instances of Watch: two keys of one shard and two watchers.       *)
(***************************************************************************)
EXTENDS Watch, TLC

MCKeys == {"a", "b"}
OneShard == ("a" :> 0) @@ ("b" :> 0)

Cmd(op, k, k2) ==
  [op |-> op, db |-> 0, to |-> 0, key |-> k, key2 |-> k2, val |-> "v",
   cond |-> "always", ttl |-> Absent, opt |-> {}]

(* Every way an entry can change, in its own database and from another.    *)
Writes ==
  { Cmd("read", "a", "b"), [Cmd("set", "a", "a") EXCEPT !.ttl = 1],
    Cmd("mset", "a", "b"), Cmd("del", "b", "b"), Cmd("rename", "a", "b"),
    Cmd("persist", "a", "a"), [Cmd("expire", "b", "b") EXCEPT !.ttl = 1],
    Cmd("flushdb", "a", "a"), [Cmd("copy", "a", "a") EXCEPT !.to = 1],
    [Cmd("move", "a", "a") EXCEPT !.to = 1], Cmd("flushall", "a", "a") }

ClientSymmetry == Permutations(Clients)
=============================================================================
