--------------------------- MODULE MCPropagation ----------------------------
(***************************************************************************)
(* Small instances of Propagation.                                         *)
(***************************************************************************)
EXTENDS Propagation, TLC

MCKeys == {"a", "b"}
ThreeKeys == {"a", "b", "c"}
OneShard == [k \in ThreeKeys |-> 0]
TwoShards == ("a" :> 0) @@ ("b" :> 1)

Cmd(op, k, k2) ==
  [op |-> op, db |-> 0, to |-> 0, key |-> k, key2 |-> k2, val |-> "v",
   cond |-> "always", ttl |-> Absent, opt |-> {}]

Read(k)      == Cmd("read", k, k)
Set(k, v)    == [Cmd("set", k, k) EXCEPT !.val = v]
SetPx(k, t)  == [Set(k, "v") EXCEPT !.ttl = t]
SetNx(k)     == [Set(k, "w") EXCEPT !.cond = "nx"]
SetKeep(k)   == [Set(k, "w") EXCEPT !.opt = {"keepttl"}]
Expire(k, t) == [Cmd("expire", k, k) EXCEPT !.ttl = t]
ExpireAt(k, t, cond) == [Expire(k, t) EXCEPT !.cond = cond, !.opt = {"abs"}]

(* Every kind of command.  Only a and c ever have a deadline, and no       *)
(* command that looks whether its target exists (RENAMENX, COPY without    *)
(* REPLACE, MOVE) has one of them as its target: see the README.           *)
Stream ==
  { Read("a"), SetPx("a", 1), SetNx("a"), SetKeep("a"), Expire("a", 1),
    ExpireAt("a", 0, "always"), ExpireAt("a", 2, "gt"),
    [Cmd("restore", "a", "a") EXCEPT !.ttl = 1, !.opt = {"valid"}],
    Cmd("persist", "a", "a"), Cmd("del", "b", "a"), Cmd("rename", "a", "c"),
    Cmd("mset", "a", "b"), Cmd("rename", "b", "a"),
    [Cmd("sort", "b", "a") EXCEPT !.opt = {"store"}],
    [Cmd("copy", "b", "a") EXCEPT !.opt = {"replace"}],
    [Cmd("copy", "b", "b") EXCEPT !.to = 1],
    [Cmd("move", "b", "b") EXCEPT !.to = 1],
    [Cmd("move", "b", "b") EXCEPT !.db = 1] }

(* MSET over both shards against a SET of the key on the higher one.       *)
CrossShard == { Cmd("mset", "a", "b"), Set("b", "w") }

Flush == { Set("a", "v"), Cmd("flushall", "a", "a") }

(* The theorem about ReplayRebuilds applies to the first instance, and not *)
(* to the other two.                                                       *)
ASSUME StreamIsSafe == ReplaySafe <=> Commands = Stream

ActorSymmetry == Permutations(Actors)
=============================================================================
