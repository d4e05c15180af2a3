----------------------------- MODULE MCKeyspace -----------------------------
(***************************************************************************)
(* Small instances of Keyspace: two keys, on one shard or on two, and a    *)
(* choice of commands for each question.                                   *)
(***************************************************************************)
EXTENDS Keyspace, TLC

MCKeys == {"a", "b"}
OneShard == ("a" :> 0) @@ ("b" :> 0)
TwoShards == ("a" :> 0) @@ ("b" :> 1)

(* A command with every option at its default.                             *)
Cmd(op, k, k2) ==
  [op |-> op, db |-> 0, to |-> 0, key |-> k, key2 |-> k2, val |-> "v",
   cond |-> "always", ttl |-> Absent, opt |-> {}]

Read(k)       == Cmd("read", k, k)
Set(k)        == Cmd("set", k, k)
SetVal(k, v)  == [Set(k) EXCEPT !.val = v]
SetPx(k, t)   == [Set(k) EXCEPT !.ttl = t]
SetNx(k)      == [Set(k) EXCEPT !.cond = "nx"]
SetXx(k)      == [Set(k) EXCEPT !.cond = "xx", !.val = "w"]
SetKeep(k)    == [Set(k) EXCEPT !.opt = {"keepttl"}, !.val = "w"]
Expire(k, t)  == [Cmd("expire", k, k) EXCEPT !.ttl = t]
ExpireAt(k, t, cond) == [Expire(k, t) EXCEPT !.cond = cond, !.opt = {"abs"}]
Rename(k, l)  == Cmd("rename", k, l)
RenameNx(k, l) == [Rename(k, l) EXCEPT !.opt = {"nx"}]
Copy(k, l, d) == [Cmd("copy", k, l) EXCEPT !.to = d]
CopyReplace(k, l) == [Cmd("copy", k, l) EXCEPT !.opt = {"replace"}]
Restore(k, t) == [Cmd("restore", k, k) EXCEPT !.ttl = t, !.opt = {"valid"}]
SortStore(k, l) == [Cmd("sort", k, l) EXCEPT !.opt = {"store"}]
Move(k, d)    == [Cmd("move", k, k) EXCEPT !.to = d]

(* Every handler, in two databases; the options that lead to the           *)
(* different exits of a handler.                                           *)
AllCommands ==
  { Read("a"), Set("a"), SetPx("a", 1), SetNx("b"), SetXx("a"), SetKeep("a"),
    Cmd("mset", "a", "b"), Cmd("del", "a", "b"), Expire("a", 1),
    ExpireAt("a", 2, "gt"), ExpireAt("a", 1, "nx"), ExpireAt("b", 2, "xx"),
    ExpireAt("a", 1, "lt"), Cmd("persist", "a", "a"), Rename("a", "b"),
    RenameNx("b", "a"), Copy("a", "b", 1), CopyReplace("a", "b"),
    Copy("a", "a", 0), Move("a", 1), Move("a", 0),
    Restore("b", 1), [Restore("a", 2) EXCEPT !.opt = {"valid", "abs", "replace"}],
    SortStore("a", "b"), Cmd("sort", "b", "a"), Cmd("flushdb", "a", "a"),
    Cmd("flushall", "a", "a") }

(* No step depends on the modification counters: states that differ only  *)
(* in them need not be told apart.                                         *)
WithoutCounters == <<dict, expires, watch, wseq, buf, now, at>>

ActorSymmetry == Permutations(Actors)
=============================================================================
