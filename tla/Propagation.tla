---------------------------- MODULE Propagation -----------------------------
(***************************************************************************)
(* What the propagation buffers are for: replaying them rebuilds the       *)
(* keyspace (ARCHITECTURE.md section 7, aof/mod.rs).  The aggregator and   *)
(* the loader are not written yet; they are modelled from the interface    *)
(* Shard::drain_propagation gives them and from Redis, whose loader runs   *)
(* the same commands with expiry turned off.                               *)
(***************************************************************************)
EXTENDS Keyspace

VARIABLE replica   \* slot -> entry: the keyspace rebuilt from the stream so far

pvars == <<dict, expires, watch, wseq, dirty, buf, now, at, replica>>

PInit ==
  /\ Init
  /\ replica = [s \in Slots |-> Absent]

(* The loader gives a command of the stream to its handler.  Its clock is  *)
(* before every deadline: nothing expires while it loads.                  *)
Load(loaded, c) ==
  LET x == [NewCtx(-1, c.db) EXCEPT
              !.dict = loaded,
              !.expires = [s \in Slots |-> Absent]]
  IN CASE c.op = "set"     -> CmdSet(x, c).dict
       [] c.op = "mset"    -> CmdMset(x, c).dict
       [] c.op = "del"     -> CmdDel(x, c).dict
       [] c.op = "expire"  -> CmdExpire(x, c).dict
       [] c.op = "persist" -> CmdPersist(x, c).dict
       [] c.op = "rename"  -> CmdRename(x, c).dict
       [] c.op = "copy"    -> CmdCopy(x, c).dict
       [] c.op = "move"    -> CmdMove(x, c).dict
       [] c.op = "restore" -> CmdRestore(x, c).dict

(* A stream is loaded command by command.                                  *)
Replay(loaded, stream) ==
  LET after[n \in 0..Len(stream)] ==
        IF n = 0 THEN loaded ELSE Load(after[n - 1], stream[n])
  IN after[Len(stream)]

(* Shard::drain_propagation: the aggregator takes what shard i has         *)
(* buffered and appends it to the stream.  It visits the shards in any     *)
(* order and at any time.  (The stream is replayed as it is written: when  *)
(* the loader runs makes no difference.)                                   *)
Drain(i) ==
  /\ buf[i] # <<>>
  /\ replica' = Replay(replica, buf[i])
  /\ buf' = [buf EXCEPT ![i] = <<>>]
  /\ UNCHANGED <<dict, expires, watch, wseq, dirty, now, at>>

PNext ==
  \/ Next /\ UNCHANGED replica
  \/ \E i \in Shards : Drain(i)

PSpec == PInit /\ [][PNext]_pvars

-----------------------------------------------------------------------------
(* What the stream can carry.  Two things the code does stand in the way   *)
(* of a faithful replay: a command over several shards goes into the       *)
(* buffer of the lowest, and exists_in_db does not see an expired target,  *)
(* which the loader does.  FLUSHDB and FLUSHALL are not in the stream.     *)

(* All keys of the command are on the shard whose buffer it goes to.       *)
Aligned(c) == ShardOf[c.key] = Primary(c) /\ ShardOf[c.key2] = Primary(c)

(* The command gives no deadline to a slot of P.                           *)
Calm(P, c) ==
  LET s == <<c.db, c.key>>
  IN /\ c.op = "set" /\ s \in P => c.ttl = Absent \/ "keepttl" \in c.opt
     /\ c.op = "restore" /\ s \in P => c.ttl \in {Absent, 0}
     /\ c.op = "expire" => s \notin P
     /\ c.op = "rename" /\ <<c.db, c.key2>> \in P => s \in P
     /\ c.op = "copy" /\ <<c.to, c.key2>> \in P => s \in P
     /\ c.op = "move" /\ <<c.to, c.key>> \in P => s \in P

(* RENAMENX, COPY without REPLACE and MOVE have their target in P.         *)
Guarded(P, c) ==
  /\ c.op = "rename" /\ "nx" \in c.opt => <<c.db, c.key2>> \in P
  /\ c.op = "copy" /\ "replace" \notin c.opt => <<c.to, c.key2>> \in P
  /\ c.op = "move" => <<c.to, c.key>> \in P

Safe(P, c) ==
  /\ c.op \notin {"flushdb", "flushall"}
  /\ c.op # "read" => Aligned(c)
  /\ Calm(P, c) /\ Guarded(P, c)

(* There are slots that never get a deadline, the targets of conditional   *)
(* commands among them, and no command spans shards or flushes.            *)
ReplaySafe == \E P \in SUBSET Slots : \A c \in Commands : Safe(P, c)

-----------------------------------------------------------------------------
(* When every buffer has been drained and replayed, the rebuilt keyspace   *)
(* equals the live one, entry by entry, deadlines included: every change   *)
(* that a command, a lazy expiry or a background task made is in the       *)
(* stream, in an order and a form that replays to the same result          *)
(* ("Replaying the verbatim command would diverge", Ctx::propagate).       *)
ReplayRebuilds == (\A i \in Shards : buf[i] = <<>>) => replica = dict
=============================================================================
