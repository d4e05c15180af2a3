------------------------------ MODULE Keyspace ------------------------------
(***************************************************************************)
(* The keyspace and the commands that change it.                           *)
(*                                                                         *)
(* A command reads the cached clock, waits for its shard locks, runs its   *)
(* handler on the locked slices and leaves what must be replayed in the    *)
(* propagation buffers (engine.rs dispatch).  ShardLocks shows that the    *)
(* locked part of a command is atomic; here it is one step, and only the   *)
(* reading of the clock happens earlier.                                   *)
(*                                                                         *)
(* A handler is a function on the record a Ctx gives it access to: each    *)
(* operator below that takes the record x first is one method of Db, Ctx   *)
(* or one command handler.                                                 *)
(***************************************************************************)
EXTENDS Integers, Sequences, FiniteSets, Functions

CONSTANTS
  DBs,          \* logical databases
  Keys,         \* key names
  Vals,         \* string values
  Shards,       \* shard indices
  ShardOf,      \* ShardMap.shard_index: key -> shard
  Actors,       \* connections, and the background expiry tasks
  Commands,     \* what clients send
  Absent,       \* Option::None: a missing entry, a missing TTL, no watch
  Idle,         \* an actor that has not read the clock
  Propagating,  \* ServerShared.propagation_enabled
  SampleSize,   \* expire.rs KEYS_PER_LOOP
  Policy,       \* which keys maxmemory-policy lets the eviction task take
  PoolSize,     \* candidates an eviction batch keeps per database slice
  EvictMax,     \* evict.rs MAX_EVICTIONS_PER_LOCK
  MaxTime,      \* bound on the clock
  DirtyWrap,    \* the modification counters are kept modulo this number
  MaxBuf        \* bound on the length of a propagation buffer

Ops == {"read", "set", "mset", "del", "expire", "persist", "rename",
        "copy", "move", "restore", "sort", "flushdb", "flushall"}
Conds == {"always", "nx", "xx", "gt", "lt"}
Opts == {"keepttl", "abs", "nx", "replace", "valid", "store"}

Slots == DBs \X Keys
Entry == [val : Vals, exp : Nat \cup {Absent}]

(* A parsed command line.  Multi-key commands name two keys; a command     *)
(* with one key repeats it.  ttl is the argument of EX, PX, PXAT, EXPIRE,  *)
(* relative unless opt has "abs"; to is the target database of COPY, MOVE. *)
(* "valid" marks a RESTORE payload that verifies and that the codec, if    *)
(* one is installed, decodes to val.                                       *)
Command == [op : Ops, db : DBs, to : DBs, key : Keys, key2 : Keys,
            val : Vals, cond : Conds, ttl : Nat \cup {Absent},
            opt : SUBSET Opts]

ASSUME KeyspaceConstants ==
  /\ DBs \subseteq Nat /\ 0 \in DBs
  /\ Shards \subseteq Nat /\ 0 \in Shards
  /\ ShardOf \in [Keys -> Shards]
  /\ Vals # {}
  /\ IsFiniteSet(DBs) /\ IsFiniteSet(Keys)
  /\ Commands \subseteq Command
  /\ \A c \in Commands : c.op = "expire" => c.ttl # Absent
  /\ Absent \notin Nat
  /\ Idle \notin Nat
  /\ Propagating \in BOOLEAN
  /\ SampleSize \in Nat \ {0}
  /\ Policy \in {"noeviction", "allkeys", "volatile"}
  /\ {PoolSize, EvictMax} \subseteq Nat \ {0}
  /\ DirtyWrap \in Nat \ {0}
  /\ {MaxTime, MaxBuf} \subseteq Nat
  /\ Absent \notin Entry

VARIABLES
  dict,     \* slot -> its Entry (Db.dict of the shard the key is on)
  expires,  \* slot -> its deadline in the expiry index (Db.expires)
  watch,    \* slot -> its WATCH counter (Db.watch)
  wseq,     \* database and shard -> Db.watch_seq
  dirty,    \* shard -> Shard.dirty
  buf,      \* shard -> Shard.repl_buf
  now,      \* the cached clock, in ticks
  at        \* actor -> the clock value it has read, or Idle

db_vars == <<dict, expires, watch, wseq>>
vars == <<dict, expires, watch, wseq, dirty, buf, now, at>>

Init ==
  /\ dict = [s \in Slots |-> Absent]
  /\ expires = [s \in Slots |-> Absent]
  /\ watch = [s \in Slots |-> Absent]
  /\ wseq = [b \in DBs \X Shards |-> 0]
  /\ dirty = [i \in Shards |-> 0]
  /\ buf = [i \in Shards |-> <<>>]
  /\ now = 0
  /\ at = [a \in Actors |-> Idle]

-----------------------------------------------------------------------------
(* Db: one database slice of one shard.                                    *)

Home(s) == <<s[1], ShardOf[s[2]]>>

(* Mutant: an entry without TTL leaves the old deadline in the index.      *)
SetEntryKeepsIndex(x, s, e) ==
  IF e.exp = Absent THEN [x EXCEPT !.dict[s] = e]
  ELSE [x EXCEPT !.dict[s] = e, !.expires[s] = e.exp]

SetEntry(x, s, e) == [x EXCEPT !.dict[s] = e, !.expires[s] = e.exp]

RemoveEntry(x, s) == [x EXCEPT !.dict[s] = Absent, !.expires[s] = Absent]

(* Db::set_expire; the callers have seen that the entry exists.            *)
DbSetExpire(x, s, t) == [x EXCEPT !.dict[s].exp = t, !.expires[s] = t]

(* Mutant: a key expires one tick before its deadline.                     *)
IsExpiredEarly(x, s) ==
  /\ x.dict[s] # Absent
  /\ x.dict[s].exp # Absent
  /\ x.dict[s].exp <= x.now + 1

IsExpired(x, s) ==
  /\ x.dict[s] # Absent
  /\ x.dict[s].exp # Absent
  /\ x.dict[s].exp <= x.now

(* Db::signal_watch: nothing when the slice has no watcher at all.         *)
SignalWatch(x, s) ==
  IF \A r \in Slots : Home(r) = Home(s) => x.watch[r] = Absent
  THEN x
  ELSE [x EXCEPT !.wseq[Home(s)] = @ + 1,
                 !.watch[s] = IF @ = Absent THEN @ ELSE x.wseq[Home(s)] + 1]

(* Db::clear on the slices of the databases D, in every shard.             *)
Clear(x, D) ==
  LET watched(b) == \E r \in Slots : Home(r) = b /\ x.watch[r] # Absent
      bumped(b)  == b[1] \in D /\ watched(b)
      seq        == [b \in DBs \X Shards |->
                       IF bumped(b) THEN x.wseq[b] + 1 ELSE x.wseq[b]]
  IN [x EXCEPT
        !.wseq = seq,
        !.watch = [s \in Slots |-> IF s[1] \in D /\ x.watch[s] # Absent
                                   THEN seq[Home(s)] ELSE x.watch[s]],
        !.dict = [s \in Slots |-> IF s[1] \in D THEN Absent ELSE x.dict[s]],
        !.expires = [s \in Slots |->
                       IF s[1] \in D THEN Absent ELSE x.expires[s]]]

-----------------------------------------------------------------------------
(* Ctx: what a handler may do.                                             *)

(* The Ctx of an actor in database d: the shards, the clock it has read,   *)
(* and its bookkeeping for propagation.                                    *)
NewCtx(t, d) ==
  [dict |-> dict, expires |-> expires, watch |-> watch, wseq |-> wseq,
   dirty |-> dirty, buf |-> buf, now |-> t, db |-> d,
   cdirty |-> 0, prop |-> "default", pbuf |-> <<>>, result |-> "ok"]

(* The deletion an expiry propagates.                                      *)
Del(d, k) == [op |-> "del", db |-> d, to |-> d, key |-> k, key2 |-> k,
              val |-> CHOOSE v \in Vals : TRUE, cond |-> "always",
              ttl |-> Absent, opt |-> {}]

(* Shard::propagate.                                                       *)
Buffer(x, i, argv) ==
  IF Propagating THEN [x EXCEPT !.buf[i] = Append(@, argv)] ELSE x

(* shard.dirty += n.  The properties only ask whether the counter moved.   *)
Count(x, i, n) == [x EXCEPT !.dirty[i] = (@ + n) % DirtyWrap]

Touch(x, k) == Count(x, ShardOf[k], 1)

(* Mutant: a lazily expired key leaves no DEL in the stream.               *)
ExpireSilently(x, k) ==
  LET s == <<x.db, k>>
  IN IF IsExpired(x, s) THEN Touch(SignalWatch(RemoveEntry(x, s), s), k) ELSE x

(* Mutant: a lazily expired key does not invalidate its watchers.          *)
ExpireUnwatched(x, k) ==
  LET s == <<x.db, k>>
  IN IF IsExpired(x, s)
     THEN Buffer(Touch(RemoveEntry(x, s), k), ShardOf[k], Del(x.db, k))
     ELSE x

ExpireIfNeeded(x, k) ==
  LET s == <<x.db, k>>
  IN IF IsExpired(x, s)
     THEN Buffer(Touch(SignalWatch(RemoveEntry(x, s), s), k),
                 ShardOf[k], Del(x.db, k))
     ELSE x

Exists(x, k) == x.dict[<<x.db, k>>] # Absent

(* Mutant: the modification counter of the shard is forgotten.             *)
SignalUncounted(x, k) ==
  SignalWatch([x EXCEPT !.cdirty = @ + 1], <<x.db, k>>)

SignalModified(x, k) ==
  SignalWatch(Touch([x EXCEPT !.cdirty = @ + 1], k), <<x.db, k>>)

(* Ctx::insert does not look at the old entry.                             *)
Insert(x, k, v, t) ==
  SetEntry(SignalModified(x, k), <<x.db, k>>, [val |-> v, exp |-> t])

Remove(x0, k) ==
  LET x == ExpireIfNeeded(x0, k)
  IN IF Exists(x, k)
     THEN SignalModified(RemoveEntry(x, <<x.db, k>>), k) ELSE x

SetExpire(x, k, t) == SignalModified(DbSetExpire(x, <<x.db, k>>, t), k)

Propagate(x, argv) ==
  [x EXCEPT !.prop = "explicit", !.pbuf = Append(@, argv)]

PropagateNone(x) == [x EXCEPT !.prop = "none", !.pbuf = <<>>]

Fail(x) == [x EXCEPT !.result = "err"]

-----------------------------------------------------------------------------
(* Command handlers.                                                       *)

(* Mutant: a read command uses the accessor for writing.                   *)
CmdReadForWrite(x, c) ==
  LET y == ExpireIfNeeded(ExpireIfNeeded(x, c.key), c.key2)
  IN IF Exists(y, c.key) THEN SignalModified(y, c.key) ELSE y

(* GET, STRLEN, MGET, EXISTS, TYPE, TOUCH, TTL and its siblings, OBJECT:   *)
(* they reap what they find expired.                                       *)
CmdRead(x, c) == ExpireIfNeeded(ExpireIfNeeded(x, c.key), c.key2)

(* Mutant: the offset of a relative deadline is subtracted.                *)
DeadlineBackwards(x, c) == IF "abs" \in c.opt THEN c.ttl ELSE x.now - c.ttl

Deadline(x, c) == IF "abs" \in c.opt THEN c.ttl ELSE x.now + c.ttl

CmdSet(x0, c) ==
  LET x   == ExpireIfNeeded(x0, c.key)
      s   == <<x.db, c.key>>
      t   == IF "keepttl" \in c.opt
             THEN (IF Exists(x, c.key) THEN x.dict[s].exp ELSE Absent)
             ELSE (IF c.ttl = Absent THEN Absent ELSE Deadline(x, c))
      y   == Insert(x, c.key, c.val, t)
  IN IF \/ c.cond = "nx" /\ Exists(x, c.key)
        \/ c.cond = "xx" /\ ~Exists(x, c.key)
     THEN PropagateNone(x)
     ELSE IF t = Absent THEN y
     ELSE Propagate(y, [c EXCEPT !.cond = "always", !.ttl = t, !.opt = {"abs"}])

CmdMset(x, c) ==
  Insert(Insert(x, c.key, c.val, Absent), c.key2, c.val, Absent)

CmdDel(x, c) == Remove(Remove(x, c.key), c.key2)

(* cond_allows: a key without TTL expires at infinity.                     *)
CondAllows(cond, cur, t) ==
  /\ cond = "nx" => cur = Absent
  /\ cond \in {"xx", "gt"} => cur # Absent
  /\ (cond = "gt" /\ cur # Absent) => t > cur
  /\ (cond = "lt" /\ cur # Absent) => t < cur

CmdExpire(x0, c) ==
  LET x == ExpireIfNeeded(x0, c.key)
      t == Deadline(x, c)
  IN IF ~Exists(x, c.key) \/ ~CondAllows(c.cond, x.dict[<<x.db, c.key>>].exp, t)
     THEN PropagateNone(x)
     ELSE IF t <= x.now
     THEN Propagate(Remove(x, c.key), Del(x.db, c.key))
     ELSE Propagate(SetExpire(x, c.key, t),
                    [c EXCEPT !.cond = "always", !.ttl = t, !.opt = {"abs"}])

CmdPersist(x0, c) ==
  LET x == ExpireIfNeeded(x0, c.key)
  IN IF ~Exists(x, c.key) \/ x.dict[<<x.db, c.key>>].exp = Absent
     THEN PropagateNone(x)
     ELSE SetExpire(x, c.key, Absent)

(* exists_in_db: an expired entry reads as missing and stays.              *)
ExistsInDb(x, s) == x.dict[s] # Absent /\ ~IsExpired(x, s)

TakeEntry(x, s) == SignalWatch(RemoveEntry(x, s), s)

PutEntry(x, s, e) == SetEntry(SignalWatch(x, s), s, e)

(* RENAME, and RENAMENX when opt has "nx".                                 *)
CmdRename(x0, c) ==
  LET x   == ExpireIfNeeded(x0, c.key)
      src == <<x.db, c.key>>
      dst == <<x.db, c.key2>>
  IN IF ~Exists(x, c.key) THEN Fail(x)
     ELSE IF src = dst \/ ("nx" \in c.opt /\ ExistsInDb(x, dst))
     THEN PropagateNone(x)
     ELSE SignalModified(SignalModified(
            PutEntry(TakeEntry(x, src), dst, x.dict[src]), c.key), c.key2)

CmdCopy(x0, c) ==
  LET x   == ExpireIfNeeded(x0, c.key)
      src == <<x.db, c.key>>
      dst == <<c.to, c.key2>>
      y   == SignalModified(PutEntry(x, dst, x.dict[src]), c.key2)
  IN IF src = dst THEN Fail(x0)
     ELSE IF ~Exists(x, c.key) \/ (ExistsInDb(x, dst) /\ "replace" \notin c.opt)
     THEN PropagateNone(x)
     ELSE IF c.to # x.db THEN SignalWatch(y, dst) ELSE y

CmdMove(x0, c) ==
  LET x   == ExpireIfNeeded(x0, c.key)
      src == <<x.db, c.key>>
      dst == <<c.to, c.key>>
  IN IF c.to = x.db THEN Fail(x0)
     ELSE IF ~Exists(x, c.key) \/ ExistsInDb(x, dst)
     THEN PropagateNone(x)
     ELSE SignalWatch(SignalModified(
            PutEntry(TakeEntry(x, src), dst, x.dict[src]), c.key), dst)

CmdRestore(x0, c) ==
  LET x == ExpireIfNeeded(x0, c.key)
      t == IF c.ttl \in {Absent, 0} THEN Absent ELSE Deadline(x, c)
      y == Insert(x, c.key, c.val, t)
  IN IF (Exists(x, c.key) /\ "replace" \notin c.opt) \/ "valid" \notin c.opt
     THEN Fail(x)
     ELSE IF t = Absent \/ "abs" \in c.opt THEN y
     ELSE Propagate(y, [c EXCEPT !.ttl = t, !.opt = @ \cup {"abs"}])

(* SORT, with STORE when opt has "store".  The only type there is, the     *)
(* string, is the wrong one; a missing key sorts to nothing, which deletes *)
(* the destination.                                                        *)
CmdSort(x0, c) ==
  LET x == ExpireIfNeeded(x0, c.key)
      y == Remove(x, c.key2)
  IN IF Exists(x, c.key) THEN Fail(x)
     ELSE IF "store" \notin c.opt THEN x
     ELSE IF y.cdirty > x.cdirty THEN Propagate(y, Del(x.db, c.key2))
     ELSE PropagateNone(y)

Removed(x, D, i) ==
  Cardinality({s \in Slots : /\ s[1] \in D /\ x.dict[s] # Absent
                             /\ ShardOf[s[2]] <= i})

(* FLUSHDB leaves the modification counters of the shards alone.           *)
CmdFlushdb(x, c) == Clear(x, {x.db})

(* FLUSHALL adds to each shard what was removed up to and including it.    *)
CmdFlushall(x, c) ==
  [Clear(x, DBs) EXCEPT !.dirty = [i \in Shards |-> (@[i] + Removed(x, DBs, i)) % DirtyWrap]]

-----------------------------------------------------------------------------
(* engine.rs dispatch.                                                     *)

(* ShardGuards::primary: the lowest shard the command locked, which is the *)
(* shard of one of its keys unless it has the ALL_SHARDS flag.             *)
Primary(c) ==
  IF c.op \in {"sort", "flushdb", "flushall"} THEN 0
  ELSE IF ShardOf[c.key] <= ShardOf[c.key2] THEN ShardOf[c.key]
  ELSE ShardOf[c.key2]

(* The propagate block of dispatch.  FLUSHDB and FLUSHALL go through       *)
(* Default too, with a dirty count of 0.                                   *)
EndCommand(x, c) ==
  LET i == Primary(c)
  IN IF x.result = "err" \/ ~Propagating \/ x.prop = "none" THEN x
     ELSE IF x.prop = "explicit" THEN [x EXCEPT !.buf[i] = @ \o x.pbuf]
     ELSE IF c.op # "read" /\ x.cdirty > 0 THEN Buffer(x, i, c)
     ELSE x

(* The outcome of the locked part becomes the state, within the bounds.    *)
Commit(x) ==
  /\ \A i \in Shards : Len(x.buf[i]) <= MaxBuf
  /\ dict' = x.dict
  /\ expires' = x.expires
  /\ watch' = x.watch
  /\ wseq' = x.wseq
  /\ dirty' = x.dirty
  /\ buf' = x.buf

(* dispatch and cycle_shard read the clock before they wait for a lock.    *)
ReadClock(a) ==
  /\ at[a] = Idle
  /\ at' = [at EXCEPT ![a] = now]
  /\ UNCHANGED <<dict, expires, watch, wseq, dirty, buf, now>>

Execute(a, c) ==
  LET x      == NewCtx(at[a], c.db)
      End(y) == Commit(EndCommand(y, c))
  IN /\ at[a] # Idle
     /\ at' = [at EXCEPT ![a] = Idle]
     /\ now' = now
     /\ \/ c.op = "read" /\ End(CmdRead(x, c))
        \/ c.op = "set" /\ End(CmdSet(x, c))
        \/ c.op = "mset" /\ End(CmdMset(x, c))
        \/ c.op = "del" /\ End(CmdDel(x, c))
        \/ c.op = "expire" /\ End(CmdExpire(x, c))
        \/ c.op = "persist" /\ End(CmdPersist(x, c))
        \/ c.op = "rename" /\ End(CmdRename(x, c))
        \/ c.op = "copy" /\ End(CmdCopy(x, c))
        \/ c.op = "move" /\ End(CmdMove(x, c))
        \/ c.op = "restore" /\ End(CmdRestore(x, c))
        \/ c.op = "sort" /\ End(CmdSort(x, c))
        \/ c.op = "flushdb" /\ End(CmdFlushdb(x, c))
        \/ c.op = "flushall" /\ End(CmdFlushall(x, c))

-----------------------------------------------------------------------------
(* The background tasks: active expiry and eviction.                       *)

(* The victims leave shard i one after the other, each with its            *)
(* signal_watch, and their DELs follow in the same order.                  *)
ReapAll(x, i, victims) ==
  LET n          == Len(victims)
      gone       == Range(victims)
      watched(b) == \E r \in Slots : Home(r) = b /\ x.watch[r] # Absent
      first(b,m) == Cardinality({j \in 1..m : Home(victims[j]) = b})
      place(s)   == CHOOSE j \in 1..n : victims[j] = s
      dels       == [j \in 1..n |-> Del(victims[j][1], victims[j][2])]
  IN [x EXCEPT
        !.dict = [s \in Slots |-> IF s \in gone THEN Absent ELSE x.dict[s]],
        !.expires = [s \in Slots |-> IF s \in gone THEN Absent ELSE x.expires[s]],
        !.watch = [s \in Slots |-> IF s \in gone /\ x.watch[s] # Absent
                     THEN x.wseq[Home(s)] + first(Home(s), place(s))
                     ELSE x.watch[s]],
        !.wseq = [b \in DBs \X Shards |->
                    IF watched(b) THEN x.wseq[b] + first(b, n) ELSE x.wseq[b]],
        !.dirty[i] = (@ + n) % DirtyWrap,
        !.buf[i] = IF Propagating THEN @ \o dels ELSE @]

(* sample_round, and the loop body of cycle_shard around it: a window of   *)
(* the expiry index of one slice is looked at, and the keys of it whose    *)
(* indexed deadline has passed are reaped, in the order of the index.      *)
SampleRound(a, d, i) ==
  LET index   == {s \in Slots : Home(s) = <<d, i>> /\ expires[s] # Absent}
      size    == Cardinality(index)
      want    == IF SampleSize < size THEN SampleSize ELSE size
      dead(w) == {s \in w : expires[s] <= at[a]}
  IN /\ at[a] # Idle
     /\ at' = [at EXCEPT ![a] = Idle]
     /\ now' = now
     /\ \E window \in {w \in SUBSET index : Cardinality(w) = want} :
        \E victims \in [1..Cardinality(dead(window)) -> dead(window)] :
          /\ Range(victims) = dead(window)
          /\ Commit(ReapAll(NewCtx(at[a], d), i, victims))

(* The keys of a slice that fill_pool may draw.                            *)
Evictable(d, i) ==
  {s \in Slots : /\ Home(s) = <<d, i>>
                 /\ dict[s] # Absent
                 /\ Policy = "volatile" => expires[s] # Absent}

(* evict_batch on shard i: the pool of each database slice, in the order   *)
(* of the databases, until the batch is full.  Which keys the pool holds   *)
(* depends on a random window and on the LRU clocks: any of them.  That    *)
(* memory is over the limit when this happens is the business of Evict.    *)
EvictBatch(i) ==
  LET Size(d) == IF PoolSize < Cardinality(Evictable(d, i)) THEN PoolSize
                 ELSE Cardinality(Evictable(d, i))
      Fills(batch, d) ==
        LET room == EvictMax - Cardinality({s \in batch : s[1] < d})
        IN Cardinality({s \in batch : s[1] = d}) =
             IF Size(d) < room THEN Size(d) ELSE room
  IN /\ Policy # "noeviction"
     /\ UNCHANGED <<now, at>>
     /\ \E batch \in {b \in SUBSET UNION {Evictable(d, i) : d \in DBs} :
                        \A d \in DBs : Fills(b, d)} :
        \E victims \in [1..Cardinality(batch) -> batch] :
          /\ Range(victims) = batch
          /\ \A j, k \in DOMAIN victims :
                j < k => victims[j][1] <= victims[k][1]
          /\ Commit(ReapAll(NewCtx(now, 0), i, victims))

(* The ticker refreshes the cached clock.                                  *)
Tick ==
  /\ now < MaxTime
  /\ now' = now + 1
  /\ UNCHANGED <<dict, expires, watch, wseq, dirty, buf, at>>

Next ==
  \/ \E a \in Actors : ReadClock(a)
  \/ \E a \in Actors, c \in Commands : Execute(a, c)
  \/ \E a \in Actors, d \in DBs, i \in Shards : SampleRound(a, d, i)
  \/ \E i \in Shards : EvictBatch(i)
  \/ Tick

Spec == Init /\ [][Next]_vars

-----------------------------------------------------------------------------
(* Properties.                                                             *)

(* The types of the variables.                                             *)
TypeOK ==
  /\ dict \in [Slots -> Entry \cup {Absent}]
  /\ expires \in [Slots -> Nat \cup {Absent}]
  /\ watch \in [Slots -> Nat \cup {Absent}]
  /\ wseq \in [DBs \X Shards -> Nat]
  /\ dirty \in [Shards -> 0..DirtyWrap-1]
  /\ buf \in [Shards -> Seq(Command)]
  /\ now \in 0..MaxTime
  /\ at \in [Actors -> Nat \cup {Idle}]

(* The two homes of a deadline agree ("keeping the expiry index in sync",  *)
(* Db::set_entry): the active cycle, which reads the index, and lazy       *)
(* expiry, which reads the entry, never disagree about a key.              *)
IndexInSync ==
  \A s \in Slots :
    expires[s] = IF dict[s] = Absent THEN Absent ELSE dict[s].exp

(* The steps that remove keys nobody asked to remove: the active cycle and *)
(* lazy expiry in a read command.                                          *)
Reaping ==
  \/ \E a \in Actors, d \in DBs, i \in Shards : SampleRound(a, d, i)
  \/ \E a \in Actors, c \in Commands : c.op = "read" /\ Execute(a, c)

(* Expiry removes a key only if the deadline in its entry has passed, and  *)
(* changes no other entry, although it may act on a clock that was read    *)
(* before other commands ran and, in the active cycle, looks at the index  *)
(* only (expire_if_needed, sample_round).                                  *)
OnlyDeadKeysReaped ==
  [][Reaping => \A s \in Slots : dict'[s] # dict[s] =>
       /\ dict[s].exp # Absent /\ dict[s].exp <= now
       /\ dict'[s] = Absent]_vars

(* Under a volatile policy the eviction task takes no key without a        *)
(* deadline, whatever SET, PERSIST, GETEX, RENAME or MOVE did to it        *)
(* before: fill_pool draws from the TTL index and never asks the entry for *)
(* its deadline ("Volatile policies sample the expiry index, which is      *)
(* [...] exactly the eligible set").                                       *)
PlainKeysSurvive ==
  [][/\ Policy = "volatile"
     /\ \E s \in Slots : dict[s] # Absent /\ dict[s].exp = Absent /\ dict'[s] # dict[s]
     => ~\E i \in Shards : EvictBatch(i)]_vars

(* The step of a FLUSHDB.                                                  *)
Flushing ==
  \E a \in Actors, c \in Commands : c.op = "flushdb" /\ Execute(a, c)

(* Shard.dirty, "Modifications since startup", moves whenever an entry of  *)
(* the shard is created, changed or removed: a trigger that compares the   *)
(* counter with an earlier value never misses a change.  FLUSHDB is the    *)
(* exception: it counts what it removed for the server and not for the     *)
(* shards (cmd_flushdb; cmd_flushall does both).                           *)
DirtyCounts ==
  [][\A s \in Slots :
       dict'[s] # dict[s] =>
         Flushing \/ dirty'[ShardOf[s[2]]] # dirty[ShardOf[s[2]]]]_vars
=============================================================================
