--------------------------- MODULE KeyspaceProofs ---------------------------
(***************************************************************************)
(* Proofs about Keyspace and Watch, for every set of keys, databases,      *)
(* shards, actors, clients and commands: the types, the agreement of       *)
(* entries and expiry index, and that expiry only ever removes dead keys.  *)
(*                                                                         *)
(* A handler is a composition of the methods of Db and Ctx, so the proof   *)
(* follows the code: Good is preserved by every method, hence by every     *)
(* handler, hence by every command.                                        *)
(*                                                                         *)
(* The second part is about what a change of an entry leaves behind: the   *)
(* WATCH counter of the slot grows, and the modification counter of the    *)
(* shard moves.  The methods of Db and Ctx do this in pieces and in        *)
(* different orders: Ctx::insert signals before it stores, db.remove       *)
(* before signal_watch, RENAME takes and puts an entry and counts at the   *)
(* end.  Acts records the pieces of a method, the slots it changes, the    *)
(* slots it signals and the shards it counts, and adds up along a handler; *)
(* a handler is right when the first are among the second and on the       *)
(* third.                                                                  *)
(*                                                                         *)
(* The third part is about the propagation stream: replaying it rebuilds   *)
(* the keyspace, for every number of keys, databases, shards and actors    *)
(* and every set of commands the stream can carry (ReplaySafe), whenever   *)
(* the buffers are drained.  What each handler does to the entries and to  *)
(* the stream when its key has not expired (Quits, Changes, Tells).  What  *)
(* the loader makes of a command, in closed form (After).  That this       *)
(* depends on and touches one shard only (AfterLocal), so that the order   *)
(* in which shards are drained does not matter.  That the entries of a     *)
(* shard are at every moment what its buffer makes of the replica          *)
(* (Covers): a handler adds a command to the buffer exactly when, and such *)
(* that, it leads to the entries the handler left (Ends).  And the same    *)
(* for the tasks that remove keys, whose DELs follow in one go.            *)
(***************************************************************************)
EXTENDS Watch, Propagation, DataLemmas, SequenceTheorems, FiniteSetTheorems, TLAPS

(* The records handlers work on.                                           *)
CtxType ==
  [dict : [Slots -> Entry \cup {Absent}],
   expires : [Slots -> Nat \cup {Absent}],
   watch : [Slots -> Nat \cup {Absent}],
   wseq : [DBs \X Shards -> Nat],
   dirty : [Shards -> 0..DirtyWrap-1],
   buf : [Shards -> Seq(Command)],
   now : Nat, db : DBs, cdirty : Nat,
   prop : {"default", "explicit", "none"}, pbuf : Seq(Command),
   result : {"ok", "err"}]

Sync(x) ==
  \A s \in Slots :
    x.expires[s] = IF x.dict[s] = Absent THEN Absent ELSE x.dict[s].exp

(* y is a well-formed outcome of a method called on x.                     *)
Good(x) == x \in CtxType /\ Sync(x)
Step(x, y) == Good(y) /\ y.db = x.db /\ y.now = x.now

AtInv == \A a \in Actors : at[a] # Idle => at[a] <= now

IInv == TypeOK /\ IndexInSync /\ AtInv

-----------------------------------------------------------------------------
(* Methods of Db.                                                          *)

LEMMA HomeType == ASSUME NEW s \in Slots PROVE Home(s) \in DBs \X Shards
BY KeyspaceConstants DEF Home, Slots

LEMMA SetEntryGood ==
  ASSUME NEW x, Good(x), NEW s \in Slots, NEW e \in Entry
  PROVE  Step(x, SetEntry(x, s, e))
<1>1. SetEntry(x, s, e) \in CtxType
  BY DEF Good, CtxType, SetEntry, Entry
<1>2. Sync(SetEntry(x, s, e))
  BY KeyspaceConstants DEF Good, CtxType, SetEntry, Sync, Entry
<1>3. QED
  BY <1>1, <1>2 DEF Step, Good, CtxType, SetEntry

LEMMA RemoveEntryGood ==
  ASSUME NEW x, Good(x), NEW s \in Slots
  PROVE  Step(x, RemoveEntry(x, s))
<1>1. RemoveEntry(x, s) \in CtxType
  BY DEF Good, CtxType, RemoveEntry
<1>2. Sync(RemoveEntry(x, s))
  BY DEF Good, CtxType, RemoveEntry, Sync
<1>3. QED
  BY <1>1, <1>2 DEF Step, Good, CtxType, RemoveEntry

LEMMA DbSetExpireGood ==
  ASSUME NEW x, Good(x), NEW s \in Slots, x.dict[s] # Absent,
         NEW t \in Nat \cup {Absent}
  PROVE  Step(x, DbSetExpire(x, s, t))
<1>1. x.dict[s] \in Entry
  BY DEF Good, CtxType
<1>2. [x.dict[s] EXCEPT !.exp = t] \in Entry
  BY <1>1 DEF Entry
<1>3. DbSetExpire(x, s, t) =
        [x EXCEPT !.dict[s] = [x.dict[s] EXCEPT !.exp = t], !.expires[s] = t]
  BY DEF DbSetExpire
<1>4. DbSetExpire(x, s, t) = SetEntry(x, s, [x.dict[s] EXCEPT !.exp = t])
  BY <1>1, <1>3 DEF SetEntry, Entry
<1>5. QED
  BY <1>2, <1>4, SetEntryGood

LEMMA SignalWatchGood ==
  ASSUME NEW x, Good(x), NEW s \in Slots
  PROVE  Step(x, SignalWatch(x, s)) /\ SignalWatch(x, s).dict = x.dict
<1>1. CASE \A r \in Slots : Home(r) = Home(s) => x.watch[r] = Absent
  BY <1>1 DEF SignalWatch, Step, Good
<1>2. CASE ~(\A r \in Slots : Home(r) = Home(s) => x.watch[r] = Absent)
  <2> DEFINE n == x.wseq[Home(s)] + 1
  <2> DEFINE w == IF x.watch[s] = Absent THEN x.watch[s] ELSE n
  <2> DEFINE y == [x EXCEPT !.wseq[Home(s)] = n, !.watch[s] = w]
  <2>1. SignalWatch(x, s) = y
    BY <1>2 DEF SignalWatch, Good, CtxType
  <2>2. n \in Nat /\ w \in Nat \cup {Absent}
    BY HomeType DEF Good, CtxType
  <2>3. y \in CtxType /\ y.dict = x.dict /\ y.expires = x.expires
        /\ y.db = x.db /\ y.now = x.now
    <3> HIDE DEF n, w
    <3>1. QED
      BY <2>2, HomeType DEF Good, CtxType
  <2>4. QED
    <3> HIDE DEF y
    <3>1. QED
      BY <2>1, <2>3 DEF Step, Good, Sync
<1>3. QED
  BY <1>1, <1>2

LEMMA ClearGood ==
  ASSUME NEW x, Good(x), NEW D
  PROVE  Step(x, Clear(x, D))
<1> DEFINE watched(b) == \E r \in Slots : Home(r) = b /\ x.watch[r] # Absent
<1> DEFINE seq == [b \in DBs \X Shards |->
                     IF b[1] \in D /\ watched(b) THEN x.wseq[b] + 1 ELSE x.wseq[b]]
<1> DEFINE w == [s \in Slots |-> IF s[1] \in D /\ x.watch[s] # Absent
                                 THEN seq[Home(s)] ELSE x.watch[s]]
<1> DEFINE d == [s \in Slots |-> IF s[1] \in D THEN Absent ELSE x.dict[s]]
<1> DEFINE e == [s \in Slots |-> IF s[1] \in D THEN Absent ELSE x.expires[s]]
<1>1. Clear(x, D) = [x EXCEPT !.wseq = seq, !.watch = w, !.dict = d, !.expires = e]
  BY DEF Clear
<1>2. seq \in [DBs \X Shards -> Nat]
  <2> HIDE DEF watched
  <2>1. QED
    BY DEF Good, CtxType
<1>3. w \in [Slots -> Nat \cup {Absent}]
  <2> HIDE DEF seq
  <2>1. QED
    BY <1>2, HomeType DEF Good, CtxType
<1>4. /\ d \in [Slots -> Entry \cup {Absent}]
      /\ e \in [Slots -> Nat \cup {Absent}]
      /\ \A s \in Slots : e[s] = IF d[s] = Absent THEN Absent ELSE d[s].exp
  BY KeyspaceConstants DEF Good, CtxType, Sync
<1> DEFINE y == [x EXCEPT !.wseq = seq, !.watch = w, !.dict = d, !.expires = e]
<1>5. Clear(x, D) = y
  BY <1>1
<1> HIDE DEF seq, w, d, e
<1>6. y \in CtxType /\ y.dict = d /\ y.expires = e /\ y.db = x.db /\ y.now = x.now
  BY <1>2, <1>3, <1>4 DEF Good, CtxType
<1> HIDE DEF y
<1>7. Step(x, y)
  BY <1>4, <1>6 DEF Step, Good, Sync
<1>8. QED
  BY <1>5, <1>7

-----------------------------------------------------------------------------
(* Methods of Ctx.                                                         *)

LEMMA DelType == ASSUME NEW d \in DBs, NEW k \in Keys PROVE Del(d, k) \in Command
BY KeyspaceConstants DEF Del, Command, Ops, Conds

LEMMA BufferGood ==
  ASSUME NEW x, Good(x), NEW i \in Shards, NEW c \in Command
  PROVE  Step(x, Buffer(x, i, c)) /\ Buffer(x, i, c).dict = x.dict
<1>1. CASE ~Propagating
  BY <1>1 DEF Buffer, Step, Good
<1>2. CASE Propagating
  <2> DEFINE q == Append(x.buf[i], c)
  <2> DEFINE y == [x EXCEPT !.buf[i] = q]
  <2>1. Buffer(x, i, c) = y
    BY <1>2 DEF Buffer
  <2>2. y \in CtxType /\ y.dict = x.dict /\ y.expires = x.expires
        /\ y.db = x.db /\ y.now = x.now
    <3>1. x.buf[i] \in Seq(Command)
      BY DEF Good, CtxType
    <3>2. q \in Seq(Command)
      BY <3>1
    <3> HIDE DEF q
    <3>3. QED
      BY <3>2 DEF Good, CtxType
  <2>3. QED
    <3> HIDE DEF y
    <3>1. QED
      BY <2>1, <2>2 DEF Step, Good, Sync
<1>3. QED
  BY <1>1, <1>2

LEMMA TouchGood ==
  ASSUME NEW x, Good(x), NEW k \in Keys
  PROVE  Step(x, Touch(x, k)) /\ Touch(x, k).dict = x.dict
<1> DEFINE n == (x.dirty[ShardOf[k]] + 1) % DirtyWrap
<1> DEFINE y == [x EXCEPT !.dirty[ShardOf[k]] = n]
<1>1. ShardOf[k] \in Shards /\ DirtyWrap \in Nat \ {0}
  BY KeyspaceConstants
<1>2. n \in 0..DirtyWrap-1
  BY <1>1 DEF Good, CtxType
<1>3. Touch(x, k) = y
  BY DEF Touch, Count
<1>4. y \in CtxType /\ y.dict = x.dict /\ y.expires = x.expires
      /\ y.db = x.db /\ y.now = x.now
  <2> HIDE DEF n
  <2>1. QED
    BY <1>1, <1>2 DEF Good, CtxType
<1>5. QED
  <2> HIDE DEF y
  <2>1. QED
    BY <1>3, <1>4 DEF Step, Good, Sync

LEMMA SlotType ==
  ASSUME NEW x, Good(x), NEW k \in Keys
  PROVE  <<x.db, k>> \in Slots /\ x.db \in DBs /\ ShardOf[k] \in Shards
BY KeyspaceConstants DEF Good, CtxType, Slots

(* What expire_if_needed may do to the entries: remove expired ones.       *)
ReapsDead(x, y) ==
  \A s \in Slots : y.dict[s] # x.dict[s] => IsExpired(x, s) /\ y.dict[s] = Absent

LEMMA ExpireGood ==
  ASSUME NEW x, Good(x), NEW k \in Keys
  PROVE  /\ Step(x, ExpireIfNeeded(x, k))
         /\ ReapsDead(x, ExpireIfNeeded(x, k))
<1> DEFINE s == <<x.db, k>>
<1>1. s \in Slots /\ x.db \in DBs /\ ShardOf[k] \in Shards
  BY SlotType
<1>2. CASE ~IsExpired(x, s)
  BY <1>2 DEF ExpireIfNeeded, Step, Good, ReapsDead
<1>3. CASE IsExpired(x, s)
  <2> DEFINE y1 == RemoveEntry(x, s)
  <2> DEFINE y2 == SignalWatch(y1, s)
  <2> DEFINE y3 == Touch(y2, k)
  <2> DEFINE y4 == Buffer(y3, ShardOf[k], Del(x.db, k))
  <2> HIDE DEF s
  <2>1. Step(x, y1) /\ y1.dict = [x.dict EXCEPT ![s] = Absent]
    BY <1>1, RemoveEntryGood DEF RemoveEntry, Good, CtxType
  <2> HIDE DEF y1
  <2>2. Step(y1, y2) /\ y2.dict = y1.dict
    BY <1>1, <2>1, SignalWatchGood DEF Step
  <2> HIDE DEF y2
  <2>3. Step(y2, y3) /\ y3.dict = y2.dict
    BY <2>2, TouchGood DEF Step
  <2> HIDE DEF y3
  <2>4. Step(y3, y4) /\ y4.dict = y3.dict
    BY <1>1, <2>3, DelType, BufferGood DEF Step
  <2>5. ExpireIfNeeded(x, k) = y4
    BY <1>3 DEF ExpireIfNeeded, s, y1, y2, y3
  <2> HIDE DEF y4
  <2>6. Step(x, y4)
    BY <2>1, <2>2, <2>3, <2>4 DEF Step
  <2>7. ReapsDead(x, y4)
    BY <1>1, <1>3, <2>1, <2>2, <2>3, <2>4 DEF ReapsDead, Good, CtxType
  <2>8. QED
    BY <2>5, <2>6, <2>7
<1>4. QED
  BY <1>2, <1>3

LEMMA SignalModifiedGood ==
  ASSUME NEW x, Good(x), NEW k \in Keys
  PROVE  Step(x, SignalModified(x, k)) /\ SignalModified(x, k).dict = x.dict
<1> DEFINE n == x.cdirty + 1
<1> DEFINE y1 == [x EXCEPT !.cdirty = n]
<1> DEFINE y2 == Touch(y1, k)
<1>1. Step(x, y1) /\ y1.dict = x.dict
  <2>1. y1 \in CtxType /\ y1.dict = x.dict /\ y1.expires = x.expires
        /\ y1.db = x.db /\ y1.now = x.now
    <3>1. n \in Nat
      BY DEF Good, CtxType
    <3> HIDE DEF n
    <3>2. QED
      BY <3>1 DEF Good, CtxType
  <2>2. QED
    <3> HIDE DEF y1
    <3>1. QED
      BY <2>1 DEF Step, Good, Sync
<1>2. SignalModified(x, k) = SignalWatch(y2, <<x.db, k>>)
  BY DEF SignalModified
<1> HIDE DEF y1
<1>3. Step(y1, y2) /\ y2.dict = y1.dict
  BY <1>1, TouchGood DEF Step
<1> HIDE DEF y2
<1>4. QED
  BY <1>1, <1>2, <1>3, SlotType, SignalWatchGood DEF Step

LEMMA InsertGood ==
  ASSUME NEW x, Good(x), NEW k \in Keys, NEW v \in Vals, NEW t \in Nat \cup {Absent}
  PROVE  Step(x, Insert(x, k, v, t))
<1> DEFINE y == SignalModified(x, k)
<1>1. Step(x, y)
  BY SignalModifiedGood
<1>2. Insert(x, k, v, t) = SetEntry(y, <<x.db, k>>, [val |-> v, exp |-> t])
  BY DEF Insert
<1>3. [val |-> v, exp |-> t] \in Entry
  BY DEF Entry
<1> HIDE DEF y
<1>4. QED
  BY <1>1, <1>2, <1>3, SlotType, SetEntryGood DEF Step

LEMMA RemoveGood ==
  ASSUME NEW x, Good(x), NEW k \in Keys
  PROVE  Step(x, Remove(x, k))
<1> DEFINE y == ExpireIfNeeded(x, k)
<1> DEFINE z == RemoveEntry(y, <<y.db, k>>)
<1>1. Step(x, y)
  BY ExpireGood
<1>2. Remove(x, k) = IF Exists(y, k) THEN SignalModified(z, k) ELSE y
  BY DEF Remove
<1> HIDE DEF y
<1>3. Step(y, z)
  BY <1>1, SlotType, RemoveEntryGood DEF Step
<1> HIDE DEF z
<1>4. Step(z, SignalModified(z, k))
  BY <1>3, SignalModifiedGood DEF Step
<1>5. QED
  BY <1>1, <1>2, <1>3, <1>4 DEF Step

LEMMA SetExpireGood ==
  ASSUME NEW x, Good(x), NEW k \in Keys, Exists(x, k), NEW t \in Nat \cup {Absent}
  PROVE  Step(x, SetExpire(x, k, t))
<1> DEFINE y == DbSetExpire(x, <<x.db, k>>, t)
<1>1. Step(x, y)
  BY SlotType, DbSetExpireGood DEF Exists
<1>2. SetExpire(x, k, t) = SignalModified(y, k)
  BY DEF SetExpire
<1> HIDE DEF y
<1>3. QED
  BY <1>1, <1>2, SignalModifiedGood DEF Step

LEMMA PropagateGood ==
  ASSUME NEW x, Good(x), NEW c \in Command
  PROVE  Step(x, Propagate(x, c))
<1> DEFINE q == Append(x.pbuf, c)
<1> DEFINE y == [x EXCEPT !.prop = "explicit", !.pbuf = q]
<1>1. Propagate(x, c) = y
  BY DEF Propagate
<1>2. y \in CtxType /\ y.dict = x.dict /\ y.expires = x.expires
      /\ y.db = x.db /\ y.now = x.now
  <2>1. x.pbuf \in Seq(Command)
    BY DEF Good, CtxType
  <2>2. q \in Seq(Command)
    BY <2>1
  <2> HIDE DEF q
  <2>3. QED
    BY <2>2 DEF Good, CtxType
<1> HIDE DEF y
<1>3. QED
  BY <1>1, <1>2 DEF Step, Good, Sync

LEMMA NoPropagationGood ==
  ASSUME NEW x, Good(x)
  PROVE  Step(x, PropagateNone(x)) /\ Step(x, Fail(x))
<1> DEFINE q == <<>>
<1>1. q \in Seq(Command)
  OBVIOUS
<1>2. PropagateNone(x) = [x EXCEPT !.prop = "none", !.pbuf = q]
  BY DEF PropagateNone
<1> HIDE DEF q
<1> DEFINE y == [x EXCEPT !.prop = "none", !.pbuf = q]
<1> DEFINE z == [x EXCEPT !.result = "err"]
<1>3. y \in CtxType /\ y.dict = x.dict /\ y.expires = x.expires /\ y.db = x.db /\ y.now = x.now
  BY <1>1 DEF Good, CtxType
<1>4. z \in CtxType /\ z.dict = x.dict /\ z.expires = x.expires /\ z.db = x.db /\ z.now = x.now
  BY DEF Good, CtxType
<1>5. PropagateNone(x) = y /\ Fail(x) = z
  BY <1>2 DEF Fail
<1> HIDE DEF y, z
<1>6. Step(x, y) /\ Step(x, z)
  BY <1>3, <1>4 DEF Step, Good, Sync
<1>7. QED
  BY <1>5, <1>6

-----------------------------------------------------------------------------
(* Command handlers.                                                       *)

LEMMA StepTrans ==
  ASSUME NEW x, NEW y, NEW z, Step(x, y), Step(y, z)
  PROVE  Step(x, z)
BY DEF Step

LEMMA CmdType ==
  ASSUME NEW c \in Commands
  PROVE  /\ c \in Command
         /\ c.key \in Keys /\ c.key2 \in Keys
         /\ c.db \in DBs /\ c.to \in DBs /\ c.val \in Vals
         /\ c.ttl \in Nat \cup {Absent}
         /\ c.op = "expire" => c.ttl \in Nat
BY KeyspaceConstants DEF Command

LEMMA RewrittenType ==
  ASSUME NEW c \in Commands, NEW t \in Nat \cup {Absent}
  PROVE  [c EXCEPT !.cond = "always", !.ttl = t, !.opt = {"abs"}] \in Command
<1>1. c \in Command /\ "always" \in Conds /\ {"abs"} \in SUBSET Opts
  BY CmdType DEF Conds, Opts
<1> DEFINE o == {"abs"}
<1> HIDE DEF o
<1>2. [c EXCEPT !.cond = "always", !.ttl = t, !.opt = o] \in Command
  <2>1. o \in SUBSET Opts
    BY <1>1 DEF o
  <2>2. QED
    BY <1>1, <2>1 DEF Command
<1>3. QED
  BY <1>2 DEF o

LEMMA EntryType ==
  ASSUME NEW x, Good(x), NEW s \in Slots, x.dict[s] # Absent
  PROVE  x.dict[s] \in Entry /\ x.dict[s].exp \in Nat \cup {Absent}
BY DEF Good, CtxType, Entry

LEMMA CmdReadGood ==
  ASSUME NEW x, Good(x), NEW c \in Commands
  PROVE  Step(x, CmdRead(x, c)) /\ ReapsDead(x, CmdRead(x, c))
<1> DEFINE y == ExpireIfNeeded(x, c.key)
<1> DEFINE z == ExpireIfNeeded(y, c.key2)
<1>1. Step(x, y) /\ ReapsDead(x, y)
  BY CmdType, ExpireGood
<1>2. CmdRead(x, c) = z
  BY DEF CmdRead
<1> HIDE DEF y
<1>3. Step(y, z) /\ ReapsDead(y, z)
  BY <1>1, CmdType, ExpireGood DEF Step
<1> HIDE DEF z
<1>4. ReapsDead(x, z)
  BY <1>1, <1>3 DEF ReapsDead, Step, IsExpired
<1>5. QED
  BY <1>1, <1>2, <1>3, <1>4, StepTrans

LEMMA CmdSetGood ==
  ASSUME NEW x0, Good(x0), NEW c \in Commands
  PROVE  Step(x0, CmdSet(x0, c))
<1> DEFINE x == ExpireIfNeeded(x0, c.key)
<1> DEFINE s == <<x.db, c.key>>
<1> DEFINE t == IF "keepttl" \in c.opt
                THEN (IF Exists(x, c.key) THEN x.dict[s].exp ELSE Absent)
                ELSE (IF c.ttl = Absent THEN Absent ELSE Deadline(x, c))
<1> DEFINE y == Insert(x, c.key, c.val, t)
<1> DEFINE argv == [c EXCEPT !.cond = "always", !.ttl = t, !.opt = {"abs"}]
<1>1. Step(x0, x)
  BY CmdType, ExpireGood
<1>2. CmdSet(x0, c) =
        IF \/ c.cond = "nx" /\ Exists(x, c.key)
           \/ c.cond = "xx" /\ ~Exists(x, c.key)
        THEN PropagateNone(x)
        ELSE IF t = Absent THEN y ELSE Propagate(y, argv)
  BY DEF CmdSet
<1> HIDE DEF x
<1>3. t \in Nat \cup {Absent}
  <2>1. s \in Slots /\ x.now \in Nat /\ c.ttl \in Nat \cup {Absent}
    BY <1>1, CmdType, SlotType DEF Step, Good, CtxType
  <2>2. Exists(x, c.key) => x.dict[s].exp \in Nat \cup {Absent}
    BY <1>1, <2>1, EntryType DEF Step, Exists
  <2>3. c.ttl # Absent => Deadline(x, c) \in Nat
    BY <2>1 DEF Deadline
  <2>4. QED
    BY <2>2, <2>3
<1> HIDE DEF t
<1>4. Step(x, y)
  BY <1>1, <1>3, CmdType, InsertGood DEF Step
<1>5. Step(x, PropagateNone(x))
  BY <1>1, NoPropagationGood DEF Step
<1>6. argv \in Command
  BY <1>3, RewrittenType
<1> HIDE DEF y, argv
<1>7. Step(y, Propagate(y, argv))
  BY <1>4, <1>6, PropagateGood DEF Step
<1>8. QED
  BY <1>1, <1>2, <1>4, <1>5, <1>7, StepTrans

LEMMA CmdMsetGood ==
  ASSUME NEW x, Good(x), NEW c \in Commands
  PROVE  Step(x, CmdMset(x, c))
<1> DEFINE y == Insert(x, c.key, c.val, Absent)
<1> DEFINE k == c.key2
<1> DEFINE v == c.val
<1>0. k \in Keys /\ v \in Vals /\ Absent \in Nat \cup {Absent}
  BY CmdType
<1>1. Step(x, y)
  BY CmdType, InsertGood
<1>2. CmdMset(x, c) = Insert(y, k, v, Absent)
  BY DEF CmdMset
<1>a. Good(y)
  BY <1>1 DEF Step
<1> HIDE DEF y, k, v
<1>3. Step(y, Insert(y, k, v, Absent))
  BY <1>0, <1>a, InsertGood
<1>4. QED
  BY <1>1, <1>2, <1>3, StepTrans

LEMMA CmdDelGood ==
  ASSUME NEW x, Good(x), NEW c \in Commands
  PROVE  Step(x, CmdDel(x, c))
<1> DEFINE y == Remove(x, c.key)
<1>1. Step(x, y)
  BY CmdType, RemoveGood
<1>2. CmdDel(x, c) = Remove(y, c.key2)
  BY DEF CmdDel
<1> HIDE DEF y
<1>3. Step(y, Remove(y, c.key2))
  BY <1>1, CmdType, RemoveGood DEF Step
<1>4. QED
  BY <1>1, <1>2, <1>3, StepTrans

LEMMA CmdExpireGood ==
  ASSUME NEW x0, Good(x0), NEW c \in Commands, c.op = "expire"
  PROVE  Step(x0, CmdExpire(x0, c))
<1> DEFINE x == ExpireIfNeeded(x0, c.key)
<1> DEFINE t == Deadline(x, c)
<1> DEFINE argv == [c EXCEPT !.cond = "always", !.ttl = t, !.opt = {"abs"}]
<1> DEFINE y == Remove(x, c.key)
<1> DEFINE z == SetExpire(x, c.key, t)
<1> DEFINE refused == \/ ~Exists(x, c.key)
                      \/ ~CondAllows(c.cond, x.dict[<<x.db, c.key>>].exp, t)
<1>1. Step(x0, x)
  BY CmdType, ExpireGood
<1>2. CmdExpire(x0, c) =
        IF refused THEN PropagateNone(x)
        ELSE IF t <= x.now THEN Propagate(y, Del(x.db, c.key))
        ELSE Propagate(z, argv)
  BY DEF CmdExpire
<1> HIDE DEF x
<1>3. t \in Nat
  <2>1. x.now \in Nat /\ c.ttl \in Nat
    BY <1>1, CmdType DEF Step, Good, CtxType
  <2>2. QED
    BY <2>1 DEF Deadline
<1> HIDE DEF t
<1>4. Step(x, PropagateNone(x))
  BY <1>1, NoPropagationGood DEF Step
<1>5. Step(x, y) /\ Del(x.db, c.key) \in Command
  BY <1>1, CmdType, RemoveGood, DelType, SlotType DEF Step
<1>6. Exists(x, c.key) => Step(x, z)
  BY <1>1, <1>3, CmdType, SetExpireGood DEF Step
<1>7. argv \in Command
  BY <1>3, RewrittenType
<1> HIDE DEF y, z, argv
<1>8. Step(y, Propagate(y, Del(x.db, c.key)))
  BY <1>5, PropagateGood DEF Step
<1>9. Exists(x, c.key) => Step(z, Propagate(z, argv))
  BY <1>6, <1>7, PropagateGood DEF Step
<1>10. ~refused => Exists(x, c.key)
  OBVIOUS
<1> HIDE DEF refused
<1>11. QED
  BY <1>1, <1>2, <1>4, <1>5, <1>6, <1>8, <1>9, <1>10, StepTrans

LEMMA CmdPersistGood ==
  ASSUME NEW x0, Good(x0), NEW c \in Commands
  PROVE  Step(x0, CmdPersist(x0, c))
<1> DEFINE x == ExpireIfNeeded(x0, c.key)
<1>1. Step(x0, x)
  BY CmdType, ExpireGood
<1>2. CmdPersist(x0, c) =
        IF ~Exists(x, c.key) \/ x.dict[<<x.db, c.key>>].exp = Absent
        THEN PropagateNone(x) ELSE SetExpire(x, c.key, Absent)
  BY DEF CmdPersist
<1> HIDE DEF x
<1>3. Step(x, PropagateNone(x))
  BY <1>1, NoPropagationGood DEF Step
<1>4. Exists(x, c.key) => Step(x, SetExpire(x, c.key, Absent))
  BY <1>1, CmdType, SetExpireGood DEF Step
<1>5. QED
  BY <1>1, <1>2, <1>3, <1>4, StepTrans

LEMMA PutEntryGood ==
  ASSUME NEW x, Good(x), NEW s \in Slots, NEW e \in Entry
  PROVE  Step(x, PutEntry(x, s, e))
<1> DEFINE y == SignalWatch(x, s)
<1>1. Step(x, y)
  BY SignalWatchGood
<1>2. PutEntry(x, s, e) = SetEntry(y, s, e)
  BY DEF PutEntry
<1> HIDE DEF y
<1>3. Step(y, SetEntry(y, s, e))
  BY <1>1, SetEntryGood DEF Step
<1>4. QED
  BY <1>1, <1>2, <1>3, StepTrans

LEMMA TakeEntryGood ==
  ASSUME NEW x, Good(x), NEW s \in Slots
  PROVE  Step(x, TakeEntry(x, s))
<1> DEFINE y == RemoveEntry(x, s)
<1>1. Step(x, y)
  BY RemoveEntryGood
<1>2. TakeEntry(x, s) = SignalWatch(y, s)
  BY DEF TakeEntry
<1> HIDE DEF y
<1>3. Step(y, SignalWatch(y, s))
  BY <1>1, SignalWatchGood DEF Step
<1>4. QED
  BY <1>1, <1>2, <1>3, StepTrans

(* Moving an entry from one slot to another.                               *)
LEMMA RelocateGood ==
  ASSUME NEW x, Good(x), NEW s \in Slots, NEW r \in Slots, x.dict[s] # Absent
  PROVE  Step(x, PutEntry(TakeEntry(x, s), r, x.dict[s]))
<1> DEFINE y == TakeEntry(x, s)
<1>1. Step(x, y) /\ x.dict[s] \in Entry
  BY TakeEntryGood, EntryType
<1> HIDE DEF y
<1>2. Step(y, PutEntry(y, r, x.dict[s]))
  BY <1>1, PutEntryGood DEF Step
<1>3. QED
  BY <1>1, <1>2, StepTrans DEF y

LEMMA CmdRenameGood ==
  ASSUME NEW x0, Good(x0), NEW c \in Commands
  PROVE  Step(x0, CmdRename(x0, c))
<1> DEFINE x == ExpireIfNeeded(x0, c.key)
<1> DEFINE src == <<x.db, c.key>>
<1> DEFINE dst == <<x.db, c.key2>>
<1> DEFINE y == PutEntry(TakeEntry(x, src), dst, x.dict[src])
<1> DEFINE z == SignalModified(y, c.key)
<1>1. Step(x0, x)
  BY CmdType, ExpireGood
<1>2. CmdRename(x0, c) =
        IF ~Exists(x, c.key) THEN Fail(x)
        ELSE IF src = dst \/ ("nx" \in c.opt /\ ExistsInDb(x, dst))
        THEN PropagateNone(x) ELSE SignalModified(z, c.key2)
  BY DEF CmdRename
<1> HIDE DEF x
<1>3. src \in Slots /\ dst \in Slots
  BY <1>1, CmdType, SlotType DEF Step
<1>4. Exists(x, c.key) => x.dict[src] # Absent
  BY DEF Exists
<1>5. Step(x, PropagateNone(x)) /\ Step(x, Fail(x))
  BY <1>1, NoPropagationGood DEF Step
<1> HIDE DEF src, dst
<1>6. Exists(x, c.key) => Step(x, y)
  BY <1>1, <1>3, <1>4, RelocateGood DEF Step
<1> HIDE DEF y
<1>7. Exists(x, c.key) => Step(y, z)
  BY <1>6, CmdType, SignalModifiedGood DEF Step
<1> HIDE DEF z
<1>8. Exists(x, c.key) => Step(z, SignalModified(z, c.key2))
  BY <1>7, CmdType, SignalModifiedGood DEF Step
<1>9. QED
  BY <1>1, <1>2, <1>5, <1>6, <1>7, <1>8, StepTrans

LEMMA CmdCopyGood ==
  ASSUME NEW x0, Good(x0), NEW c \in Commands
  PROVE  Step(x0, CmdCopy(x0, c))
<1> DEFINE x == ExpireIfNeeded(x0, c.key)
<1> DEFINE src == <<x.db, c.key>>
<1> DEFINE dst == <<c.to, c.key2>>
<1> DEFINE p == PutEntry(x, dst, x.dict[src])
<1> DEFINE y == SignalModified(p, c.key2)
<1>1. Step(x0, x)
  BY CmdType, ExpireGood
<1>2. CmdCopy(x0, c) =
        IF src = dst THEN Fail(x0)
        ELSE IF ~Exists(x, c.key) \/ (ExistsInDb(x, dst) /\ "replace" \notin c.opt)
        THEN PropagateNone(x)
        ELSE IF c.to # x.db THEN SignalWatch(y, dst) ELSE y
  BY DEF CmdCopy
<1> HIDE DEF x
<1>3. src \in Slots /\ dst \in Slots
  BY <1>1, CmdType, SlotType DEF Step, Slots
<1>4. Exists(x, c.key) => x.dict[src] # Absent
  BY DEF Exists
<1>5. Step(x, PropagateNone(x)) /\ Step(x0, Fail(x0))
  BY <1>1, NoPropagationGood DEF Step
<1> HIDE DEF src, dst
<1>6. Exists(x, c.key) => Step(x, p)
  BY <1>1, <1>3, <1>4, EntryType, PutEntryGood DEF Step
<1> HIDE DEF p
<1>7. Exists(x, c.key) => Step(p, y)
  BY <1>6, CmdType, SignalModifiedGood DEF Step
<1> HIDE DEF y
<1>8. Exists(x, c.key) => Step(y, SignalWatch(y, dst))
  BY <1>3, <1>7, SignalWatchGood DEF Step
<1>9. QED
  BY <1>1, <1>2, <1>5, <1>6, <1>7, <1>8, StepTrans

LEMMA CmdMoveGood ==
  ASSUME NEW x0, Good(x0), NEW c \in Commands
  PROVE  Step(x0, CmdMove(x0, c))
<1> DEFINE x == ExpireIfNeeded(x0, c.key)
<1> DEFINE src == <<x.db, c.key>>
<1> DEFINE dst == <<c.to, c.key>>
<1> DEFINE y == PutEntry(TakeEntry(x, src), dst, x.dict[src])
<1> DEFINE z == SignalModified(y, c.key)
<1>1. Step(x0, x)
  BY CmdType, ExpireGood
<1>2. CmdMove(x0, c) =
        IF c.to = x.db THEN Fail(x0)
        ELSE IF ~Exists(x, c.key) \/ ExistsInDb(x, dst)
        THEN PropagateNone(x) ELSE SignalWatch(z, dst)
  BY DEF CmdMove
<1> HIDE DEF x
<1>3. src \in Slots /\ dst \in Slots
  BY <1>1, CmdType, SlotType DEF Step, Slots
<1>4. Exists(x, c.key) => x.dict[src] # Absent
  BY DEF Exists
<1>5. Step(x, PropagateNone(x)) /\ Step(x0, Fail(x0))
  BY <1>1, NoPropagationGood DEF Step
<1> HIDE DEF src, dst
<1>6. Exists(x, c.key) => Step(x, y)
  BY <1>1, <1>3, <1>4, RelocateGood DEF Step
<1> HIDE DEF y
<1>7. Exists(x, c.key) => Step(y, z)
  BY <1>6, CmdType, SignalModifiedGood DEF Step
<1> HIDE DEF z
<1>8. Exists(x, c.key) => Step(z, SignalWatch(z, dst))
  BY <1>3, <1>7, SignalWatchGood DEF Step
<1>9. QED
  BY <1>1, <1>2, <1>5, <1>6, <1>7, <1>8, StepTrans

LEMMA CmdRestoreGood ==
  ASSUME NEW x0, Good(x0), NEW c \in Commands
  PROVE  Step(x0, CmdRestore(x0, c))
<1> DEFINE x == ExpireIfNeeded(x0, c.key)
<1> DEFINE t == IF c.ttl \in {Absent, 0} THEN Absent ELSE Deadline(x, c)
<1> DEFINE y == Insert(x, c.key, c.val, t)
<1> DEFINE argv == [c EXCEPT !.ttl = t, !.opt = @ \cup {"abs"}]
<1>1. Step(x0, x)
  BY CmdType, ExpireGood
<1>2. CmdRestore(x0, c) =
        IF (Exists(x, c.key) /\ "replace" \notin c.opt) \/ "valid" \notin c.opt
        THEN Fail(x)
        ELSE IF t = Absent \/ "abs" \in c.opt THEN y ELSE Propagate(y, argv)
  BY DEF CmdRestore
<1> HIDE DEF x
<1>3. t \in Nat \cup {Absent}
  <2>1. x.now \in Nat /\ c.ttl \in Nat \cup {Absent}
    BY <1>1, CmdType DEF Step, Good, CtxType
  <2>2. QED
    BY <2>1 DEF Deadline
<1> HIDE DEF t
<1>4. Step(x, y)
  BY <1>1, <1>3, CmdType, InsertGood DEF Step
<1>5. Step(x, Fail(x))
  BY <1>1, NoPropagationGood DEF Step
<1>6. argv \in Command
  <2>1. c \in Command
    BY CmdType
  <2>2. QED
    BY <1>3, <2>1 DEF Command, Opts
<1> HIDE DEF y, argv
<1>7. Step(y, Propagate(y, argv))
  BY <1>4, <1>6, PropagateGood DEF Step
<1>8. QED
  BY <1>1, <1>2, <1>4, <1>5, <1>7, StepTrans

LEMMA CmdSortGood ==
  ASSUME NEW x0, Good(x0), NEW c \in Commands
  PROVE  Step(x0, CmdSort(x0, c))
<1> DEFINE x == ExpireIfNeeded(x0, c.key)
<1> DEFINE y == Remove(x, c.key2)
<1>1. Step(x0, x)
  BY CmdType, ExpireGood
<1>2. CmdSort(x0, c) =
        IF Exists(x, c.key) THEN Fail(x)
        ELSE IF "store" \notin c.opt THEN x
        ELSE IF y.cdirty > x.cdirty THEN Propagate(y, Del(x.db, c.key2))
        ELSE PropagateNone(y)
  BY DEF CmdSort
<1> HIDE DEF x
<1>3. Step(x, y)
  BY <1>1, CmdType, RemoveGood DEF Step
<1>4. Step(x, Fail(x))
  BY <1>1, NoPropagationGood DEF Step
<1> HIDE DEF y
<1>5. Del(x.db, c.key2) \in Command
  <2>1. x.db \in DBs /\ c.key2 \in Keys
    BY <1>1, CmdType DEF Step, Good, CtxType
  <2>2. QED
    BY <2>1, DelType
<1>6. Step(y, Propagate(y, Del(x.db, c.key2))) /\ Step(y, PropagateNone(y))
  BY <1>3, <1>5, PropagateGood, NoPropagationGood DEF Step
<1>7. QED
  BY <1>1, <1>2, <1>3, <1>4, <1>6, StepTrans

LEMMA SlotsFinite ==
  ASSUME NEW S \in SUBSET Slots
  PROVE  Cardinality(S) \in Nat
<1>1. IsFiniteSet(Slots)
  BY KeyspaceConstants, FS_Product DEF Slots
<1>2. QED
  BY <1>1, FS_Subset, FS_CardinalityType

LEMMA FlushGood ==
  ASSUME NEW x, Good(x), NEW c
  PROVE  Step(x, CmdFlushdb(x, c)) /\ Step(x, CmdFlushall(x, c))
<1>1. Step(x, CmdFlushdb(x, c))
  BY ClearGood DEF CmdFlushdb
<1> DEFINE y == Clear(x, DBs)
<1> DEFINE d == [i \in Shards |-> (y.dirty[i] + Removed(x, DBs, i)) % DirtyWrap]
<1>2. Step(x, y)
  BY ClearGood
<1>3. CmdFlushall(x, c) = [y EXCEPT !.dirty = d]
  BY DEF CmdFlushall
<1> HIDE DEF y
<1>4. d \in [Shards -> 0..DirtyWrap-1]
  <2>1. \A i \in Shards : Removed(x, DBs, i) \in Nat
    BY SlotsFinite DEF Removed
  <2>2. \A i \in Shards : y.dirty[i] \in Nat
    <3>1. y.dirty \in [Shards -> 0..DirtyWrap-1]
      BY <1>2 DEF Step, Good, CtxType
    <3>2. QED
      BY <3>1, KeyspaceConstants
  <2>3. ASSUME NEW i \in Shards
        PROVE  (y.dirty[i] + Removed(x, DBs, i)) % DirtyWrap \in 0..DirtyWrap-1
    <3> DEFINE n == y.dirty[i] + Removed(x, DBs, i)
    <3>1. n \in Nat
      BY <2>1, <2>2
    <3> HIDE DEF n
    <3>2. n % DirtyWrap \in 0..DirtyWrap-1
      BY <3>1, KeyspaceConstants
    <3>3. QED
      BY <3>2 DEF n
  <2>4. QED
    BY <2>3
<1> HIDE DEF d
<1> DEFINE z == [y EXCEPT !.dirty = d]
<1>5. z \in CtxType /\ z.dict = y.dict /\ z.expires = y.expires
      /\ z.db = y.db /\ z.now = y.now
  BY <1>2, <1>4 DEF Step, Good, CtxType
<1>6. CmdFlushall(x, c) = z
  BY <1>3
<1> HIDE DEF z
<1>7. QED
  BY <1>1, <1>2, <1>5, <1>6 DEF Step, Good, Sync

-----------------------------------------------------------------------------
(* Commands.                                                               *)

LEMMA EndCommandGood ==
  ASSUME NEW x, Good(x), NEW c \in Commands
  PROVE  Step(x, EndCommand(x, c)) /\ EndCommand(x, c).dict = x.dict
<1> DEFINE i == Primary(c)
<1> DEFINE q == x.buf[i] \o x.pbuf
<1> DEFINE y == [x EXCEPT !.buf[i] = q]
<1>1. EndCommand(x, c) =
        IF x.result = "err" \/ ~Propagating \/ x.prop = "none" THEN x
        ELSE IF x.prop = "explicit" THEN y
        ELSE IF c.op # "read" /\ x.cdirty > 0 THEN Buffer(x, i, c) ELSE x
  BY DEF EndCommand
<1>2. i \in Shards
  BY CmdType, KeyspaceConstants DEF Primary
<1> HIDE DEF i
<1>3. Step(x, Buffer(x, i, c)) /\ Buffer(x, i, c).dict = x.dict
  BY <1>2, CmdType, BufferGood
<1>4. Step(x, y) /\ y.dict = x.dict
  <2>1. x.buf[i] \in Seq(Command) /\ x.pbuf \in Seq(Command)
    BY <1>2 DEF Good, CtxType
  <2>2. q \in Seq(Command)
    BY <2>1
  <2> HIDE DEF q
  <2>3. y \in CtxType /\ y.dict = x.dict /\ y.expires = x.expires
        /\ y.db = x.db /\ y.now = x.now
    BY <1>2, <2>2 DEF Good, CtxType
  <2> HIDE DEF y
  <2>4. QED
    BY <2>3 DEF Step, Good, Sync
<1>5. Step(x, x)
  BY DEF Step
<1> HIDE DEF y
<1>6. QED
  BY <1>1, <1>3, <1>4, <1>5

LEMMA NewCtxGood ==
  ASSUME TypeOK, IndexInSync, NEW t \in Nat, NEW d \in DBs
  PROVE  /\ Good(NewCtx(t, d))
         /\ NewCtx(t, d).now = t
         /\ NewCtx(t, d).dict = dict
<1> DEFINE q == <<>>
<1>1. q \in Seq(Command)
  OBVIOUS
<1>2. NewCtx(t, d) =
        [dict |-> dict, expires |-> expires, watch |-> watch, wseq |-> wseq,
         dirty |-> dirty, buf |-> buf, now |-> t, db |-> d,
         cdirty |-> 0, prop |-> "default", pbuf |-> q, result |-> "ok"]
  BY DEF NewCtx
<1> HIDE DEF q
<1>3. QED
  BY <1>1, <1>2 DEF TypeOK, IndexInSync, Good, CtxType, Sync

LEMMA CommitGood ==
  ASSUME NEW x, Good(x), Commit(x), TypeOK, now' = now,
         at' \in [Actors -> Nat \cup {Idle}]
  PROVE  TypeOK' /\ IndexInSync'
BY DEF Good, CtxType, Sync, Commit, TypeOK, IndexInSync

LEMMA ExecuteStep ==
  ASSUME IInv, NEW a \in Actors, NEW c \in Commands, Execute(a, c)
  PROVE  /\ IInv'
         /\ c.op = "read" => \A s \in Slots : dict'[s] # dict[s] =>
              /\ dict[s].exp # Absent /\ dict[s].exp <= now
              /\ dict'[s] = Absent
<1> DEFINE x == NewCtx(at[a], c.db)
<1>1. at[a] \in Nat /\ at[a] <= now /\ now' = now
  BY DEF Execute, IInv, TypeOK, AtInv
<1>2. Good(x) /\ x.now = at[a] /\ x.dict = dict
  BY <1>1, CmdType, NewCtxGood DEF IInv
<1>3. at' \in [Actors -> Nat \cup {Idle}] /\ AtInv'
  BY <1>1 DEF Execute, IInv, TypeOK, AtInv
<1>4. ASSUME NEW y, Step(x, y), Commit(EndCommand(y, c))
      PROVE  IInv' /\ dict' = y.dict
  <2>1. Step(y, EndCommand(y, c)) /\ EndCommand(y, c).dict = y.dict
    BY <1>4, EndCommandGood DEF Step
  <2>2. TypeOK' /\ IndexInSync'
    BY <1>1, <1>3, <1>4, <2>1, CommitGood DEF Step, IInv
  <2>3. QED
    BY <1>3, <1>4, <2>1, <2>2 DEF IInv, Commit
<1> HIDE DEF x
<1>5. \E y : /\ Step(x, y)
             /\ Commit(EndCommand(y, c))
             /\ c.op = "read" => ReapsDead(x, y)
  <2>1. CASE c.op = "read" /\ Commit(EndCommand(CmdRead(x, c), c))
    BY <1>2, <2>1, CmdReadGood
  <2>2. CASE c.op = "set" /\ Commit(EndCommand(CmdSet(x, c), c))
    BY <1>2, <2>2, CmdSetGood
  <2>3. CASE c.op = "mset" /\ Commit(EndCommand(CmdMset(x, c), c))
    BY <1>2, <2>3, CmdMsetGood
  <2>4. CASE c.op = "del" /\ Commit(EndCommand(CmdDel(x, c), c))
    BY <1>2, <2>4, CmdDelGood
  <2>5. CASE c.op = "expire" /\ Commit(EndCommand(CmdExpire(x, c), c))
    BY <1>2, <2>5, CmdExpireGood
  <2>6. CASE c.op = "persist" /\ Commit(EndCommand(CmdPersist(x, c), c))
    BY <1>2, <2>6, CmdPersistGood
  <2>7. CASE c.op = "rename" /\ Commit(EndCommand(CmdRename(x, c), c))
    BY <1>2, <2>7, CmdRenameGood
  <2>8. CASE c.op = "copy" /\ Commit(EndCommand(CmdCopy(x, c), c))
    BY <1>2, <2>8, CmdCopyGood
  <2>9. CASE c.op = "move" /\ Commit(EndCommand(CmdMove(x, c), c))
    BY <1>2, <2>9, CmdMoveGood
  <2>10. CASE c.op = "restore" /\ Commit(EndCommand(CmdRestore(x, c), c))
    BY <1>2, <2>10, CmdRestoreGood
  <2>11. CASE c.op = "sort" /\ Commit(EndCommand(CmdSort(x, c), c))
    BY <1>2, <2>11, CmdSortGood
  <2>12. CASE c.op = "flushdb" /\ Commit(EndCommand(CmdFlushdb(x, c), c))
    BY <1>2, <2>12, FlushGood
  <2>13. CASE c.op = "flushall" /\ Commit(EndCommand(CmdFlushall(x, c), c))
    BY <1>2, <2>13, FlushGood
  <2>14. QED
    BY <2>1, <2>2, <2>3, <2>4, <2>5, <2>6, <2>7, <2>8, <2>9, <2>10, <2>11,
       <2>12, <2>13 DEF Execute, x
<1>6. PICK y : /\ Step(x, y)
               /\ Commit(EndCommand(y, c))
               /\ c.op = "read" => ReapsDead(x, y)
  BY <1>5
<1>7. IInv' /\ dict' = y.dict
  BY <1>4, <1>6
<1>8. ASSUME c.op = "read", NEW s \in Slots, dict'[s] # dict[s]
      PROVE  dict[s].exp # Absent /\ dict[s].exp <= now /\ dict'[s] = Absent
  <2>1. IsExpired(x, s) /\ y.dict[s] = Absent
    BY <1>2, <1>6, <1>7, <1>8 DEF ReapsDead
  <2>2. dict[s] # Absent /\ dict[s].exp # Absent /\ dict[s].exp <= at[a]
    BY <1>2, <2>1 DEF IsExpired
  <2>3. dict[s].exp \in Nat /\ now \in Nat
    BY <2>2 DEF IInv, TypeOK, Entry
  <2>4. QED
    BY <1>1, <1>7, <2>1, <2>2, <2>3
<1>9. QED
  BY <1>7, <1>8

LEMMA ReapAllGood ==
  ASSUME NEW x, Good(x), NEW i \in Shards, NEW v \in Seq(Slots)
  PROVE  /\ Step(x, ReapAll(x, i, v))
         /\ ReapAll(x, i, v).dict =
              [s \in Slots |-> IF s \in Range(v) THEN Absent ELSE x.dict[s]]
<1> DEFINE n == Len(v)
<1> DEFINE gone == Range(v)
<1> DEFINE watched(b) == \E r \in Slots : Home(r) = b /\ x.watch[r] # Absent
<1> DEFINE first(b, m) == Cardinality({j \in 1..m : Home(v[j]) = b})
<1> DEFINE place(s) == CHOOSE j \in 1..n : v[j] = s
<1> DEFINE dels == [j \in 1..n |-> Del(v[j][1], v[j][2])]
<1> DEFINE d == [s \in Slots |-> IF s \in gone THEN Absent ELSE x.dict[s]]
<1> DEFINE e == [s \in Slots |-> IF s \in gone THEN Absent ELSE x.expires[s]]
<1> DEFINE w == [s \in Slots |-> IF s \in gone /\ x.watch[s] # Absent
                   THEN x.wseq[Home(s)] + first(Home(s), place(s))
                   ELSE x.watch[s]]
<1> DEFINE k == [b \in DBs \X Shards |->
                   IF watched(b) THEN x.wseq[b] + first(b, n) ELSE x.wseq[b]]
<1> DEFINE m == (x.dirty[i] + n) % DirtyWrap
<1> DEFINE q == IF Propagating THEN x.buf[i] \o dels ELSE x.buf[i]
<1> DEFINE y == [x EXCEPT !.dict = d, !.expires = e, !.watch = w, !.wseq = k,
                          !.dirty[i] = m, !.buf[i] = q]
<1>1. ReapAll(x, i, v) = y
  BY DEF ReapAll
<1>2. n \in Nat
  OBVIOUS
<1>3. /\ d \in [Slots -> Entry \cup {Absent}]
      /\ e \in [Slots -> Nat \cup {Absent}]
      /\ \A s \in Slots : e[s] = IF d[s] = Absent THEN Absent ELSE d[s].exp
  <2> HIDE DEF gone
  <2>1. QED
    BY DEF Good, CtxType, Sync
<1>4. ASSUME NEW b, NEW z \in Nat PROVE first(b, z) \in Nat
  <2> DEFINE J == {j \in 1..z : Home(v[j]) = b}
  <2>1. IsFiniteSet(1..z)
    BY FS_Interval
  <2>2. IsFiniteSet(J)
    BY <2>1, FS_Subset
  <2>3. Cardinality(J) \in Nat
    BY <2>2, FS_CardinalityType
  <2>4. QED
    BY <2>3
<1>5. w \in [Slots -> Nat \cup {Absent}]
  <2>1. \A s \in gone : \E j \in 1..n : v[j] = s
    BY DEF Range
  <2>2. \A s \in gone : place(s) \in 1..n
    BY <2>1
  <2>3. x.wseq \in [DBs \X Shards -> Nat] /\ x.watch \in [Slots -> Nat \cup {Absent}]
    BY DEF Good, CtxType
  <2> HIDE DEF gone, place, n, first
  <2>4. \A s \in gone : first(Home(s), place(s)) \in Nat
    BY <1>2, <1>4, <2>2
  <2>5. \A s \in Slots : x.wseq[Home(s)] \in Nat
    BY <2>3, HomeType
  <2>6. QED
    BY <2>3, <2>4, <2>5
<1>6. k \in [DBs \X Shards -> Nat]
  <2> HIDE DEF watched, n, first
  <2>1. \A b \in DBs \X Shards : first(b, n) \in Nat /\ x.wseq[b] \in Nat
    BY <1>2, <1>4 DEF Good, CtxType
  <2>2. QED
    BY <2>1
<1>7. m \in 0..DirtyWrap-1
  <2>1. x.dirty \in [Shards -> 0..DirtyWrap-1]
    BY DEF Good, CtxType
  <2>2. x.dirty[i] + n \in Nat
    <3> HIDE DEF n
    <3>1. x.dirty[i] \in 0..DirtyWrap-1
      BY <1>2, <2>1
    <3>2. x.dirty[i] \in Nat
      BY <3>1, KeyspaceConstants
    <3>3. QED
      BY <1>2, <3>2
  <2> DEFINE r == x.dirty[i] + n
  <2> HIDE DEF r
  <2>3. r % DirtyWrap \in 0..DirtyWrap-1
    BY <2>2, KeyspaceConstants DEF r
  <2>4. QED
    BY <2>3 DEF r
<1>8. q \in Seq(Command)
  <2>1. \A j \in 1..n : Del(v[j][1], v[j][2]) \in Command
    <3>1. \A j \in 1..n : v[j] \in Slots
      BY <1>2
    <3>2. \A j \in 1..n : v[j][1] \in DBs /\ v[j][2] \in Keys
      BY <3>1 DEF Slots
    <3>3. QED
      BY <3>2, DelType
  <2>2. dels \in Seq(Command)
    BY <1>2, <2>1
  <2>3. x.buf[i] \in Seq(Command)
    BY DEF Good, CtxType
  <2> HIDE DEF dels
  <2>4. QED
    BY <2>2, <2>3
<1> HIDE DEF d, e, w, k, m, q
<1>9. y \in CtxType /\ y.dict = d /\ y.expires = e /\ y.db = x.db /\ y.now = x.now
  BY <1>3, <1>5, <1>6, <1>7, <1>8 DEF Good, CtxType
<1> HIDE DEF y
<1>10. Step(x, y)
  BY <1>3, <1>9 DEF Step, Good, Sync
<1>11. QED
  BY <1>1, <1>9, <1>10 DEF d

LEMMA OrderType ==
  ASSUME NEW D \in SUBSET Slots, NEW v \in [1..Cardinality(D) -> D]
  PROVE  v \in Seq(Slots)
<1> DEFINE k == Cardinality(D)
<1>1. k \in Nat
  BY SlotsFinite
<1>2. v \in [1..k -> D]
  OBVIOUS
<1> HIDE DEF k
<1>3. QED
  BY <1>1, <1>2

LEMMA SampleRoundStep ==
  ASSUME IInv, NEW a \in Actors, NEW d \in DBs, NEW i \in Shards,
         SampleRound(a, d, i)
  PROVE  /\ IInv'
         /\ \A s \in Slots : dict'[s] # dict[s] =>
              /\ dict[s].exp # Absent /\ dict[s].exp <= now
              /\ dict'[s] = Absent
<1> DEFINE index == {s \in Slots : Home(s) = <<d, i>> /\ expires[s] # Absent}
<1> DEFINE dead(w) == {s \in w : expires[s] <= at[a]}
<1> DEFINE x == NewCtx(at[a], d)
<1>1. at[a] \in Nat /\ at[a] <= now /\ now' = now
  BY DEF SampleRound, IInv, TypeOK, AtInv
<1>2. Good(x) /\ x.dict = dict
  BY <1>1, NewCtxGood DEF IInv
<1>3. at' \in [Actors -> Nat \cup {Idle}] /\ AtInv'
  BY <1>1 DEF SampleRound, IInv, TypeOK, AtInv
<1> DEFINE orders(w) == [1..Cardinality(dead(w)) -> dead(w)]
<1>0. PICK w \in SUBSET index : \E v \in orders(w) :
        Range(v) = dead(w) /\ Commit(ReapAll(x, i, v))
  BY DEF SampleRound
<1>4. PICK v \in orders(w) :
        Range(v) = dead(w) /\ Commit(ReapAll(x, i, v))
  BY <1>0
<1>5. dead(w) \in SUBSET Slots
  OBVIOUS
<1>6. v \in Seq(Slots)
  BY <1>4, <1>5, OrderType
<1> DEFINE y == ReapAll(x, i, v)
<1> HIDE DEF x
<1>7. Step(x, y) /\ y.dict = [s \in Slots |-> IF s \in Range(v) THEN Absent
                                                                ELSE dict[s]]
  BY <1>2, <1>6, ReapAllGood
<1>8. Commit(y)
  BY <1>4
<1> HIDE DEF y
<1>9. TypeOK' /\ IndexInSync'
  BY <1>1, <1>3, <1>7, <1>8, CommitGood DEF Step, IInv
<1>10. ASSUME NEW s \in Slots, dict'[s] # dict[s]
       PROVE  dict[s].exp # Absent /\ dict[s].exp <= now /\ dict'[s] = Absent
  <2>1. s \in dead(w) /\ dict'[s] = Absent
    BY <1>4, <1>7, <1>8, <1>10 DEF Commit
  <2>2. expires[s] # Absent /\ expires[s] <= at[a]
    BY <2>1
  <2>3. expires[s] = dict[s].exp /\ expires[s] \in Nat /\ now \in Nat
    BY <2>2 DEF IInv, IndexInSync, TypeOK
  <2>4. QED
    BY <1>1, <2>1, <2>2, <2>3
<1>11. QED
  BY <1>3, <1>9, <1>10 DEF IInv

LEMMA EvictBatchStep ==
  ASSUME IInv, NEW i \in Shards, EvictBatch(i)
  PROVE  IInv'
<1> DEFINE x == NewCtx(now, 0)
<1> DEFINE U == UNION {Evictable(d, i) : d \in DBs}
<1>1. now \in Nat /\ now' = now /\ at' = at
  BY KeyspaceConstants DEF EvictBatch, IInv, TypeOK
<1>2. Good(x)
  BY <1>1, NewCtxGood, KeyspaceConstants DEF IInv
<1>3. U \subseteq Slots
  BY DEF Evictable
<1>4. PICK D \in SUBSET U : \E v \in [1..Cardinality(D) -> D] :
        Commit(ReapAll(x, i, v))
  BY DEF EvictBatch
<1>5. PICK v \in [1..Cardinality(D) -> D] : Commit(ReapAll(x, i, v))
  BY <1>4
<1>6. v \in Seq(Slots)
  BY <1>3, <1>4, <1>5, OrderType
<1> HIDE DEF x
<1>7. Good(ReapAll(x, i, v))
  BY <1>2, <1>6, ReapAllGood DEF Step
<1>8. at' \in [Actors -> Nat \cup {Idle}]
  BY <1>1 DEF IInv, TypeOK
<1>9. TypeOK' /\ IndexInSync'
  BY <1>1, <1>5, <1>7, <1>8, CommitGood DEF IInv
<1>10. QED
  BY <1>1, <1>9 DEF IInv, AtInv

(* What the eviction task takes under a volatile policy has a deadline in  *)
(* the index, and therefore in its entry.                                  *)
LEMMA EvictBatchSpares ==
  ASSUME IInv, Policy = "volatile", NEW i \in Shards, EvictBatch(i),
         NEW s \in Slots, dict'[s] # dict[s]
  PROVE  dict[s].exp # Absent
<1> DEFINE x == NewCtx(now, 0)
<1> DEFINE U == UNION {Evictable(d, i) : d \in DBs}
<1>1. now \in Nat /\ U \subseteq Slots
  BY KeyspaceConstants DEF IInv, TypeOK, Evictable
<1>2. Good(x) /\ x.dict = dict
  BY <1>1, NewCtxGood, KeyspaceConstants DEF IInv
<1>3. PICK D \in SUBSET U : \E v \in [1..Cardinality(D) -> D] :
        Range(v) = D /\ Commit(ReapAll(x, i, v))
  BY DEF EvictBatch
<1>4. PICK v \in [1..Cardinality(D) -> D] : Range(v) = D /\ Commit(ReapAll(x, i, v))
  BY <1>3
<1>5. v \in Seq(Slots)
  BY <1>1, <1>3, <1>4, OrderType
<1> DEFINE y == ReapAll(x, i, v)
<1> HIDE DEF x
<1>6. y.dict = [t \in Slots |-> IF t \in Range(v) THEN Absent ELSE dict[t]]
  BY <1>2, <1>5, ReapAllGood
<1>7. Commit(y)
  BY <1>4
<1> HIDE DEF y
<1>8. s \in U
  BY <1>3, <1>4, <1>6, <1>7 DEF Commit
<1>9. dict[s] # Absent /\ expires[s] # Absent
  BY <1>8 DEF Evictable
<1>10. QED
  BY <1>9 DEF IInv, IndexInSync

-----------------------------------------------------------------------------
(* The theorems.                                                           *)

LEMMA InitIInv == Init => IInv
BY KeyspaceConstants DEF Init, IInv, TypeOK, IndexInSync, AtInv

LEMMA NextIInv == IInv /\ [Next]_vars => IInv'
<1> SUFFICES ASSUME IInv, [Next]_vars PROVE IInv'
  OBVIOUS
<1>1. ASSUME NEW a \in Actors, ReadClock(a) PROVE IInv'
  BY <1>1 DEF IInv, TypeOK, IndexInSync, AtInv, ReadClock
<1>2. CASE Tick
  <2>1. now \in Nat /\ MaxTime \in Nat /\ now < MaxTime /\ now' = now + 1
    BY <1>2, KeyspaceConstants DEF IInv, TypeOK, Tick
  <2>2. UNCHANGED <<dict, expires, watch, wseq, dirty, buf, at>>
    BY <1>2 DEF Tick
  <2>3. now' \in 0..MaxTime
    BY <2>1
  <2>4. TypeOK' /\ IndexInSync'
    BY <2>2, <2>3 DEF IInv, TypeOK, IndexInSync
  <2>5. AtInv'
    <3>1. \A a \in Actors : at[a] # Idle => at[a] \in Nat /\ at[a] <= now
      BY DEF IInv, TypeOK, AtInv
    <3>2. QED
      BY <2>1, <2>2, <3>1 DEF AtInv
  <2>6. QED
    BY <2>4, <2>5 DEF IInv
<1>3. CASE UNCHANGED vars
  BY <1>3 DEF IInv, TypeOK, IndexInSync, AtInv, vars
<1>4. QED
  BY <1>1, <1>2, <1>3, ExecuteStep, SampleRoundStep, EvictBatchStep DEF Next

(* The inductive invariant holds in every reachable state.                 *)
THEOREM KeyspaceInvariant == Spec => []IInv
BY InitIInv, NextIInv, PTL DEF Spec

(* Type correctness.                                                       *)
THEOREM KeyspaceTypeCorrect == Spec => []TypeOK
<1>1. IInv => TypeOK
  BY DEF IInv
<1>2. QED
  BY KeyspaceInvariant, <1>1, PTL

(* Entries and expiry index agree after every command, sweep and flush.    *)
THEOREM KeyspaceIndexInSync == Spec => []IndexInSync
<1>1. IInv => IndexInSync
  BY DEF IInv
<1>2. QED
  BY KeyspaceInvariant, <1>1, PTL

(* Neither lazy expiry in a read command nor the active cycle removes or   *)
(* changes a key whose deadline has not passed.                            *)
THEOREM KeyspaceOnlyDeadKeysReaped == Spec => OnlyDeadKeysReaped
<1>1. IInv /\ [Next]_vars =>
        [Reaping => \A s \in Slots : dict'[s] # dict[s] =>
           /\ dict[s].exp # Absent /\ dict[s].exp <= now
           /\ dict'[s] = Absent]_vars
  BY ExecuteStep, SampleRoundStep DEF Reaping
<1>2. QED
  BY KeyspaceInvariant, <1>1, PTL DEF Spec, OnlyDeadKeysReaped

(* Under a volatile policy eviction takes no key without a deadline,       *)
(* although it decides by the index alone.                                 *)
THEOREM KeyspacePlainKeysSurvive == Spec => PlainKeysSurvive
<1>1. IInv /\ [Next]_vars =>
        [/\ Policy = "volatile"
         /\ \E s \in Slots : dict[s] # Absent /\ dict[s].exp = Absent /\ dict'[s] # dict[s]
         => ~\E i \in Shards : EvictBatch(i)]_vars
  BY EvictBatchSpares
<1>2. QED
  BY KeyspaceInvariant, <1>1, PTL DEF Spec, PlainKeysSurvive

-----------------------------------------------------------------------------
(* What a change leaves behind.                                            *)

(* The counters of watched keys never run ahead of the sequence they are   *)
(* drawn from.                                                             *)
Ordered(x) ==
  \A s \in Slots : x.watch[s] # Absent => x.watch[s] <= x.wseq[Home(s)]

Fit(x) == Good(x) /\ Ordered(x)

(* The modification counter is wide enough not to come round in one step.  *)
Wide == DirtyWrap > 4 /\ DirtyWrap > Cardinality(Slots)

(* b is a after k modifications.                                           *)
Advanced(a, b, k) == b = a + k \/ b = a + k - DirtyWrap

(* The method that leads from x to y changes entries of C only, signals    *)
(* every watched slot of B and counts on every shard of P, at most m times *)
(* on any shard.                                                           *)
Acts(x, y, C, B, P, m) ==
  /\ Step(x, y)
  /\ Ordered(y)
  /\ \A s \in Slots : s \notin C => y.dict[s] = x.dict[s]
  /\ \A s \in Slots : y.watch[s] = Absent <=> x.watch[s] = Absent
  /\ \A s \in Slots : x.watch[s] # Absent =>
        /\ x.watch[s] <= y.watch[s]
        /\ s \in B => x.watch[s] < y.watch[s]
  /\ Wide => \A i \in Shards : \E k \in 0..m :
        Advanced(x.dirty[i], y.dirty[i], k) /\ (i \in P => k # 0)

(* What a handler promises: whoever watches a changed slot sees another    *)
(* counter, ...                                                            *)
Signals(x, y) ==
  /\ Step(x, y)
  /\ Ordered(y)
  /\ \A s \in Slots : y.watch[s] = Absent <=> x.watch[s] = Absent
  /\ \A s \in Slots : x.watch[s] # Absent =>
        /\ x.watch[s] <= y.watch[s]
        /\ y.dict[s] # x.dict[s] => x.watch[s] < y.watch[s]

(* ... and the shard of a changed slot has another modification counter.   *)
Counts(x, y, m) ==
  Wide => \A i \in Shards : \E k \in 0..m :
    /\ Advanced(x.dirty[i], y.dirty[i], k)
    /\ (\E s \in Slots : ShardOf[s[2]] = i /\ y.dict[s] # x.dict[s]) => k # 0

Does(x, y, m) == Signals(x, y) /\ Counts(x, y, m)

-----------------------------------------------------------------------------
(* How these relations add up.                                             *)

LEMMA WatchTypes ==
  ASSUME NEW x, Good(x), NEW s \in Slots
  PROVE  /\ x.watch[s] # Absent => x.watch[s] \in Nat
         /\ x.wseq[Home(s)] \in Nat
BY HomeType DEF Good, CtxType

LEMMA DirtyTypes ==
  ASSUME NEW x, Good(x), NEW i \in Shards
  PROVE  x.dirty[i] \in 0..DirtyWrap-1 /\ DirtyWrap \in Nat \ {0}
BY KeyspaceConstants DEF Good, CtxType

LEMMA WideTypes == Wide => Cardinality(Slots) \in Nat /\ DirtyWrap \in Nat
BY SlotsFinite, KeyspaceConstants

LEMMA AdvancedTrans ==
  ASSUME NEW a \in 0..DirtyWrap-1, NEW b \in 0..DirtyWrap-1,
         NEW e \in 0..DirtyWrap-1, NEW k \in Nat, NEW l \in Nat,
         Advanced(a, b, k), Advanced(b, e, l), k + l < DirtyWrap
  PROVE  Advanced(a, e, k + l)
BY KeyspaceConstants DEF Advanced

LEMMA ActsTrans ==
  ASSUME NEW x, NEW y, NEW z, Fit(x),
         NEW C1, NEW C2, NEW B1, NEW B2, NEW P1, NEW P2,
         NEW m \in Nat, NEW n \in Nat, m + n <= 4,
         Acts(x, y, C1, B1, P1, m), Acts(y, z, C2, B2, P2, n),
         NEW C, NEW B, NEW P, C1 \cup C2 \subseteq C,
         B \subseteq B1 \cup B2, P \subseteq P1 \cup P2
  PROVE  Acts(x, z, C, B, P, m + n)
<1>1. Good(x) /\ Good(y) /\ Good(z) /\ Step(x, z) /\ Ordered(z)
  BY StepTrans DEF Acts, Fit, Step
<1>2. \A s \in Slots : s \notin C => z.dict[s] = x.dict[s]
  BY DEF Acts
<1>3. \A s \in Slots : z.watch[s] = Absent <=> x.watch[s] = Absent
  BY DEF Acts
<1>4. ASSUME NEW s \in Slots, x.watch[s] # Absent
      PROVE  /\ x.watch[s] <= z.watch[s]
             /\ s \in B => x.watch[s] < z.watch[s]
  <2>1. /\ y.watch[s] # Absent /\ z.watch[s] # Absent
        /\ x.watch[s] <= y.watch[s] /\ (s \in B1 => x.watch[s] < y.watch[s])
        /\ y.watch[s] <= z.watch[s] /\ (s \in B2 => y.watch[s] < z.watch[s])
    BY <1>3, <1>4 DEF Acts
  <2>2. x.watch[s] \in Nat /\ y.watch[s] \in Nat /\ z.watch[s] \in Nat
    BY <1>1, <1>4, <2>1, WatchTypes
  <2>3. QED
    BY <2>1, <2>2
<1>5. ASSUME Wide, NEW i \in Shards
      PROVE  \E k \in 0..m+n : /\ Advanced(x.dirty[i], z.dirty[i], k)
                               /\ i \in P => k # 0
  <2>1. PICK k \in 0..m : Advanced(x.dirty[i], y.dirty[i], k) /\ (i \in P1 => k # 0)
    BY <1>5 DEF Acts
  <2>2. PICK l \in 0..n : Advanced(y.dirty[i], z.dirty[i], l) /\ (i \in P2 => l # 0)
    BY <1>5 DEF Acts
  <2>3. k + l < DirtyWrap
    BY <1>5, <2>1, <2>2, KeyspaceConstants DEF Wide
  <2>4. Advanced(x.dirty[i], z.dirty[i], k + l)
    BY <1>1, <2>1, <2>2, <2>3, DirtyTypes, AdvancedTrans
  <2>5. k + l \in 0..m+n /\ (i \in P => k + l # 0)
    BY <2>1, <2>2
  <2>6. QED
    BY <2>4, <2>5
<1>6. QED
  BY <1>1, <1>2, <1>3, <1>4, <1>5 DEF Acts

(* A method that signals and counts whatever it changes.                   *)
LEMMA ActsDoes ==
  ASSUME NEW x, NEW y, NEW C, NEW B, NEW P, NEW m \in Nat,
         Acts(x, y, C, B, P, m), C \subseteq B,
         \A s \in C : ShardOf[s[2]] \in P
  PROVE  Does(x, y, m)
<1>1. Signals(x, y)
  BY DEF Acts, Signals
<1>2. ASSUME Wide, NEW i \in Shards
      PROVE  \E k \in 0..m :
               /\ Advanced(x.dirty[i], y.dirty[i], k)
               /\ (\E s \in Slots : ShardOf[s[2]] = i /\ y.dict[s] # x.dict[s])
                    => k # 0
  <2>1. PICK k \in 0..m : Advanced(x.dirty[i], y.dirty[i], k) /\ (i \in P => k # 0)
    BY <1>2 DEF Acts
  <2>2. ASSUME NEW s \in Slots, ShardOf[s[2]] = i, y.dict[s] # x.dict[s]
        PROVE  i \in P
    BY <2>2 DEF Acts
  <2>3. QED
    BY <2>1, <2>2
<1>3. Counts(x, y, m)
  BY <1>2 DEF Counts
<1>4. QED
  BY <1>1, <1>3 DEF Does

LEMMA DoesTrans ==
  ASSUME NEW x, NEW y, NEW z, Fit(x), NEW m \in Nat, NEW n \in Nat, m + n <= 4,
         Does(x, y, m), Does(y, z, n)
  PROVE  Does(x, z, m + n)
<1>1. Good(x) /\ Good(y) /\ Good(z) /\ Step(x, z) /\ Ordered(z)
  BY StepTrans DEF Does, Signals, Fit, Step
<1>2. \A s \in Slots : z.watch[s] = Absent <=> x.watch[s] = Absent
  BY DEF Does, Signals
<1>3. ASSUME NEW s \in Slots, x.watch[s] # Absent
      PROVE  /\ x.watch[s] <= z.watch[s]
             /\ z.dict[s] # x.dict[s] => x.watch[s] < z.watch[s]
  <2>1. /\ y.watch[s] # Absent /\ z.watch[s] # Absent
        /\ x.watch[s] <= y.watch[s]
        /\ y.dict[s] # x.dict[s] => x.watch[s] < y.watch[s]
        /\ y.watch[s] <= z.watch[s]
        /\ z.dict[s] # y.dict[s] => y.watch[s] < z.watch[s]
    BY <1>2, <1>3 DEF Does, Signals
  <2>2. x.watch[s] \in Nat /\ y.watch[s] \in Nat /\ z.watch[s] \in Nat
    BY <1>1, <1>3, <2>1, WatchTypes
  <2>3. QED
    BY <2>1, <2>2
<1>4. ASSUME Wide, NEW i \in Shards
      PROVE  \E k \in 0..m+n :
               /\ Advanced(x.dirty[i], z.dirty[i], k)
               /\ (\E s \in Slots : ShardOf[s[2]] = i /\ z.dict[s] # x.dict[s])
                    => k # 0
  <2>1. PICK k \in 0..m :
          /\ Advanced(x.dirty[i], y.dirty[i], k)
          /\ (\E s \in Slots : ShardOf[s[2]] = i /\ y.dict[s] # x.dict[s]) => k # 0
    BY <1>4 DEF Does, Counts
  <2>2. PICK l \in 0..n :
          /\ Advanced(y.dirty[i], z.dirty[i], l)
          /\ (\E s \in Slots : ShardOf[s[2]] = i /\ z.dict[s] # y.dict[s]) => l # 0
    BY <1>4 DEF Does, Counts
  <2>3. k + l < DirtyWrap
    BY <1>4, <2>1, <2>2, KeyspaceConstants DEF Wide
  <2>4. Advanced(x.dirty[i], z.dirty[i], k + l)
    BY <1>1, <2>1, <2>2, <2>3, DirtyTypes, AdvancedTrans
  <2>5. k + l \in 0..m+n
    BY <2>1, <2>2
  <2>6. ASSUME NEW s \in Slots, ShardOf[s[2]] = i, z.dict[s] # x.dict[s]
        PROVE  k + l # 0
    <3>1. k # 0 \/ l # 0
      BY <2>1, <2>2, <2>6
    <3>2. QED
      BY <3>1, <2>1, <2>2
  <2>7. QED
    BY <2>4, <2>5, <2>6
<1>5. QED
  BY <1>1, <1>2, <1>3, <1>4 DEF Does, Signals, Counts

-----------------------------------------------------------------------------
(* Methods of Db and Ctx.                                                  *)

LEMMA Uncounted ==
  ASSUME NEW x, NEW y, Good(x), y.dirty = x.dirty, NEW i \in Shards
  PROVE  \E k \in 0..0 : Advanced(x.dirty[i], y.dirty[i], k)
<1>1. Advanced(x.dirty[i], y.dirty[i], 0)
  BY DirtyTypes DEF Advanced
<1>2. 0 \in 0..0
  OBVIOUS
<1>3. QED
  BY <1>1, <1>2

(* A method that changes at most the entry of s and no counter.            *)
LEMMA EditActs ==
  ASSUME NEW x, NEW y, NEW C, Fit(x), Step(x, y),
         \A r \in Slots : r \notin C => y.dict[r] = x.dict[r],
         y.watch = x.watch, y.wseq = x.wseq, y.dirty = x.dirty
  PROVE  Acts(x, y, C, {}, {}, 0)
<1>1. Good(x) /\ Ordered(y)
  BY DEF Fit, Ordered
<1>2. \A s \in Slots : x.watch[s] # Absent => x.watch[s] <= y.watch[s]
  BY <1>1, WatchTypes
<1>3. \A i \in Shards : \E k \in 0..0 : Advanced(x.dirty[i], y.dirty[i], k)
  BY <1>1, Uncounted
<1>4. QED
  BY <1>1, <1>2, <1>3 DEF Acts

LEMMA SetEntryActs ==
  ASSUME NEW x, Fit(x), NEW s \in Slots, NEW e \in Entry
  PROVE  Acts(x, SetEntry(x, s, e), {s}, {}, {}, 0)
<1> DEFINE y == SetEntry(x, s, e)
<1>1. Step(x, y)
  BY SetEntryGood DEF Fit
<1>2. /\ \A r \in Slots : r \notin {s} => y.dict[r] = x.dict[r]
      /\ y.watch = x.watch /\ y.wseq = x.wseq /\ y.dirty = x.dirty
  BY DEF Fit, Good, CtxType, SetEntry
<1> HIDE DEF y
<1>3. QED
  BY <1>1, <1>2, EditActs DEF y

LEMMA RemoveEntryActs ==
  ASSUME NEW x, Fit(x), NEW s \in Slots
  PROVE  Acts(x, RemoveEntry(x, s), {s}, {}, {}, 0)
<1> DEFINE y == RemoveEntry(x, s)
<1>1. Step(x, y)
  BY RemoveEntryGood DEF Fit
<1>2. /\ \A r \in Slots : r \notin {s} => y.dict[r] = x.dict[r]
      /\ y.watch = x.watch /\ y.wseq = x.wseq /\ y.dirty = x.dirty
  BY DEF Fit, Good, CtxType, RemoveEntry
<1> HIDE DEF y
<1>3. QED
  BY <1>1, <1>2, EditActs DEF y

LEMMA DbSetExpireActs ==
  ASSUME NEW x, Fit(x), NEW s \in Slots, x.dict[s] # Absent,
         NEW t \in Nat \cup {Absent}
  PROVE  Acts(x, DbSetExpire(x, s, t), {s}, {}, {}, 0)
<1> DEFINE y == DbSetExpire(x, s, t)
<1>1. Step(x, y)
  BY DbSetExpireGood DEF Fit
<1>2. /\ \A r \in Slots : r \notin {s} => y.dict[r] = x.dict[r]
      /\ y.watch = x.watch /\ y.wseq = x.wseq /\ y.dirty = x.dirty
  BY DEF Fit, Good, CtxType, DbSetExpire
<1> HIDE DEF y
<1>3. QED
  BY <1>1, <1>2, EditActs DEF y

(* The slot that is signalled gets a counter nobody has seen.              *)
LEMMA SignalWatchActs ==
  ASSUME NEW x, Fit(x), NEW s \in Slots
  PROVE  Acts(x, SignalWatch(x, s), {}, {s}, {}, 0)
<1> DEFINE y == SignalWatch(x, s)
<1>1. Step(x, y) /\ y.dict = x.dict
  BY SignalWatchGood DEF Fit
<1>2. y.dirty = x.dirty
  BY DEF Fit, Good, CtxType, SignalWatch
<1>3. Good(x) /\ Home(s) \in DBs \X Shards
  BY HomeType DEF Fit
<1>4. CASE \A r \in Slots : Home(r) = Home(s) => x.watch[r] = Absent
  <2>1. y = x /\ x.watch[s] = Absent
    BY <1>4 DEF SignalWatch
  <2> HIDE DEF y
  <2>2. Ordered(y) /\ \A r \in Slots : x.watch[r] # Absent =>
          x.watch[r] <= y.watch[r] /\ r # s
    BY <1>3, <2>1, WatchTypes DEF Fit
  <2>3. \A i \in Shards : \E k \in 0..0 : Advanced(x.dirty[i], y.dirty[i], k)
    BY <1>2, <1>3, Uncounted
  <2>4. Acts(x, y, {}, {s}, {}, 0)
    BY <1>1, <2>1, <2>2, <2>3 DEF Acts
  <2>5. QED
    BY <2>4 DEF y
<1>5. CASE ~(\A r \in Slots : Home(r) = Home(s) => x.watch[r] = Absent)
  <2> DEFINE n == x.wseq[Home(s)] + 1
  <2>1. /\ y.wseq = [x.wseq EXCEPT ![Home(s)] = n]
        /\ y.watch = [x.watch EXCEPT ![s] = IF x.watch[s] = Absent THEN x.watch[s]
                                            ELSE n]
    BY <1>5 DEF SignalWatch, Fit, Good, CtxType
  <2>2. x.wseq \in [DBs \X Shards -> Nat] /\ x.watch \in [Slots -> Nat \cup {Absent}]
    BY <1>3 DEF Good, CtxType
  <2>3. n \in Nat /\ n > x.wseq[Home(s)] /\ n # Absent
    BY <1>3, <2>2, KeyspaceConstants
  <2> HIDE DEF y, n
  <2>4. /\ \A b \in DBs \X Shards : y.wseq[b] = IF b = Home(s) THEN n ELSE x.wseq[b]
        /\ \A r \in Slots : y.watch[r] = IF r = s /\ x.watch[s] # Absent THEN n
                                         ELSE x.watch[r]
    BY <2>1, <2>2
  <2>5. ASSUME NEW r \in Slots
        PROVE  /\ y.watch[r] = Absent <=> x.watch[r] = Absent
               /\ x.watch[r] # Absent => /\ x.watch[r] <= y.watch[r]
                                         /\ r = s => x.watch[r] < y.watch[r]
                                         /\ y.watch[r] <= y.wseq[Home(r)]
    <3>1. /\ Home(r) \in DBs \X Shards
          /\ x.watch[r] # Absent => /\ x.watch[r] \in Nat
                                    /\ x.watch[r] <= x.wseq[Home(r)]
          /\ x.wseq[Home(r)] \in Nat
      BY <1>3, WatchTypes, HomeType DEF Fit, Ordered
    <3>2. QED
      BY <2>3, <2>4, <3>1
  <2>6. Ordered(y)
    BY <2>5 DEF Ordered
  <2>7. \A i \in Shards : \E k \in 0..0 : Advanced(x.dirty[i], y.dirty[i], k)
    BY <1>2, <1>3, Uncounted
  <2>8. Acts(x, y, {}, {s}, {}, 0)
    BY <1>1, <2>5, <2>6, <2>7 DEF Acts
  <2>9. QED
    BY <2>8 DEF y
<1>6. QED
  BY <1>4, <1>5

LEMMA Remainder ==
  ASSUME NEW a \in 0..DirtyWrap-1, NEW n \in Nat, n < DirtyWrap
  PROVE  Advanced(a, (a + n) % DirtyWrap, n)
<1>1. DirtyWrap \in Nat \ {0}
  BY KeyspaceConstants
<1>2. QED
  BY <1>1 DEF Advanced

LEMMA TouchActs ==
  ASSUME NEW x, Fit(x), NEW k \in Keys
  PROVE  Acts(x, Touch(x, k), {}, {}, {ShardOf[k]}, 1)
<1> DEFINE y == Touch(x, k)
<1>1. Step(x, y) /\ y.dict = x.dict
  BY TouchGood DEF Fit
<1>2. y.watch = x.watch /\ y.wseq = x.wseq
  BY DEF Fit, Good, CtxType, Touch, Count
<1>3. Good(x) /\ ShardOf[k] \in Shards /\ DirtyWrap \in Nat \ {0}
  BY KeyspaceConstants DEF Fit
<1>4. \A i \in Shards : y.dirty[i] = IF i = ShardOf[k] THEN (x.dirty[i] + 1) % DirtyWrap
                                     ELSE x.dirty[i]
  BY <1>3 DEF Good, CtxType, Touch, Count
<1> HIDE DEF y
<1>5. ASSUME Wide, NEW i \in Shards
      PROVE  \E j \in 0..1 : /\ Advanced(x.dirty[i], y.dirty[i], j)
                             /\ i \in {ShardOf[k]} => j # 0
  <2>1. x.dirty[i] \in 0..DirtyWrap-1 /\ 1 < DirtyWrap
    BY <1>3, <1>5, DirtyTypes DEF Wide
  <2>2. CASE i = ShardOf[k]
    <3>1. Advanced(x.dirty[i], (x.dirty[i] + 1) % DirtyWrap, 1)
      BY <1>3, <2>1, Remainder
    <3>2. QED
      BY <1>4, <2>2, <3>1
  <2>3. CASE i # ShardOf[k]
    <3>1. Advanced(x.dirty[i], y.dirty[i], 0)
      BY <1>4, <2>1, <2>3 DEF Advanced
    <3>2. QED
      BY <2>3, <3>1
  <2>4. QED
    BY <2>2, <2>3
<1>6. Ordered(y) /\ \A s \in Slots : x.watch[s] # Absent => x.watch[s] <= y.watch[s]
  BY <1>2, <1>3, WatchTypes DEF Fit, Ordered
<1>7. Acts(x, y, {}, {}, {ShardOf[k]}, 1)
  BY <1>1, <1>2, <1>5, <1>6 DEF Acts
<1>8. QED
  BY <1>7 DEF y

(* A method that changes neither entries nor counters.                     *)
Quiet(x, y) ==
  /\ Step(x, y)
  /\ y.dict = x.dict /\ y.watch = x.watch /\ y.wseq = x.wseq /\ y.dirty = x.dirty

LEMMA QuietActs ==
  ASSUME NEW x, NEW y, Fit(x), Quiet(x, y)
  PROVE  Acts(x, y, {}, {}, {}, 0) /\ Does(x, y, 0)
<1>1. Acts(x, y, {}, {}, {}, 0)
  BY EditActs DEF Quiet
<1>2. QED
  BY <1>1, ActsDoes

LEMMA QuietMethods ==
  ASSUME NEW x, Good(x)
  PROVE  /\ Quiet(x, x) /\ Quiet(x, PropagateNone(x)) /\ Quiet(x, Fail(x))
         /\ \A c \in Command : Quiet(x, Propagate(x, c))
         /\ \A c \in Command, i \in Shards : Quiet(x, Buffer(x, i, c))
<1>1. Quiet(x, x)
  BY DEF Quiet, Step
<1>2. Quiet(x, PropagateNone(x)) /\ Quiet(x, Fail(x))
  <2>1. Step(x, PropagateNone(x)) /\ Step(x, Fail(x))
    BY NoPropagationGood
  <2>2. QED
    BY <2>1 DEF Quiet, PropagateNone, Fail, Good, CtxType
<1>3. ASSUME NEW c \in Command PROVE Quiet(x, Propagate(x, c))
  <2>1. Step(x, Propagate(x, c))
    BY PropagateGood
  <2>2. QED
    BY <2>1 DEF Quiet, Propagate, Good, CtxType
<1>4. ASSUME NEW c \in Command, NEW i \in Shards PROVE Quiet(x, Buffer(x, i, c))
  <2>1. Step(x, Buffer(x, i, c))
    BY BufferGood
  <2>2. QED
    BY <2>1 DEF Quiet, Buffer, Good, CtxType
<1>5. QED
  BY <1>1, <1>2, <1>3, <1>4

LEMMA ActsFit ==
  ASSUME NEW x, NEW y, NEW C, NEW B, NEW P, NEW m, Acts(x, y, C, B, P, m)
  PROVE  Fit(y) /\ Good(y) /\ y.db = x.db /\ y.now = x.now
BY DEF Acts, Fit, Step

LEMMA DoesFit ==
  ASSUME NEW x, NEW y, NEW m, Does(x, y, m)
  PROVE  Fit(y) /\ Good(y) /\ y.db = x.db /\ y.now = x.now
BY DEF Does, Signals, Fit, Step

LEMMA SignalModifiedActs ==
  ASSUME NEW x, Fit(x), NEW k \in Keys
  PROVE  Acts(x, SignalModified(x, k), {}, {<<x.db, k>>}, {ShardOf[k]}, 1)
<1> DEFINE n == x.cdirty + 1
<1> DEFINE y1 == [x EXCEPT !.cdirty = n]
<1> DEFINE y2 == Touch(y1, k)
<1> DEFINE y3 == SignalWatch(y2, <<x.db, k>>)
<1>1. Quiet(x, y1)
  <2>1. n \in Nat
    BY DEF Fit, Good, CtxType
  <2> HIDE DEF n
  <2>2. /\ y1 \in CtxType /\ y1.dict = x.dict /\ y1.expires = x.expires
        /\ y1.db = x.db /\ y1.now = x.now
        /\ y1.watch = x.watch /\ y1.wseq = x.wseq /\ y1.dirty = x.dirty
    BY <2>1 DEF Fit, Good, CtxType
  <2> HIDE DEF y1
  <2>3. QED
    BY <2>2 DEF Quiet, Step, Fit, Good, Sync
<1>2. SignalModified(x, k) = y3
  BY DEF SignalModified
<1> HIDE DEF y1
<1>3. Acts(x, y1, {}, {}, {}, 0) /\ Fit(y1)
  BY <1>1, QuietActs, ActsFit
<1>4. Acts(y1, y2, {}, {}, {ShardOf[k]}, 1)
  BY <1>3, TouchActs
<1> HIDE DEF y2
<1>5. Acts(x, y2, {}, {}, {ShardOf[k]}, 0 + 1)
  BY <1>3, <1>4, ActsTrans, 0 + 1 <= 4
<1>6. Acts(x, y2, {}, {}, {ShardOf[k]}, 1)
  BY <1>5, 0 + 1 = 1
<1>7. Acts(y2, y3, {}, {<<x.db, k>>}, {}, 0)
  BY <1>4, <1>6, ActsFit, SlotType, SignalWatchActs DEF Fit
<1> HIDE DEF y3
<1>8. Acts(x, y3, {}, {<<x.db, k>>}, {ShardOf[k]}, 1 + 0)
  BY <1>6, <1>7, ActsTrans, 1 + 0 <= 4
<1>9. QED
  BY <1>2, <1>8, 1 + 0 = 1

LEMMA TakeEntryActs ==
  ASSUME NEW x, Fit(x), NEW s \in Slots
  PROVE  Acts(x, TakeEntry(x, s), {s}, {s}, {}, 0)
<1> DEFINE y == RemoveEntry(x, s)
<1> DEFINE z == SignalWatch(y, s)
<1>1. Acts(x, y, {s}, {}, {}, 0)
  BY RemoveEntryActs
<1>2. TakeEntry(x, s) = z
  BY DEF TakeEntry
<1> HIDE DEF y
<1>3. Acts(y, z, {}, {s}, {}, 0)
  BY <1>1, ActsFit, SignalWatchActs
<1> HIDE DEF z
<1>4. Acts(x, z, {s}, {s}, {}, 0 + 0)
  BY <1>1, <1>3, ActsTrans, 0 + 0 <= 4
<1>5. QED
  BY <1>2, <1>4, 0 + 0 = 0

LEMMA PutEntryActs ==
  ASSUME NEW x, Fit(x), NEW s \in Slots, NEW e \in Entry
  PROVE  Acts(x, PutEntry(x, s, e), {s}, {s}, {}, 0)
<1> DEFINE y == SignalWatch(x, s)
<1> DEFINE z == SetEntry(y, s, e)
<1>1. Acts(x, y, {}, {s}, {}, 0)
  BY SignalWatchActs
<1>2. PutEntry(x, s, e) = z
  BY DEF PutEntry
<1> HIDE DEF y
<1>3. Acts(y, z, {s}, {}, {}, 0)
  BY <1>1, ActsFit, SetEntryActs
<1> HIDE DEF z
<1>4. Acts(x, z, {s}, {s}, {}, 0 + 0)
  BY <1>1, <1>3, ActsTrans, 0 + 0 <= 4
<1>5. QED
  BY <1>2, <1>4, 0 + 0 = 0

LEMMA RelocateActs ==
  ASSUME NEW x, Fit(x), NEW s \in Slots, NEW r \in Slots, x.dict[s] # Absent
  PROVE  Acts(x, PutEntry(TakeEntry(x, s), r, x.dict[s]), {s, r}, {s, r}, {}, 0)
<1> DEFINE y == TakeEntry(x, s)
<1> DEFINE z == PutEntry(y, r, x.dict[s])
<1>1. Acts(x, y, {s}, {s}, {}, 0) /\ x.dict[s] \in Entry
  BY TakeEntryActs, EntryType DEF Fit
<1> HIDE DEF y
<1>2. Acts(y, z, {r}, {r}, {}, 0)
  BY <1>1, ActsFit, PutEntryActs
<1> HIDE DEF z
<1>3. Acts(x, z, {s, r}, {s, r}, {}, 0 + 0)
  BY <1>1, <1>2, ActsTrans, 0 + 0 <= 4
<1>4. QED
  BY <1>3, 0 + 0 = 0 DEF y, z

LEMMA ShardOfSlot ==
  ASSUME NEW d, NEW k
  PROVE  \A s \in {<<d, k>>} : ShardOf[s[2]] \in {ShardOf[k]}
OBVIOUS

LEMMA ExpireDoes ==
  ASSUME NEW x, Fit(x), NEW k \in Keys
  PROVE  Does(x, ExpireIfNeeded(x, k), 1)
<1> DEFINE s == <<x.db, k>>
<1> DEFINE y1 == TakeEntry(x, s)
<1> DEFINE y2 == Touch(y1, k)
<1> DEFINE y3 == Buffer(y2, ShardOf[k], Del(x.db, k))
<1>1. s \in Slots /\ ShardOf[k] \in Shards /\ Del(x.db, k) \in Command
  BY SlotType, DelType DEF Fit
<1>2. ExpireIfNeeded(x, k) = IF IsExpired(x, s) THEN y3 ELSE x
  BY DEF ExpireIfNeeded, TakeEntry
<1>3. Acts(x, x, {}, {}, {}, 0)
  BY QuietMethods, QuietActs DEF Fit
<1>4. Acts(x, y1, {s}, {s}, {}, 0) /\ Fit(y1)
  BY <1>1, TakeEntryActs, ActsFit
<1> HIDE DEF y1
<1>5. Acts(y1, y2, {}, {}, {ShardOf[k]}, 1) /\ Fit(y2)
  BY <1>4, TouchActs, ActsFit
<1> HIDE DEF y2
<1>6. Acts(x, y2, {s}, {s}, {ShardOf[k]}, 0 + 1)
  BY <1>4, <1>5, ActsTrans, 0 + 1 <= 4
<1>7. Acts(x, y2, {s}, {s}, {ShardOf[k]}, 1)
  BY <1>6, 0 + 1 = 1
<1>8. Acts(y2, y3, {}, {}, {}, 0)
  BY <1>1, <1>5, QuietMethods, QuietActs DEF Fit
<1> HIDE DEF y3
<1>9. Acts(x, y3, {s}, {s}, {ShardOf[k]}, 1 + 0)
  BY <1>7, <1>8, ActsTrans, 1 + 0 <= 4
<1>10. Does(x, y3, 1)
  BY <1>9, ActsDoes, ShardOfSlot, 1 + 0 = 1
<1>11. Does(x, x, 0 + 1)
  <2>1. Acts(x, x, {}, {}, {}, 0 + 1)
    BY <1>3 DEF Acts
  <2>2. QED
    BY <2>1, ActsDoes
<1>12. QED
  BY <1>2, <1>10, <1>11, 0 + 1 = 1

LEMMA InsertDoes ==
  ASSUME NEW x, Fit(x), NEW k \in Keys, NEW v \in Vals, NEW t \in Nat \cup {Absent}
  PROVE  Does(x, Insert(x, k, v, t), 1)
<1> DEFINE s == <<x.db, k>>
<1> DEFINE y == SignalModified(x, k)
<1> DEFINE z == SetEntry(y, s, [val |-> v, exp |-> t])
<1>1. Insert(x, k, v, t) = z
  BY DEF Insert
<1>2. s \in Slots /\ [val |-> v, exp |-> t] \in Entry
  BY SlotType DEF Fit, Entry
<1>3. Acts(x, y, {}, {s}, {ShardOf[k]}, 1) /\ Fit(y)
  BY SignalModifiedActs, ActsFit
<1> HIDE DEF y
<1>4. Acts(y, z, {s}, {}, {}, 0)
  BY <1>2, <1>3, SetEntryActs
<1> HIDE DEF z
<1>5. Acts(x, z, {s}, {s}, {ShardOf[k]}, 1 + 0)
  BY <1>3, <1>4, ActsTrans, 1 + 0 <= 4
<1>6. QED
  BY <1>1, <1>5, ActsDoes, ShardOfSlot, 1 + 0 = 1

(* Slots of the current database that a method changes before it signals.  *)
LEMMA EditThenSignal ==
  ASSUME NEW x, NEW y, Fit(x), NEW k \in Keys,
         Acts(x, y, {<<x.db, k>>}, {}, {}, 0)
  PROVE  Does(x, SignalModified(y, k), 1)
<1> DEFINE s == <<x.db, k>>
<1> DEFINE z == SignalModified(y, k)
<1>1. y.db = x.db /\ Fit(y)
  BY ActsFit
<1>2. Acts(y, z, {}, {s}, {ShardOf[k]}, 1)
  BY <1>1, SignalModifiedActs
<1> HIDE DEF z
<1>3. Acts(x, z, {s}, {s}, {ShardOf[k]}, 0 + 1)
  BY <1>2, ActsTrans, 0 + 1 <= 4
<1>4. QED
  BY <1>3, ActsDoes, ShardOfSlot, 0 + 1 = 1 DEF z

LEMMA RemoveDoes ==
  ASSUME NEW x, Fit(x), NEW k \in Keys
  PROVE  Does(x, Remove(x, k), 2)
<1> DEFINE y == ExpireIfNeeded(x, k)
<1> DEFINE z == SignalModified(RemoveEntry(y, <<y.db, k>>), k)
<1>1. Does(x, y, 1) /\ Fit(y) /\ Good(y)
  BY ExpireDoes, DoesFit
<1>2. Remove(x, k) = IF Exists(y, k) THEN z ELSE y
  BY DEF Remove
<1> HIDE DEF y
<1>3. Does(y, z, 1)
  BY <1>1, SlotType, RemoveEntryActs, EditThenSignal
<1> HIDE DEF z
<1>4. Does(x, z, 1 + 1)
  BY <1>1, <1>3, DoesTrans, 1 + 1 <= 4
<1>5. Does(x, y, 2)
  BY <1>1 DEF Does, Counts
<1>6. QED
  BY <1>2, <1>4, <1>5, 1 + 1 = 2

LEMMA SetExpireDoes ==
  ASSUME NEW x, Fit(x), NEW k \in Keys, Exists(x, k), NEW t \in Nat \cup {Absent}
  PROVE  Does(x, SetExpire(x, k, t), 1)
<1> DEFINE y == DbSetExpire(x, <<x.db, k>>, t)
<1>1. SetExpire(x, k, t) = SignalModified(y, k)
  BY DEF SetExpire
<1>2. Acts(x, y, {<<x.db, k>>}, {}, {}, 0)
  BY SlotType, DbSetExpireActs DEF Fit, Exists
<1> HIDE DEF y
<1>3. QED
  BY <1>1, <1>2, EditThenSignal

-----------------------------------------------------------------------------
(* Command handlers.                                                       *)

LEMMA DoesMore ==
  ASSUME NEW x, NEW y, NEW m \in Nat, NEW n \in Nat, m <= n, Does(x, y, m)
  PROVE  Does(x, y, n)
<1>1. \A k \in 0..m : k \in 0..n
  OBVIOUS
<1>2. QED
  BY <1>1 DEF Does, Counts

LEMMA DoesThen ==
  ASSUME NEW x, NEW y, NEW z, Fit(x), NEW m \in Nat, NEW n \in Nat, m + n <= 4,
         Does(x, y, m), Does(y, z, n)
  PROVE  Does(x, z, 4)
<1>1. Does(x, z, m + n)
  BY DoesTrans
<1>2. QED
  BY <1>1, DoesMore

LEMMA QuietAfter ==
  ASSUME NEW x, NEW y, NEW z, NEW m, Does(x, y, m), Quiet(y, z)
  PROVE  Does(x, z, m)
<1>1. Step(x, z)
  BY StepTrans DEF Does, Signals, Quiet
<1>2. Signals(x, z)
  BY <1>1 DEF Does, Signals, Quiet, Ordered
<1>3. Counts(x, z, m)
  BY DEF Does, Counts, Quiet
<1>4. QED
  BY <1>2, <1>3 DEF Does

LEMMA CmdReadDoes ==
  ASSUME NEW x, Fit(x), NEW c \in Commands
  PROVE  Does(x, CmdRead(x, c), 4)
<1> DEFINE y == ExpireIfNeeded(x, c.key)
<1> DEFINE z == ExpireIfNeeded(y, c.key2)
<1>1. Does(x, y, 1) /\ Fit(y)
  BY CmdType, ExpireDoes, DoesFit
<1>2. CmdRead(x, c) = z
  BY DEF CmdRead
<1> HIDE DEF y
<1>3. Does(y, z, 1)
  BY <1>1, CmdType, ExpireDoes
<1> HIDE DEF z
<1>4. QED
  BY <1>1, <1>2, <1>3, DoesThen, 1 + 1 <= 4

LEMMA CmdSetDoes ==
  ASSUME NEW x0, Fit(x0), NEW c \in Commands
  PROVE  Does(x0, CmdSet(x0, c), 4)
<1> DEFINE x == ExpireIfNeeded(x0, c.key)
<1> DEFINE s == <<x.db, c.key>>
<1> DEFINE t == IF "keepttl" \in c.opt
                THEN (IF Exists(x, c.key) THEN x.dict[s].exp ELSE Absent)
                ELSE (IF c.ttl = Absent THEN Absent ELSE Deadline(x, c))
<1> DEFINE y == Insert(x, c.key, c.val, t)
<1> DEFINE argv == [c EXCEPT !.cond = "always", !.ttl = t, !.opt = {"abs"}]
<1>1. Does(x0, x, 1) /\ Fit(x) /\ Good(x)
  BY CmdType, ExpireDoes, DoesFit
<1>2. CmdSet(x0, c) =
        IF \/ c.cond = "nx" /\ Exists(x, c.key)
           \/ c.cond = "xx" /\ ~Exists(x, c.key)
        THEN PropagateNone(x)
        ELSE IF t = Absent THEN y ELSE Propagate(y, argv)
  BY DEF CmdSet
<1> HIDE DEF x
<1>3. t \in Nat \cup {Absent}
  <2>1. s \in Slots /\ x.now \in Nat /\ c.ttl \in Nat \cup {Absent}
    BY <1>1, CmdType, SlotType DEF Good, CtxType
  <2>2. Exists(x, c.key) => x.dict[s].exp \in Nat \cup {Absent}
    BY <1>1, <2>1, EntryType DEF Exists
  <2>3. c.ttl # Absent => Deadline(x, c) \in Nat
    BY <2>1 DEF Deadline
  <2>4. QED
    BY <2>2, <2>3
<1> HIDE DEF t
<1>4. Does(x, y, 1) /\ Good(y)
  BY <1>1, <1>3, CmdType, InsertDoes, DoesFit
<1>5. argv \in Command
  BY <1>3, RewrittenType
<1> HIDE DEF y, argv
<1>6. Does(x0, y, 4) /\ Does(x0, x, 4)
  BY <1>1, <1>4, DoesThen, DoesMore, 1 + 1 <= 4, 1 <= 4
<1>7. Quiet(x, PropagateNone(x)) /\ Quiet(y, Propagate(y, argv))
  BY <1>1, <1>4, <1>5, QuietMethods
<1>8. QED
  BY <1>2, <1>6, <1>7, QuietAfter

LEMMA CmdMsetDoes ==
  ASSUME NEW x, Fit(x), NEW c \in Commands
  PROVE  Does(x, CmdMset(x, c), 4)
<1> DEFINE y == Insert(x, c.key, c.val, Absent)
<1> DEFINE z == Insert(y, c.key2, c.val, Absent)
<1>1. Does(x, y, 1) /\ Fit(y)
  BY CmdType, InsertDoes, DoesFit
<1>2. CmdMset(x, c) = z
  BY DEF CmdMset
<1> HIDE DEF y
<1>3. Does(y, z, 1)
  BY <1>1, CmdType, InsertDoes
<1> HIDE DEF z
<1>4. QED
  BY <1>1, <1>2, <1>3, DoesThen, 1 + 1 <= 4

LEMMA CmdDelDoes ==
  ASSUME NEW x, Fit(x), NEW c \in Commands
  PROVE  Does(x, CmdDel(x, c), 4)
<1> DEFINE y == Remove(x, c.key)
<1> DEFINE z == Remove(y, c.key2)
<1>1. Does(x, y, 2) /\ Fit(y)
  BY CmdType, RemoveDoes, DoesFit
<1>2. CmdDel(x, c) = z
  BY DEF CmdDel
<1> HIDE DEF y
<1>3. Does(y, z, 2)
  BY <1>1, CmdType, RemoveDoes
<1> HIDE DEF z
<1>4. QED
  BY <1>1, <1>2, <1>3, DoesThen, 2 + 2 <= 4

LEMMA CmdExpireDoes ==
  ASSUME NEW x0, Fit(x0), NEW c \in Commands, c.op = "expire"
  PROVE  Does(x0, CmdExpire(x0, c), 4)
<1> DEFINE x == ExpireIfNeeded(x0, c.key)
<1> DEFINE t == Deadline(x, c)
<1> DEFINE argv == [c EXCEPT !.cond = "always", !.ttl = t, !.opt = {"abs"}]
<1> DEFINE del == Del(x.db, c.key)
<1> DEFINE y == Remove(x, c.key)
<1> DEFINE z == SetExpire(x, c.key, t)
<1> DEFINE refused == \/ ~Exists(x, c.key)
                      \/ ~CondAllows(c.cond, x.dict[<<x.db, c.key>>].exp, t)
<1>1. Does(x0, x, 1) /\ Fit(x) /\ Good(x)
  BY CmdType, ExpireDoes, DoesFit
<1>2. CmdExpire(x0, c) =
        IF refused THEN PropagateNone(x)
        ELSE IF t <= x.now THEN Propagate(y, del)
        ELSE Propagate(z, argv)
  BY DEF CmdExpire
<1> HIDE DEF x
<1>3. t \in Nat
  <2>1. x.now \in Nat /\ c.ttl \in Nat
    BY <1>1, CmdType DEF Good, CtxType
  <2>2. QED
    BY <2>1 DEF Deadline
<1> HIDE DEF t
<1>4. Does(x, y, 2) /\ Good(y) /\ del \in Command
  BY <1>1, CmdType, RemoveDoes, DoesFit, DelType, SlotType
<1>5. Exists(x, c.key) => Does(x, z, 1) /\ Good(z)
  BY <1>1, <1>3, CmdType, SetExpireDoes, DoesFit
<1>6. argv \in Command
  BY <1>3, RewrittenType
<1>7. ~refused => Exists(x, c.key)
  OBVIOUS
<1> HIDE DEF refused, y, z, argv, del
<1>8. Does(x0, x, 4) /\ Does(x0, y, 4) /\ (Exists(x, c.key) => Does(x0, z, 4))
  <2>1. Does(x0, y, 4)
    BY <1>1, <1>4, DoesThen, 1 + 2 <= 4
  <2>2. Exists(x, c.key) => Does(x0, z, 4)
    BY <1>1, <1>5, DoesThen, 1 + 1 <= 4
  <2>3. QED
    BY <1>1, <2>1, <2>2, DoesMore, 1 <= 4
<1>9. /\ Quiet(x, PropagateNone(x)) /\ Quiet(y, Propagate(y, del))
      /\ Exists(x, c.key) => Quiet(z, Propagate(z, argv))
  BY <1>1, <1>4, <1>5, <1>6, QuietMethods
<1>10. QED
  BY <1>2, <1>7, <1>8, <1>9, QuietAfter

LEMMA CmdPersistDoes ==
  ASSUME NEW x0, Fit(x0), NEW c \in Commands
  PROVE  Does(x0, CmdPersist(x0, c), 4)
<1> DEFINE x == ExpireIfNeeded(x0, c.key)
<1> DEFINE z == SetExpire(x, c.key, Absent)
<1>1. Does(x0, x, 1) /\ Fit(x) /\ Good(x)
  BY CmdType, ExpireDoes, DoesFit
<1>2. CmdPersist(x0, c) =
        IF ~Exists(x, c.key) \/ x.dict[<<x.db, c.key>>].exp = Absent
        THEN PropagateNone(x) ELSE z
  BY DEF CmdPersist
<1> HIDE DEF x
<1>3. Exists(x, c.key) => Does(x, z, 1)
  BY <1>1, CmdType, SetExpireDoes
<1> HIDE DEF z
<1>4. Does(x0, x, 4) /\ (Exists(x, c.key) => Does(x0, z, 4))
  BY <1>1, <1>3, DoesMore, DoesThen, 1 <= 4, 1 + 1 <= 4
<1>5. Quiet(x, PropagateNone(x))
  BY <1>1, QuietMethods
<1>6. QED
  BY <1>2, <1>4, <1>5, QuietAfter

LEMMA CmdRestoreDoes ==
  ASSUME NEW x0, Fit(x0), NEW c \in Commands
  PROVE  Does(x0, CmdRestore(x0, c), 4)
<1> DEFINE x == ExpireIfNeeded(x0, c.key)
<1> DEFINE t == IF c.ttl \in {Absent, 0} THEN Absent ELSE Deadline(x, c)
<1> DEFINE y == Insert(x, c.key, c.val, t)
<1> DEFINE argv == [c EXCEPT !.ttl = t, !.opt = @ \cup {"abs"}]
<1>1. Does(x0, x, 1) /\ Fit(x) /\ Good(x)
  BY CmdType, ExpireDoes, DoesFit
<1>2. CmdRestore(x0, c) =
        IF (Exists(x, c.key) /\ "replace" \notin c.opt) \/ "valid" \notin c.opt
        THEN Fail(x)
        ELSE IF t = Absent \/ "abs" \in c.opt THEN y ELSE Propagate(y, argv)
  BY DEF CmdRestore
<1> HIDE DEF x
<1>3. t \in Nat \cup {Absent}
  <2>1. x.now \in Nat /\ c.ttl \in Nat \cup {Absent}
    BY <1>1, CmdType DEF Good, CtxType
  <2>2. QED
    BY <2>1 DEF Deadline
<1> HIDE DEF t
<1>4. Does(x, y, 1) /\ Good(y)
  BY <1>1, <1>3, CmdType, InsertDoes, DoesFit
<1>5. argv \in Command
  <2>1. c \in Command
    BY CmdType
  <2>2. QED
    BY <1>3, <2>1 DEF Command, Opts
<1> HIDE DEF y, argv
<1>6. Does(x0, y, 4) /\ Does(x0, x, 4)
  BY <1>1, <1>4, DoesThen, DoesMore, 1 + 1 <= 4, 1 <= 4
<1>7. Quiet(x, Fail(x)) /\ Quiet(y, Propagate(y, argv))
  BY <1>1, <1>4, <1>5, QuietMethods
<1>8. QED
  BY <1>2, <1>6, <1>7, QuietAfter

LEMMA CmdSortDoes ==
  ASSUME NEW x0, Fit(x0), NEW c \in Commands
  PROVE  Does(x0, CmdSort(x0, c), 4)
<1> DEFINE x == ExpireIfNeeded(x0, c.key)
<1> DEFINE y == Remove(x, c.key2)
<1> DEFINE del == Del(x.db, c.key2)
<1>1. Does(x0, x, 1) /\ Fit(x) /\ Good(x)
  BY CmdType, ExpireDoes, DoesFit
<1>2. CmdSort(x0, c) =
        IF Exists(x, c.key) THEN Fail(x)
        ELSE IF "store" \notin c.opt THEN x
        ELSE IF y.cdirty > x.cdirty THEN Propagate(y, del)
        ELSE PropagateNone(y)
  BY DEF CmdSort
<1> HIDE DEF x
<1>3. Does(x, y, 2) /\ Good(y) /\ del \in Command
  BY <1>1, CmdType, RemoveDoes, DoesFit, DelType, SlotType
<1> HIDE DEF y, del
<1>4. Does(x0, x, 4) /\ Does(x0, y, 4)
  BY <1>1, <1>3, DoesMore, DoesThen, 1 <= 4, 1 + 2 <= 4
<1>5. /\ Quiet(x, Fail(x)) /\ Quiet(y, Propagate(y, del))
      /\ Quiet(y, PropagateNone(y))
  BY <1>1, <1>3, QuietMethods
<1>6. QED
  BY <1>2, <1>4, <1>5, QuietAfter

(* RENAME counts both shards at the end, after taking and putting.         *)
LEMMA CmdRenameDoes ==
  ASSUME NEW x0, Fit(x0), NEW c \in Commands
  PROVE  Does(x0, CmdRename(x0, c), 4)
<1> DEFINE x == ExpireIfNeeded(x0, c.key)
<1> DEFINE src == <<x.db, c.key>>
<1> DEFINE dst == <<x.db, c.key2>>
<1> DEFINE i == ShardOf[c.key]
<1> DEFINE j == ShardOf[c.key2]
<1> DEFINE y == PutEntry(TakeEntry(x, src), dst, x.dict[src])
<1> DEFINE z == SignalModified(y, c.key)
<1> DEFINE u == SignalModified(z, c.key2)
<1>1. Does(x0, x, 1) /\ Fit(x) /\ Good(x)
  BY CmdType, ExpireDoes, DoesFit
<1>2. CmdRename(x0, c) =
        IF ~Exists(x, c.key) THEN Fail(x)
        ELSE IF src = dst \/ ("nx" \in c.opt /\ ExistsInDb(x, dst))
        THEN PropagateNone(x) ELSE u
  BY DEF CmdRename
<1> HIDE DEF x
<1>3. src \in Slots /\ dst \in Slots
  BY <1>1, CmdType, SlotType
<1>4. Exists(x, c.key) => x.dict[src] # Absent
  BY DEF Exists
<1>5. Quiet(x, PropagateNone(x)) /\ Quiet(x, Fail(x)) /\ Does(x0, x, 4)
  BY <1>1, QuietMethods, DoesMore, 1 <= 4
<1>6. \A s \in {src, dst} : ShardOf[s[2]] \in {i, j}
  OBVIOUS
<1>7. CASE Exists(x, c.key)
  <2>1. Acts(x, y, {src, dst}, {src, dst}, {}, 0) /\ Fit(y) /\ y.db = x.db
    <3> HIDE DEF src, dst
    <3>1. QED
      BY <1>1, <1>3, <1>4, <1>7, RelocateActs, ActsFit
  <2> HIDE DEF y
  <2>2. Acts(y, z, {}, {src}, {i}, 1) /\ Fit(z) /\ z.db = x.db
    BY <2>1, CmdType, SignalModifiedActs, ActsFit
  <2> HIDE DEF z
  <2>3. Acts(z, u, {}, {dst}, {j}, 1)
    BY <2>2, CmdType, SignalModifiedActs
  <2> HIDE DEF u, src, dst, i, j
  <2>4. Acts(x, z, {src, dst}, {src, dst}, {i}, 0 + 1)
    BY <1>1, <2>1, <2>2, ActsTrans, 0 + 1 <= 4
  <2>5. Acts(x, u, {src, dst}, {src, dst}, {i, j}, 1 + 1)
    BY <1>1, <2>3, <2>4, ActsTrans, 1 + 1 <= 4, 0 + 1 = 1
  <2>6. Does(x, u, 2)
    BY <1>6, <2>5, ActsDoes, 1 + 1 = 2
  <2>7. Does(x0, u, 4)
    BY <1>1, <2>6, DoesThen, 1 + 2 <= 4
  <2>8. QED
    BY <1>2, <1>5, <2>7, QuietAfter
<1>8. QED
  BY <1>2, <1>5, <1>7, QuietAfter

LEMMA CmdCopyDoes ==
  ASSUME NEW x0, Fit(x0), NEW c \in Commands
  PROVE  Does(x0, CmdCopy(x0, c), 4)
<1> DEFINE x == ExpireIfNeeded(x0, c.key)
<1> DEFINE src == <<x.db, c.key>>
<1> DEFINE dst == <<c.to, c.key2>>
<1> DEFINE j == ShardOf[c.key2]
<1> DEFINE p == PutEntry(x, dst, x.dict[src])
<1> DEFINE y == SignalModified(p, c.key2)
<1> DEFINE u == SignalWatch(y, dst)
<1>1. Does(x0, x, 1) /\ Fit(x) /\ Good(x)
  BY CmdType, ExpireDoes, DoesFit
<1>2. CmdCopy(x0, c) =
        IF src = dst THEN Fail(x0)
        ELSE IF ~Exists(x, c.key) \/ (ExistsInDb(x, dst) /\ "replace" \notin c.opt)
        THEN PropagateNone(x)
        ELSE IF c.to # x.db THEN u ELSE y
  BY DEF CmdCopy
<1> HIDE DEF x
<1>3. src \in Slots /\ dst \in Slots
  BY <1>1, CmdType, SlotType DEF Slots
<1>4. Exists(x, c.key) => x.dict[src] # Absent
  BY DEF Exists
<1>5. Quiet(x, PropagateNone(x)) /\ Does(x0, x, 4) /\ Does(x0, Fail(x0), 4)
  <2>1. Quiet(x0, Fail(x0)) /\ Quiet(x0, x0)
    BY QuietMethods DEF Fit
  <2>2. Does(x0, Fail(x0), 0)
    BY <2>1, QuietActs
  <2>3. QED
    BY <1>1, <2>2, QuietMethods, DoesMore, 1 <= 4, 0 <= 4
<1>6. \A s \in {dst} : ShardOf[s[2]] \in {j}
  OBVIOUS
<1>7. CASE Exists(x, c.key)
  <2> HIDE DEF src, dst
  <2>1. Acts(x, p, {dst}, {dst}, {}, 0) /\ Fit(p)
    BY <1>1, <1>3, <1>4, <1>7, EntryType, PutEntryActs, ActsFit
  <2> HIDE DEF p
  <2>2. Acts(p, y, {}, {<<p.db, c.key2>>}, {j}, 1) /\ Fit(y)
    BY <2>1, CmdType, SignalModifiedActs, ActsFit
  <2> HIDE DEF y
  <2>3. Acts(y, u, {}, {dst}, {}, 0)
    BY <1>3, <2>2, SignalWatchActs
  <2> HIDE DEF u, j
  <2>4. Acts(x, y, {dst}, {dst}, {j}, 0 + 1)
    BY <1>1, <2>1, <2>2, ActsTrans, 0 + 1 <= 4
  <2>5. Acts(x, u, {dst}, {dst}, {j}, 1 + 0)
    BY <1>1, <2>3, <2>4, ActsTrans, 1 + 0 <= 4, 0 + 1 = 1
  <2>6. Does(x, y, 1) /\ Does(x, u, 1)
    BY <1>6, <2>4, <2>5, ActsDoes, 0 + 1 = 1, 1 + 0 = 1
  <2>7. Does(x0, y, 4) /\ Does(x0, u, 4)
    BY <1>1, <2>6, DoesThen, 1 + 1 <= 4
  <2>8. QED
    BY <1>2, <1>5, <2>7, QuietAfter
<1>8. QED
  BY <1>2, <1>5, <1>7, QuietAfter

LEMMA CmdMoveDoes ==
  ASSUME NEW x0, Fit(x0), NEW c \in Commands
  PROVE  Does(x0, CmdMove(x0, c), 4)
<1> DEFINE x == ExpireIfNeeded(x0, c.key)
<1> DEFINE src == <<x.db, c.key>>
<1> DEFINE dst == <<c.to, c.key>>
<1> DEFINE i == ShardOf[c.key]
<1> DEFINE y == PutEntry(TakeEntry(x, src), dst, x.dict[src])
<1> DEFINE z == SignalModified(y, c.key)
<1> DEFINE u == SignalWatch(z, dst)
<1>1. Does(x0, x, 1) /\ Fit(x) /\ Good(x)
  BY CmdType, ExpireDoes, DoesFit
<1>2. CmdMove(x0, c) =
        IF c.to = x.db THEN Fail(x0)
        ELSE IF ~Exists(x, c.key) \/ ExistsInDb(x, dst)
        THEN PropagateNone(x) ELSE u
  BY DEF CmdMove
<1> HIDE DEF x
<1>3. src \in Slots /\ dst \in Slots
  BY <1>1, CmdType, SlotType DEF Slots
<1>4. Exists(x, c.key) => x.dict[src] # Absent
  BY DEF Exists
<1>5. Quiet(x, PropagateNone(x)) /\ Does(x0, x, 4) /\ Does(x0, Fail(x0), 4)
  <2>1. Quiet(x0, Fail(x0)) /\ Quiet(x0, x0)
    BY QuietMethods DEF Fit
  <2>2. Does(x0, Fail(x0), 0)
    BY <2>1, QuietActs
  <2>3. QED
    BY <1>1, <2>2, QuietMethods, DoesMore, 1 <= 4, 0 <= 4
<1>6. \A s \in {src, dst} : ShardOf[s[2]] \in {i}
  OBVIOUS
<1>7. CASE Exists(x, c.key)
  <2>1. Acts(x, y, {src, dst}, {src, dst}, {}, 0) /\ Fit(y) /\ y.db = x.db
    <3> HIDE DEF src, dst
    <3>1. QED
      BY <1>1, <1>3, <1>4, <1>7, RelocateActs, ActsFit
  <2> HIDE DEF y
  <2>2. Acts(y, z, {}, {src}, {i}, 1) /\ Fit(z)
    BY <2>1, CmdType, SignalModifiedActs, ActsFit
  <2> HIDE DEF z, src, dst
  <2>3. Acts(z, u, {}, {dst}, {}, 0)
    BY <1>3, <2>2, SignalWatchActs
  <2> HIDE DEF u, i
  <2>4. Acts(x, z, {src, dst}, {src, dst}, {i}, 0 + 1)
    BY <1>1, <2>1, <2>2, ActsTrans, 0 + 1 <= 4
  <2>5. Acts(x, u, {src, dst}, {src, dst}, {i}, 1 + 0)
    BY <1>1, <2>3, <2>4, ActsTrans, 1 + 0 <= 4, 0 + 1 = 1
  <2>6. Does(x, u, 1)
    BY <1>6, <2>5, ActsDoes, 1 + 0 = 1
  <2>7. Does(x0, u, 4)
    BY <1>1, <2>6, DoesThen, 1 + 1 <= 4
  <2>8. QED
    BY <1>2, <1>5, <2>7, QuietAfter
<1>8. QED
  BY <1>2, <1>5, <1>7, QuietAfter

(* The shard of a changed slot has another modification counter.           *)
Marks(x, y) ==
  Wide => \A s \in Slots :
    y.dict[s] # x.dict[s] => y.dirty[ShardOf[s[2]]] # x.dirty[ShardOf[s[2]]]

LEMMA Moved ==
  ASSUME NEW a \in 0..DirtyWrap-1, NEW b, NEW k \in Nat, k < DirtyWrap, k # 0,
         Advanced(a, b, k)
  PROVE  b # a
BY KeyspaceConstants DEF Advanced

LEMMA DoesMarks ==
  ASSUME NEW x, NEW y, Fit(x), Does(x, y, 4)
  PROVE  Signals(x, y) /\ Marks(x, y)
<1> SUFFICES ASSUME Wide, NEW s \in Slots, y.dict[s] # x.dict[s]
             PROVE  y.dirty[ShardOf[s[2]]] # x.dirty[ShardOf[s[2]]]
  BY DEF Does, Marks
<1> DEFINE i == ShardOf[s[2]]
<1>1. i \in Shards /\ x.dirty[i] \in 0..DirtyWrap-1
  <2>1. i \in Shards
    BY KeyspaceConstants DEF Slots
  <2>2. QED
    BY <2>1, DirtyTypes DEF Fit
<1>2. PICK k \in 0..4 : Advanced(x.dirty[i], y.dirty[i], k) /\ k # 0
  BY <1>1 DEF Does, Counts
<1>3. k \in Nat /\ k < DirtyWrap
  BY <1>2, KeyspaceConstants DEF Wide
<1>4. QED
  BY <1>1, <1>2, <1>3, Moved

-----------------------------------------------------------------------------
(* Flushing.                                                               *)

(* Db::clear gives all watched keys of a slice the next number at once.    *)
LEMMA ClearSignals ==
  ASSUME NEW x, Fit(x), NEW D
  PROVE  Signals(x, Clear(x, D)) /\ Clear(x, D).dirty = x.dirty
<1> DEFINE watched(b) == \E r \in Slots : Home(r) = b /\ x.watch[r] # Absent
<1> DEFINE seq == [b \in DBs \X Shards |->
                     IF b[1] \in D /\ watched(b) THEN x.wseq[b] + 1 ELSE x.wseq[b]]
<1> DEFINE w == [s \in Slots |-> IF s[1] \in D /\ x.watch[s] # Absent
                                 THEN seq[Home(s)] ELSE x.watch[s]]
<1> DEFINE d == [s \in Slots |-> IF s[1] \in D THEN Absent ELSE x.dict[s]]
<1> DEFINE e == [s \in Slots |-> IF s[1] \in D THEN Absent ELSE x.expires[s]]
<1> DEFINE y == Clear(x, D)
<1>1. y = [x EXCEPT !.wseq = seq, !.watch = w, !.dict = d, !.expires = e]
  BY DEF Clear
<1>2. Step(x, y)
  BY ClearGood DEF Fit
<1> HIDE DEF y
<1>3. y.wseq = seq /\ y.watch = w /\ y.dict = d /\ y.dirty = x.dirty
  <2> HIDE DEF seq, w, d, e
  <2>1. QED
    BY <1>1 DEF Fit, Good, CtxType
<1>4. ASSUME NEW s \in Slots
      PROVE  /\ y.watch[s] = Absent <=> x.watch[s] = Absent
             /\ x.watch[s] # Absent =>
                  /\ x.watch[s] <= y.watch[s]
                  /\ y.dict[s] # x.dict[s] => x.watch[s] < y.watch[s]
                  /\ y.watch[s] <= y.wseq[Home(s)]
  <2>1. /\ Home(s) \in DBs \X Shards /\ Home(s)[1] = s[1]
        /\ x.wseq[Home(s)] \in Nat
        /\ x.watch[s] # Absent => x.watch[s] \in Nat /\ x.watch[s] <= x.wseq[Home(s)]
    BY HomeType, WatchTypes DEF Fit, Ordered, Home
  <2>2. x.watch[s] # Absent => watched(Home(s))
    OBVIOUS
  <2> HIDE DEF watched
  <2>3. seq[Home(s)] = IF s[1] \in D /\ watched(Home(s)) THEN x.wseq[Home(s)] + 1
                       ELSE x.wseq[Home(s)]
    BY <2>1
  <2> HIDE DEF seq
  <2>4. /\ y.watch[s] = IF s[1] \in D /\ x.watch[s] # Absent THEN seq[Home(s)]
                        ELSE x.watch[s]
        /\ y.dict[s] # x.dict[s] => s[1] \in D
        /\ y.wseq[Home(s)] = seq[Home(s)]
    BY <1>3
  <2>5. QED
    BY <2>1, <2>2, <2>3, <2>4, KeyspaceConstants
<1>5. Ordered(y)
  BY <1>4 DEF Ordered
<1>6. Signals(x, y)
  BY <1>2, <1>4, <1>5 DEF Signals
<1>7. QED
  BY <1>3, <1>6 DEF y

LEMMA CmdFlushallDoes ==
  ASSUME NEW x, Fit(x), NEW c
  PROVE  Signals(x, CmdFlushall(x, c)) /\ Marks(x, CmdFlushall(x, c))
<1> DEFINE y == Clear(x, DBs)
<1> DEFINE d == [i \in Shards |-> (y.dirty[i] + Removed(x, DBs, i)) % DirtyWrap]
<1> DEFINE z == CmdFlushall(x, c)
<1>1. Signals(x, y) /\ y.dirty = x.dirty /\ Good(y)
  BY ClearSignals DEF Signals, Step
<1>2. z = [y EXCEPT !.dirty = d] /\ Step(x, z)
  BY FlushGood DEF CmdFlushall, Fit
<1>3. \A s \in Slots : y.dict[s] = Absent
  BY DEF Clear, Slots, Fit, Good, CtxType
<1> HIDE DEF y, z
<1>4. z.dict = y.dict /\ z.watch = y.watch /\ z.wseq = y.wseq /\ z.dirty = d
  <2> HIDE DEF d
  <2>1. QED
    BY <1>1, <1>2 DEF Good, CtxType
<1>5. Signals(x, z)
  BY <1>1, <1>2, <1>4 DEF Signals, Ordered
<1>6. ASSUME Wide, NEW s \in Slots, z.dict[s] # x.dict[s]
      PROVE  z.dirty[ShardOf[s[2]]] # x.dirty[ShardOf[s[2]]]
  <2> DEFINE i == ShardOf[s[2]]
  <2> DEFINE R == {r \in Slots : r[1] \in DBs /\ x.dict[r] # Absent /\ ShardOf[r[2]] <= i}
  <2>1. i \in Shards /\ i \in Nat /\ s[1] \in DBs /\ x.dict[s] # Absent
    BY <1>3, <1>4, <1>6, KeyspaceConstants DEF Slots
  <2>2. s \in R /\ R \in SUBSET Slots
    BY <2>1
  <2>3. Removed(x, DBs, i) = Cardinality(R)
    BY DEF Removed
  <2> HIDE DEF R
  <2>4. Cardinality(R) \in Nat /\ Cardinality(R) # 0
        /\ Cardinality(R) <= Cardinality(Slots) /\ Cardinality(Slots) \in Nat
    <3>1. IsFiniteSet(Slots)
      BY KeyspaceConstants, FS_Product DEF Slots
    <3>2. IsFiniteSet(R)
      BY <2>2, <3>1, FS_Subset
    <3>3. Cardinality(R) <= Cardinality(Slots)
      BY <2>2, <3>1, FS_Subset
    <3>4. Cardinality(R) # 0
      BY <2>2, <3>2, FS_EmptySet
    <3>5. QED
      BY <3>1, <3>2, <3>3, <3>4, FS_CardinalityType
  <2>5. z.dirty[i] = (x.dirty[i] + Cardinality(R)) % DirtyWrap
    BY <1>1, <1>4, <2>1, <2>3
  <2>6. x.dirty[i] \in 0..DirtyWrap-1 /\ DirtyWrap \in Nat
    BY <2>1, DirtyTypes DEF Fit
  <2>7. Cardinality(R) < DirtyWrap
    BY <1>6, <2>4, <2>6 DEF Wide
  <2> DEFINE n == Cardinality(R)
  <2> HIDE DEF n
  <2>8. Advanced(x.dirty[i], z.dirty[i], n)
    BY <2>4, <2>5, <2>6, <2>7, Remainder DEF n
  <2>9. QED
    BY <2>4, <2>6, <2>7, <2>8, Moved DEF n
<1>7. QED
  BY <1>5, <1>6 DEF Marks, z

-----------------------------------------------------------------------------
(* The background tasks.                                                   *)

(* Victims leave one after the other, each with a number of its own: the   *)
(* first one of a slice gets the number after the last one given.          *)
LEMMA ReapAllSignals ==
  ASSUME NEW x, Fit(x), NEW i \in Shards, NEW v \in Seq(Slots)
  PROVE  Signals(x, ReapAll(x, i, v))
<1> DEFINE n == Len(v)
<1> DEFINE gone == Range(v)
<1> DEFINE watched(b) == \E r \in Slots : Home(r) = b /\ x.watch[r] # Absent
<1> DEFINE among(b, m) == {j \in 1..m : Home(v[j]) = b}
<1> DEFINE first(b, m) == Cardinality(among(b, m))
<1> DEFINE place(s) == CHOOSE j \in 1..n : v[j] = s
<1> DEFINE w == [s \in Slots |-> IF s \in gone /\ x.watch[s] # Absent
                   THEN x.wseq[Home(s)] + first(Home(s), place(s))
                   ELSE x.watch[s]]
<1> DEFINE k == [b \in DBs \X Shards |->
                   IF watched(b) THEN x.wseq[b] + first(b, n) ELSE x.wseq[b]]
<1> DEFINE y == ReapAll(x, i, v)
<1>1. Step(x, y) /\ y.dict = [s \in Slots |-> IF s \in Range(v) THEN Absent
                                                                ELSE x.dict[s]]
  BY ReapAllGood DEF Fit
<1>2. y.watch = w /\ y.wseq = k
  BY DEF ReapAll, Fit, Good, CtxType
<1>3. n \in Nat
  OBVIOUS
<1>4. ASSUME NEW b, NEW m \in Nat
      PROVE  IsFiniteSet(among(b, m)) /\ first(b, m) \in Nat
  <2>1. IsFiniteSet(1..m) /\ among(b, m) \subseteq 1..m
    BY FS_Interval
  <2>2. IsFiniteSet(among(b, m))
    BY <2>1, FS_Subset
  <2>3. QED
    BY <2>2, FS_CardinalityType
<1>5. ASSUME NEW s \in gone
      PROVE  /\ first(Home(s), place(s)) >= 1
             /\ first(Home(s), place(s)) <= first(Home(s), n)
             /\ first(Home(s), place(s)) \in Nat
  <2>1. \E j \in 1..n : v[j] = s
    BY DEF Range
  <2>2. place(s) \in 1..n /\ v[place(s)] = s
    BY <2>1
  <2> HIDE DEF place, gone, n
  <2>3. place(s) \in among(Home(s), place(s))
    BY <1>3, <2>2
  <2>4. among(Home(s), place(s)) \subseteq among(Home(s), n)
    BY <1>3, <2>2
  <2> HIDE DEF among, first
  <2>5. /\ IsFiniteSet(among(Home(s), place(s))) /\ IsFiniteSet(among(Home(s), n))
        /\ first(Home(s), place(s)) \in Nat
    <3>1. place(s) \in Nat
      BY <1>3, <2>2
    <3>2. QED
      BY <1>3, <1>4, <3>1
  <2>6. first(Home(s), place(s)) # 0
    BY <2>3, <2>5, FS_EmptySet DEF first
  <2>7. first(Home(s), place(s)) <= first(Home(s), n)
    BY <2>4, <2>5, FS_Subset DEF first
  <2>8. QED
    BY <2>5, <2>6, <2>7
<1> HIDE DEF y, first, among, place, gone, n
<1>6. ASSUME NEW s \in Slots
      PROVE  /\ y.watch[s] = Absent <=> x.watch[s] = Absent
             /\ x.watch[s] # Absent =>
                  /\ x.watch[s] <= y.watch[s]
                  /\ y.dict[s] # x.dict[s] => x.watch[s] < y.watch[s]
                  /\ y.watch[s] <= y.wseq[Home(s)]
  <2>1. /\ Home(s) \in DBs \X Shards /\ x.wseq[Home(s)] \in Nat
        /\ x.watch[s] # Absent => x.watch[s] \in Nat /\ x.watch[s] <= x.wseq[Home(s)]
    BY HomeType, WatchTypes DEF Fit, Ordered
  <2>2. x.watch[s] # Absent => watched(Home(s))
    OBVIOUS
  <2> HIDE DEF watched
  <2>3. /\ y.watch[s] = IF s \in gone /\ x.watch[s] # Absent
                        THEN x.wseq[Home(s)] + first(Home(s), place(s))
                        ELSE x.watch[s]
        /\ y.wseq[Home(s)] = IF watched(Home(s))
                             THEN x.wseq[Home(s)] + first(Home(s), n)
                             ELSE x.wseq[Home(s)]
    BY <1>2, <2>1
  <2>4. y.dict[s] # x.dict[s] => s \in gone
    BY <1>1 DEF gone
  <2>5. first(Home(s), n) \in Nat
    BY <1>3, <1>4
  <2>6. CASE s \in gone
    <3> DEFINE f == first(Home(s), place(s))
               g == first(Home(s), n)
               h == x.wseq[Home(s)]
    <3>1. f \in Nat /\ g \in Nat /\ f # 0 /\ f <= g /\ h \in Nat
      BY <1>5, <2>1, <2>5, <2>6
    <3> HIDE DEF f, g, h
    <3>2. h + f \in Nat /\ h + f <= h + g /\ h < h + f
      BY <3>1
    <3>3. CASE x.watch[s] = Absent
      BY <2>3, <3>3
    <3>4. CASE x.watch[s] # Absent
      <4>1. y.watch[s] = h + f /\ y.wseq[Home(s)] = h + g
        BY <2>2, <2>3, <2>6, <3>4 DEF f, g, h
      <4>2. x.watch[s] \in Nat /\ x.watch[s] <= h
        BY <2>1, <3>4 DEF h
      <4>3. h + f # Absent
        BY <3>2, KeyspaceConstants
      <4>4. x.watch[s] < h + f
        BY <3>1, <3>2, <4>2
      <4>5. QED
        BY <3>2, <3>4, <4>1, <4>2, <4>3, <4>4
    <3>5. QED
      BY <3>3, <3>4
  <2>7. CASE s \notin gone
    BY <2>1, <2>2, <2>3, <2>4, <2>5, <2>7
  <2>8. QED
    BY <2>6, <2>7
<1>7. Ordered(y)
  BY <1>6 DEF Ordered
<1>8. Signals(x, y)
  BY <1>1, <1>6, <1>7 DEF Signals
<1>9. QED
  BY <1>8 DEF y

LEMMA ReapAllMarks ==
  ASSUME NEW x, Fit(x), NEW i \in Shards, NEW v \in Seq(Slots),
         \A s \in Range(v) : ShardOf[s[2]] = i, Len(v) <= Cardinality(Slots)
  PROVE  Marks(x, ReapAll(x, i, v))
<1> DEFINE n == Len(v)
<1> DEFINE y == ReapAll(x, i, v)
<1> SUFFICES ASSUME Wide, NEW s \in Slots, y.dict[s] # x.dict[s]
             PROVE  y.dirty[ShardOf[s[2]]] # x.dirty[ShardOf[s[2]]]
  BY DEF Marks
<1>1. y.dict = [r \in Slots |-> IF r \in Range(v) THEN Absent ELSE x.dict[r]]
  BY ReapAllGood DEF Fit
<1>2. y.dirty[i] = (x.dirty[i] + n) % DirtyWrap
  BY DEF ReapAll, Fit, Good, CtxType
<1> HIDE DEF y
<1>3. s \in Range(v)
  BY <1>1
<1>4. n \in Nat /\ n # 0
  BY <1>3 DEF Range
<1>5. x.dirty[i] \in 0..DirtyWrap-1 /\ DirtyWrap \in Nat
  BY DirtyTypes DEF Fit
<1>6. n < DirtyWrap
  <2>1. Cardinality(Slots) \in Nat /\ Cardinality(Slots) < DirtyWrap
    BY WideTypes DEF Wide
  <2>2. QED
    BY <1>4, <1>5, <2>1
<1> HIDE DEF n
<1>7. Advanced(x.dirty[i], y.dirty[i], n)
  BY <1>2, <1>4, <1>5, <1>6, Remainder
<1>8. QED
  BY <1>3, <1>4, <1>5, <1>6, <1>7, Moved

-----------------------------------------------------------------------------
(* Steps of the keyspace.                                                  *)

OrderedNow == \A s \in Slots : watch[s] # Absent => watch[s] <= wseq[Home(s)]

KInv == IInv /\ OrderedNow

(* What a step does to the counters of the slots it changes.               *)
WatchMoves ==
  /\ \A s \in Slots : watch'[s] = Absent <=> watch[s] = Absent
  /\ \A s \in Slots : watch[s] # Absent =>
        /\ watch[s] <= watch'[s]
        /\ dict'[s] # dict[s] => watch[s] < watch'[s]

DirtyMoves ==
  \A s \in Slots :
    dict'[s] # dict[s] => dirty'[ShardOf[s[2]]] # dirty[ShardOf[s[2]]]

LEMMA NewCtxFit ==
  ASSUME KInv, NEW t \in Nat, NEW d \in DBs
  PROVE  /\ Fit(NewCtx(t, d))
         /\ NewCtx(t, d).dict = dict /\ NewCtx(t, d).watch = watch
         /\ NewCtx(t, d).wseq = wseq /\ NewCtx(t, d).dirty = dirty
<1>1. Good(NewCtx(t, d))
  BY NewCtxGood DEF KInv, IInv
<1>2. /\ NewCtx(t, d).dict = dict /\ NewCtx(t, d).watch = watch
      /\ NewCtx(t, d).wseq = wseq /\ NewCtx(t, d).dirty = dirty
  BY DEF NewCtx
<1>3. QED
  BY <1>1, <1>2 DEF Fit, Ordered, KInv, OrderedNow

LEMMA CommitMoves ==
  ASSUME NEW x, NEW y, Signals(x, y), Commit(y),
         x.dict = dict, x.watch = watch, x.wseq = wseq, x.dirty = dirty
  PROVE  OrderedNow' /\ WatchMoves /\ (Wide /\ Marks(x, y) => DirtyMoves)
BY DEF Signals, Ordered, Commit, Marks, OrderedNow, WatchMoves, DirtyMoves

LEMMA EndCommandQuiet ==
  ASSUME NEW x, Good(x), NEW c \in Commands
  PROVE  Quiet(x, EndCommand(x, c))
<1> DEFINE y == EndCommand(x, c)
<1>1. Step(x, y) /\ y.dict = x.dict
  BY EndCommandGood
<1>2. y.watch = x.watch /\ y.wseq = x.wseq /\ y.dirty = x.dirty
  BY DEF EndCommand, Buffer, Good, CtxType
<1> HIDE DEF y
<1>3. QED
  BY <1>1, <1>2 DEF Quiet, y

LEMMA ExecuteMoves ==
  ASSUME KInv, NEW a \in Actors, NEW c \in Commands, Execute(a, c)
  PROVE  /\ OrderedNow' /\ WatchMoves
         /\ Wide => c.op = "flushdb" \/ DirtyMoves
<1> DEFINE x == NewCtx(at[a], c.db)
<1> DEFINE done(y) == /\ Signals(x, y)
                      /\ Commit(EndCommand(y, c))
                      /\ c.op = "flushdb" \/ Marks(x, y)
<1>1. at[a] \in Nat
  BY DEF Execute, KInv, IInv, TypeOK
<1>2. /\ Fit(x) /\ x.dict = dict /\ x.watch = watch
      /\ x.wseq = wseq /\ x.dirty = dirty
  BY <1>1, CmdType, NewCtxFit
<1> HIDE DEF x
<1>3. ASSUME NEW y, Does(x, y, 4), Commit(EndCommand(y, c)) PROVE \E z : done(z)
  BY <1>2, <1>3, DoesMarks
<1>4. \E y : done(y)
  <2>1. CASE c.op = "read" /\ Commit(EndCommand(CmdRead(x, c), c))
    BY <1>2, <1>3, <2>1, CmdReadDoes
  <2>2. CASE c.op = "set" /\ Commit(EndCommand(CmdSet(x, c), c))
    BY <1>2, <1>3, <2>2, CmdSetDoes
  <2>3. CASE c.op = "mset" /\ Commit(EndCommand(CmdMset(x, c), c))
    BY <1>2, <1>3, <2>3, CmdMsetDoes
  <2>4. CASE c.op = "del" /\ Commit(EndCommand(CmdDel(x, c), c))
    BY <1>2, <1>3, <2>4, CmdDelDoes
  <2>5. CASE c.op = "expire" /\ Commit(EndCommand(CmdExpire(x, c), c))
    BY <1>2, <1>3, <2>5, CmdExpireDoes
  <2>6. CASE c.op = "persist" /\ Commit(EndCommand(CmdPersist(x, c), c))
    BY <1>2, <1>3, <2>6, CmdPersistDoes
  <2>7. CASE c.op = "rename" /\ Commit(EndCommand(CmdRename(x, c), c))
    BY <1>2, <1>3, <2>7, CmdRenameDoes
  <2>8. CASE c.op = "copy" /\ Commit(EndCommand(CmdCopy(x, c), c))
    BY <1>2, <1>3, <2>8, CmdCopyDoes
  <2>9. CASE c.op = "move" /\ Commit(EndCommand(CmdMove(x, c), c))
    BY <1>2, <1>3, <2>9, CmdMoveDoes
  <2>10. CASE c.op = "restore" /\ Commit(EndCommand(CmdRestore(x, c), c))
    BY <1>2, <1>3, <2>10, CmdRestoreDoes
  <2>11. CASE c.op = "sort" /\ Commit(EndCommand(CmdSort(x, c), c))
    BY <1>2, <1>3, <2>11, CmdSortDoes
  <2>12. CASE c.op = "flushdb" /\ Commit(EndCommand(CmdFlushdb(x, c), c))
    BY <1>2, <2>12, ClearSignals DEF CmdFlushdb
  <2>13. CASE c.op = "flushall" /\ Commit(EndCommand(CmdFlushall(x, c), c))
    BY <1>2, <2>13, CmdFlushallDoes
  <2> HIDE DEF done
  <2>14. QED
    BY <2>1, <2>2, <2>3, <2>4, <2>5, <2>6, <2>7, <2>8, <2>9, <2>10, <2>11,
       <2>12, <2>13 DEF Execute, x
<1>5. PICK y : done(y)
  BY <1>4
<1> DEFINE z == EndCommand(y, c)
<1>6. Quiet(y, z)
  BY <1>5, EndCommandQuiet DEF Signals, Step
<1>7. Commit(z) /\ Signals(x, y) /\ (c.op = "flushdb" \/ Marks(x, y))
  BY <1>5
<1> HIDE DEF z, done
<1>8. Signals(x, z) /\ (Marks(x, y) => Marks(x, z))
  BY <1>6, <1>7, StepTrans DEF Signals, Quiet, Ordered, Marks
<1>9. OrderedNow' /\ WatchMoves /\ (Wide /\ Marks(x, z) => DirtyMoves)
  BY <1>2, <1>7, <1>8, CommitMoves
<1>10. QED
  BY <1>7, <1>8, <1>9

LEMMA OrderLength ==
  ASSUME NEW D \in SUBSET Slots, NEW v \in [1..Cardinality(D) -> D]
  PROVE  /\ v \in Seq(Slots) /\ Range(v) \subseteq D
         /\ Len(v) <= Cardinality(Slots)
<1> DEFINE k == Cardinality(D)
<1>1. IsFiniteSet(Slots)
  BY KeyspaceConstants, FS_Product DEF Slots
<1>2. k \in Nat /\ k <= Cardinality(Slots)
  BY <1>1, FS_Subset, FS_CardinalityType
<1>3. v \in [1..k -> D]
  OBVIOUS
<1> HIDE DEF k
<1>4. v \in Seq(Slots) /\ Len(v) = k
  BY <1>2, <1>3
<1>5. Range(v) \subseteq D
  BY <1>3 DEF Range
<1>6. QED
  BY <1>2, <1>4, <1>5

LEMMA ReapMoves ==
  ASSUME KInv, NEW t \in Nat, NEW d \in DBs, NEW i \in Shards,
         NEW D \in SUBSET Slots, \A s \in D : ShardOf[s[2]] = i,
         NEW v \in [1..Cardinality(D) -> D],
         Commit(ReapAll(NewCtx(t, d), i, v))
  PROVE  OrderedNow' /\ WatchMoves /\ (Wide => DirtyMoves)
<1> DEFINE x == NewCtx(t, d)
<1> DEFINE y == ReapAll(x, i, v)
<1>1. /\ Fit(x) /\ x.dict = dict /\ x.watch = watch
      /\ x.wseq = wseq /\ x.dirty = dirty
  BY NewCtxFit
<1>2. /\ v \in Seq(Slots) /\ Len(v) <= Cardinality(Slots)
      /\ \A s \in Range(v) : ShardOf[s[2]] = i
  BY OrderLength
<1>3. Commit(y)
  OBVIOUS
<1> HIDE DEF x
<1>4. Signals(x, y) /\ Marks(x, y)
  BY <1>1, <1>2, ReapAllSignals, ReapAllMarks
<1> HIDE DEF y
<1>5. QED
  BY <1>1, <1>3, <1>4, CommitMoves

LEMMA SampleRoundMoves ==
  ASSUME KInv, NEW a \in Actors, NEW d \in DBs, NEW i \in Shards,
         SampleRound(a, d, i)
  PROVE  OrderedNow' /\ WatchMoves /\ (Wide => DirtyMoves)
<1> DEFINE index == {s \in Slots : Home(s) = <<d, i>> /\ expires[s] # Absent}
<1> DEFINE dead(w) == {s \in w : expires[s] <= at[a]}
<1> DEFINE orders(w) == [1..Cardinality(dead(w)) -> dead(w)]
<1>1. at[a] \in Nat
  BY DEF SampleRound, KInv, IInv, TypeOK
<1>2. PICK w \in SUBSET index : \E v \in orders(w) :
        Commit(ReapAll(NewCtx(at[a], d), i, v))
  BY DEF SampleRound
<1>3. PICK v \in orders(w) : Commit(ReapAll(NewCtx(at[a], d), i, v))
  BY <1>2
<1> DEFINE D == dead(w)
<1>4. D \in SUBSET Slots /\ \A s \in D : ShardOf[s[2]] = i
  BY <1>2 DEF Home
<1>5. v \in [1..Cardinality(D) -> D]
  BY <1>3
<1> HIDE DEF D
<1>6. QED
  BY <1>1, <1>3, <1>4, <1>5, ReapMoves

LEMMA EvictBatchMoves ==
  ASSUME KInv, NEW i \in Shards, EvictBatch(i)
  PROVE  OrderedNow' /\ WatchMoves /\ (Wide => DirtyMoves)
<1> DEFINE U == UNION {Evictable(d, i) : d \in DBs}
<1>1. now \in Nat /\ 0 \in DBs
  BY KeyspaceConstants DEF KInv, IInv, TypeOK
<1>2. PICK D \in SUBSET U : \E v \in [1..Cardinality(D) -> D] :
        Commit(ReapAll(NewCtx(now, 0), i, v))
  BY DEF EvictBatch
<1>3. PICK v \in [1..Cardinality(D) -> D] : Commit(ReapAll(NewCtx(now, 0), i, v))
  BY <1>2
<1>4. D \in SUBSET Slots /\ \A s \in D : ShardOf[s[2]] = i
  BY <1>2 DEF Evictable, Home
<1>5. QED
  BY <1>1, <1>3, <1>4, ReapMoves

LEMMA NextMoves ==
  ASSUME KInv, Next
  PROVE  /\ KInv' /\ WatchMoves
         /\ Wide => Flushing \/ DirtyMoves
<1>1. IInv'
  BY NextIInv DEF KInv
<1>2. ASSUME NEW a \in Actors, NEW c \in Commands, Execute(a, c)
      PROVE  OrderedNow' /\ WatchMoves /\ (Wide => Flushing \/ DirtyMoves)
  BY <1>2, ExecuteMoves DEF Flushing
<1>3. ASSUME dict' = dict, watch' = watch, wseq' = wseq
      PROVE  OrderedNow' /\ WatchMoves /\ DirtyMoves
  <2>1. \A s \in Slots : watch[s] # Absent => watch[s] <= watch[s]
    BY DEF KInv, IInv, TypeOK
  <2>2. QED
    BY <1>3, <2>1 DEF KInv, OrderedNow, WatchMoves, DirtyMoves
<1>4. ASSUME NEW a \in Actors, ReadClock(a)
      PROVE  OrderedNow' /\ WatchMoves /\ DirtyMoves
  BY <1>3, <1>4 DEF ReadClock
<1>5. CASE Tick
  BY <1>1, <1>3, <1>5 DEF Tick, KInv
<1>6. OrderedNow' /\ WatchMoves /\ (Wide => Flushing \/ DirtyMoves)
  BY <1>2, <1>4, <1>5, SampleRoundMoves, EvictBatchMoves DEF Next, KInv
<1>7. QED
  BY <1>1, <1>6 DEF KInv

-----------------------------------------------------------------------------
(* Reads and sweeps that remove nothing.                                   *)

Still(x, y) == y.dict = x.dict => y.watch = x.watch /\ y.wseq = x.wseq

LEMMA ExpireStill ==
  ASSUME NEW x, Good(x), NEW k \in Keys
  PROVE  Still(x, ExpireIfNeeded(x, k))
<1> DEFINE s == <<x.db, k>>
<1> DEFINE y == ExpireIfNeeded(x, k)
<1>1. s \in Slots
  BY SlotType
<1>2. CASE ~IsExpired(x, s)
  BY <1>2 DEF ExpireIfNeeded, Still
<1>3. CASE IsExpired(x, s)
  <2> DEFINE y1 == RemoveEntry(x, s)
  <2> DEFINE y2 == SignalWatch(y1, s)
  <2> DEFINE y3 == Touch(y2, k)
  <2>1. y = Buffer(y3, ShardOf[k], Del(x.db, k))
    BY <1>3 DEF ExpireIfNeeded
  <2>2. Step(x, y1) /\ y1.dict[s] = Absent
    BY <1>1, RemoveEntryGood DEF RemoveEntry, Good, CtxType
  <2> HIDE DEF y1
  <2>3. Step(y1, y2) /\ y2.dict = y1.dict
    BY <1>1, <2>2, SignalWatchGood DEF Step
  <2> HIDE DEF y2
  <2>4. Step(y2, y3) /\ y3.dict = y2.dict
    BY <2>3, TouchGood DEF Step
  <2> HIDE DEF y3
  <2>5. y.dict = y3.dict
    <3>1. Del(x.db, k) \in Command /\ ShardOf[k] \in Shards
      BY SlotType, DelType
    <3>2. QED
      BY <2>1, <2>4, <3>1, BufferGood DEF Step
  <2>6. x.dict[s] # Absent
    BY <1>3 DEF IsExpired
  <2> HIDE DEF y
  <2>7. y.dict # x.dict
    BY <2>2, <2>3, <2>4, <2>5, <2>6
  <2>8. QED
    BY <2>7 DEF Still, y
<1>4. QED
  BY <1>2, <1>3

LEMMA CmdReadStill ==
  ASSUME NEW x, Good(x), NEW c \in Commands
  PROVE  Still(x, CmdRead(x, c))
<1> DEFINE y == ExpireIfNeeded(x, c.key)
<1> DEFINE z == ExpireIfNeeded(y, c.key2)
<1>1. Good(y) /\ ReapsDead(x, y) /\ Still(x, y)
  BY CmdType, ExpireGood, ExpireStill DEF Step
<1>2. CmdRead(x, c) = z
  BY DEF CmdRead
<1> HIDE DEF y
<1>3. Good(z) /\ ReapsDead(y, z) /\ Still(y, z)
  BY <1>1, CmdType, ExpireGood, ExpireStill DEF Step
<1> HIDE DEF z
<1>4. ASSUME z.dict = x.dict PROVE y.dict = x.dict
  <2>1. \A s \in Slots : y.dict[s] = x.dict[s]
    BY <1>1, <1>3, <1>4 DEF ReapsDead, IsExpired
  <2>2. x.dict \in [Slots -> Entry \cup {Absent}] /\ y.dict \in [Slots -> Entry \cup {Absent}]
    BY <1>1 DEF Good, CtxType
  <2>3. QED
    BY <2>1, <2>2
<1>5. QED
  BY <1>1, <1>2, <1>3, <1>4 DEF Still

LEMMA ReadStill ==
  ASSUME KInv, NEW a \in Actors, NEW c \in Commands, c.op = "read",
         Execute(a, c), dict' = dict
  PROVE  watch' = watch /\ wseq' = wseq
<1> DEFINE x == NewCtx(at[a], c.db)
<1> DEFINE y == CmdRead(x, c)
<1> DEFINE z == EndCommand(y, c)
<1>1. at[a] \in Nat
  BY DEF Execute, KInv, IInv, TypeOK
<1>2. Fit(x) /\ x.dict = dict /\ x.watch = watch /\ x.wseq = wseq
  BY <1>1, CmdType, NewCtxFit
<1>3. Commit(z)
  BY DEF Execute
<1> HIDE DEF x
<1>4. Still(x, y) /\ Good(y)
  BY <1>2, CmdReadStill, CmdReadGood DEF Fit, Step
<1> HIDE DEF y
<1>5. Quiet(y, z)
  BY <1>4, EndCommandQuiet
<1> HIDE DEF z
<1>6. QED
  BY <1>2, <1>3, <1>4, <1>5 DEF Still, Quiet, Commit

(* A sweep whose victims are none.                                         *)
LEMMA ReapNobody ==
  ASSUME NEW x, Good(x), NEW i \in Shards, NEW v \in Seq(Slots), Range(v) = {}
  PROVE  ReapAll(x, i, v).watch = x.watch /\ ReapAll(x, i, v).wseq = x.wseq
<1> DEFINE n == Len(v)
<1> DEFINE gone == Range(v)
<1> DEFINE watched(b) == \E r \in Slots : Home(r) = b /\ x.watch[r] # Absent
<1> DEFINE first(b, m) == Cardinality({j \in 1..m : Home(v[j]) = b})
<1> DEFINE place(s) == CHOOSE j \in 1..n : v[j] = s
<1> DEFINE w == [s \in Slots |-> IF s \in gone /\ x.watch[s] # Absent
                   THEN x.wseq[Home(s)] + first(Home(s), place(s))
                   ELSE x.watch[s]]
<1> DEFINE k == [b \in DBs \X Shards |->
                   IF watched(b) THEN x.wseq[b] + first(b, n) ELSE x.wseq[b]]
<1> DEFINE y == ReapAll(x, i, v)
<1>1. y.watch = w /\ y.wseq = k
  BY DEF ReapAll, Good, CtxType
<1>2. n = 0
  <2>1. n \in Nat /\ DOMAIN v = 1..n
    OBVIOUS
  <2>2. DOMAIN v = {}
    BY DEF Range
  <2> HIDE DEF n
  <2>3. QED
    BY <2>1, <2>2
<1>3. ASSUME NEW b PROVE first(b, n) = 0
  <2>1. {j \in 1..n : Home(v[j]) = b} = {}
    BY <1>2
  <2>2. QED
    BY <2>1, FS_EmptySet
<1> HIDE DEF first, watched, y
<1>4. w = x.watch
  BY DEF Good, CtxType
<1>5. k = x.wseq
  <2>1. \A b \in DBs \X Shards : k[b] = x.wseq[b]
    BY <1>3 DEF Good, CtxType
  <2>2. QED
    BY <2>1 DEF Good, CtxType
<1>6. QED
  BY <1>1, <1>4, <1>5 DEF y

LEMMA SampleRoundStill ==
  ASSUME KInv, NEW a \in Actors, NEW d \in DBs, NEW i \in Shards,
         SampleRound(a, d, i), dict' = dict
  PROVE  watch' = watch /\ wseq' = wseq
<1> DEFINE index == {s \in Slots : Home(s) = <<d, i>> /\ expires[s] # Absent}
<1> DEFINE dead(w) == {s \in w : expires[s] <= at[a]}
<1> DEFINE orders(w) == [1..Cardinality(dead(w)) -> dead(w)]
<1> DEFINE x == NewCtx(at[a], d)
<1>1. at[a] \in Nat
  BY DEF SampleRound, KInv, IInv, TypeOK
<1>2. Fit(x) /\ x.dict = dict /\ x.watch = watch /\ x.wseq = wseq
  BY <1>1, NewCtxFit
<1>3. PICK w \in SUBSET index : \E v \in orders(w) :
        Range(v) = dead(w) /\ Commit(ReapAll(x, i, v))
  BY DEF SampleRound
<1>4. PICK v \in orders(w) : Range(v) = dead(w) /\ Commit(ReapAll(x, i, v))
  BY <1>3
<1> DEFINE D == dead(w)
<1>5. D \in SUBSET Slots /\ \A s \in D : expires[s] # Absent
  BY <1>3
<1>6. v \in [1..Cardinality(D) -> D] /\ Range(v) = D
  BY <1>4
<1> HIDE DEF D, x
<1>7. v \in Seq(Slots)
  BY <1>5, <1>6, OrderLength
<1> DEFINE y == ReapAll(x, i, v)
<1>8. y.dict = [s \in Slots |-> IF s \in Range(v) THEN Absent ELSE x.dict[s]]
  BY <1>2, <1>7, ReapAllGood DEF Fit
<1>9. Commit(y)
  BY <1>4
<1>10. Range(v) = {} => y.watch = x.watch /\ y.wseq = x.wseq
  BY <1>2, <1>7, ReapNobody DEF Fit
<1> HIDE DEF y
<1>11. \A s \in D : dict[s] # Absent
  BY <1>5 DEF KInv, IInv, IndexInSync
<1>12. ASSUME NEW s \in D PROVE FALSE
  <2>1. dict'[s] = Absent
    BY <1>5, <1>6, <1>8, <1>9 DEF Commit
  <2>2. QED
    BY <1>11, <2>1
<1>13. QED
  BY <1>2, <1>6, <1>9, <1>10, <1>12 DEF Commit

-----------------------------------------------------------------------------
(* The theorems.                                                           *)

LEMMA InitKInv == Init => KInv
BY InitIInv DEF Init, KInv, OrderedNow

LEMMA NextKInv == KInv /\ [Next]_vars => KInv'
<1>1. ASSUME KInv, UNCHANGED vars PROVE KInv'
  <2>1. IInv'
    BY <1>1, NextIInv DEF KInv
  <2>2. OrderedNow'
    BY <1>1 DEF KInv, OrderedNow, vars
  <2>3. QED
    BY <2>1, <2>2 DEF KInv
<1>2. QED
  BY <1>1, NextMoves

(* The modification counter of a shard moves in every step that creates,   *)
(* changes or removes an entry of the shard, FLUSHDB excepted, however     *)
(* many keys a sweep, an eviction or a FLUSHALL takes at once, as long as  *)
(* the counter is wider than the keyspace is large.                        *)
THEOREM KeyspaceDirtyCounts ==
  ASSUME Wide
  PROVE  Spec => DirtyCounts
<1>1. KInv /\ [Next]_vars =>
        [\A s \in Slots : dict'[s] # dict[s] =>
           Flushing \/ dirty'[ShardOf[s[2]]] # dirty[ShardOf[s[2]]]]_vars
  BY NextMoves DEF DirtyMoves
<1>2. QED
  BY <1>1, InitKInv, NextKInv, PTL DEF Spec, DirtyCounts

(* A client that watches a key holds a counter the key has had, and an     *)
(* older one than the key's once the key has changed.                      *)
SeenInv ==
  /\ seen \in [Clients -> [slot : Slots, version : Nat] \cup {Absent}]
  /\ changed \in [Clients -> BOOLEAN]
  /\ \A w \in Clients : seen[w] # Absent =>
       /\ watch[seen[w].slot] # Absent
       /\ seen[w].version <= watch[seen[w].slot]
       /\ changed[w] => seen[w].version < watch[seen[w].slot]

WInv == KInv /\ SeenInv

LEMMA InitWInv == WInit => WInv
<1> SUFFICES ASSUME WInit PROVE WInv
  OBVIOUS
<1>1. KInv
  BY InitKInv DEF WInit
<1>2. changed \in [Clients -> BOOLEAN]
  BY DEF WInit
<1>3. SeenInv
  BY <1>2 DEF WInit, SeenInv
<1>4. QED
  BY <1>1, <1>3 DEF WInv

LEMMA SeenTypes ==
  ASSUME WInv, NEW w \in Clients, seen[w] # Absent
  PROVE  /\ seen[w].slot \in Slots /\ seen[w].version \in Nat
         /\ watch[seen[w].slot] \in Nat
<1>1. seen[w] \in [slot : Slots, version : Nat]
  BY DEF WInv, SeenInv
<1>2. seen[w].slot \in Slots /\ seen[w].version \in Nat
  BY <1>1
<1>3. watch \in [Slots -> Nat \cup {Absent}] /\ watch[seen[w].slot] # Absent
  BY DEF WInv, SeenInv, KInv, IInv, TypeOK
<1>4. QED
  BY <1>2, <1>3

LEMMA KeyspaceStepWInv ==
  ASSUME WInv, KeyspaceStep
  PROVE  WInv'
<1>1. KInv' /\ WatchMoves
  BY NextMoves DEF WInv, KeyspaceStep
<1>2. seen' = seen
  BY DEF KeyspaceStep
<1>3. changed' \in [Clients -> BOOLEAN]
  <2> DEFINE moved(w) == \/ changed[w]
                         \/ seen[w] # Absent /\ dict'[seen[w].slot] # dict[seen[w].slot]
  <2>1. changed' = [w \in Clients |-> moved(w)]
    BY DEF KeyspaceStep
  <2>2. \A w \in Clients : changed[w] \in BOOLEAN
    BY DEF WInv, SeenInv
  <2>3. \A w \in Clients : moved(w) \in BOOLEAN
    BY <2>2
  <2> HIDE DEF moved
  <2>4. QED
    BY <2>1, <2>3
<1>4. ASSUME NEW w \in Clients, seen[w] # Absent
      PROVE  /\ watch'[seen[w].slot] # Absent
             /\ seen[w].version <= watch'[seen[w].slot]
             /\ changed'[w] => seen[w].version < watch'[seen[w].slot]
  <2> DEFINE s == seen[w].slot
  <2> DEFINE n == seen[w].version
  <2>1. s \in Slots /\ n \in Nat /\ watch[s] \in Nat
    BY <1>4, SeenTypes
  <2>2. watch[s] # Absent /\ n <= watch[s] /\ (changed[w] => n < watch[s])
    BY <1>4 DEF WInv, SeenInv
  <2>3. changed'[w] => changed[w] \/ dict'[s] # dict[s]
    BY <1>4 DEF KeyspaceStep
  <2> HIDE DEF s, n
  <2>4. /\ watch'[s] # Absent /\ watch[s] <= watch'[s]
        /\ dict'[s] # dict[s] => watch[s] < watch'[s]
    BY <1>1, <2>1, <2>2 DEF WatchMoves
  <2>5. watch'[s] \in Nat
    BY <1>1, <2>1, <2>4 DEF KInv, IInv, TypeOK
  <2>6. watch'[s] # Absent /\ n <= watch'[s] /\ (changed'[w] => n < watch'[s])
    BY <2>1, <2>2, <2>3, <2>4, <2>5
  <2>7. QED
    BY <2>6 DEF s, n
<1>5. SeenInv'
  BY <1>2, <1>3, <1>4 DEF WInv, SeenInv
<1>6. QED
  BY <1>1, <1>5 DEF WInv

LEMMA NextKInvW == KInv /\ [WNext]_wvars => KInv'
<1> SUFFICES ASSUME KInv, [WNext]_wvars PROVE KInv'
  OBVIOUS
<1>1. CASE KeyspaceStep
  BY <1>1, NextMoves DEF KeyspaceStep
<1>2. CASE UNCHANGED wvars
  <2>1. UNCHANGED vars
    BY <1>2 DEF wvars, vars
  <2>2. QED
    BY <2>1, NextKInv
<1>3. TypeOK /\ IndexInSync /\ AtInv /\ OrderedNow
  BY DEF KInv, IInv
<1>4. ASSUME NEW s \in Slots, NEW n \in Nat \cup {Absent},
             watch' = [watch EXCEPT ![s] = n], n # Absent => n <= wseq[Home(s)],
             UNCHANGED <<dict, expires, wseq, dirty, buf, now, at>>
      PROVE  KInv'
  <2>1. TypeOK' /\ IndexInSync' /\ AtInv'
    BY <1>3, <1>4 DEF TypeOK, IndexInSync, AtInv
  <2>2. OrderedNow'
    BY <1>3, <1>4 DEF OrderedNow, TypeOK
  <2>3. QED
    BY <2>1, <2>2 DEF KInv, IInv
<1>5. ASSUME NEW w \in Clients, NEW s \in Slots, WatchKey(w, s) PROVE KInv'
  <2> DEFINE n == IF watch[s] = Absent THEN 0 ELSE watch[s]
  <2>1. wseq[Home(s)] \in Nat /\ (watch[s] # Absent => watch[s] \in Nat)
    BY <1>3, HomeType DEF TypeOK
  <2>2. n \in Nat \cup {Absent} /\ n <= wseq[Home(s)]
    BY <1>3, <2>1 DEF OrderedNow
  <2>3. /\ watch' = [watch EXCEPT ![s] = n]
        /\ UNCHANGED <<dict, expires, wseq, dirty, buf, now, at>>
    BY <1>5 DEF WatchKey
  <2> HIDE DEF n
  <2>4. QED
    BY <1>4, <2>2, <2>3
<1>6. ASSUME NEW w \in Clients, UnwatchKey(w) PROVE KInv'
  <2>1. UNCHANGED <<dict, expires, wseq, dirty, buf, now, at>>
    BY <1>6 DEF UnwatchKey
  <2>2. CASE watch' = watch
    <3>1. UNCHANGED vars
      BY <2>1, <2>2 DEF vars
    <3>2. QED
      BY <3>1, NextKInv
  <2>3. CASE watch' = [watch EXCEPT ![seen[w].slot] = Absent]
    <3>1. watch' \in [Slots -> Nat \cup {Absent}]
          /\ \A r \in Slots : watch'[r] = watch[r] \/ watch'[r] = Absent
      BY <1>3, <2>3 DEF TypeOK
    <3>2. TypeOK' /\ IndexInSync' /\ AtInv'
      BY <1>3, <2>1, <3>1 DEF TypeOK, IndexInSync, AtInv
    <3>3. OrderedNow'
      BY <1>3, <2>1, <3>1 DEF OrderedNow
    <3>4. QED
      BY <3>2, <3>3 DEF KInv, IInv
  <2>4. QED
    BY <1>6, <2>2, <2>3 DEF UnwatchKey
<1>7. QED
  BY <1>1, <1>2, <1>5, <1>6 DEF WNext

LEMMA WatchKeyWInv ==
  ASSUME WInv, NEW w \in Clients, NEW s \in Slots, WatchKey(w, s)
  PROVE  WInv'
<1> DEFINE v == IF watch[s] = Absent THEN 0 ELSE watch[s]
<1>1. /\ watch' = [watch EXCEPT ![s] = v]
      /\ seen' = [seen EXCEPT ![w] = [slot |-> s, version |-> v]]
      /\ changed' = [changed EXCEPT ![w] = FALSE]
      /\ UNCHANGED <<dict, expires, wseq, dirty, buf, now, at>>
  BY DEF WatchKey
<1>2. TypeOK /\ IndexInSync /\ AtInv /\ OrderedNow /\ SeenInv
  BY DEF WInv, KInv, IInv
<1>3. v \in Nat /\ v <= wseq[Home(s)] /\ (watch[s] # Absent => v = watch[s])
  <2>1. wseq[Home(s)] \in Nat /\ (watch[s] # Absent => watch[s] \in Nat)
    BY <1>2, HomeType DEF TypeOK
  <2>2. QED
    BY <1>2, <2>1 DEF OrderedNow
<1> HIDE DEF v
<1>4. watch' \in [Slots -> Nat \cup {Absent}] /\ watch'[s] = v
      /\ \A r \in Slots : r # s => watch'[r] = watch[r]
  BY <1>1, <1>2, <1>3 DEF TypeOK
<1>5. KInv'
  BY NextKInvW DEF WInv, WNext
<1>7. changed' \in [Clients -> BOOLEAN]
  BY <1>1, <1>2, Zenon DEF SeenInv
<1>8. seen' \in [Clients -> [slot : Slots, version : Nat] \cup {Absent}]
  BY <1>1, <1>2, <1>3 DEF SeenInv
<1>9. ASSUME NEW u \in Clients, seen'[u] # Absent
      PROVE  /\ watch'[seen'[u].slot] # Absent
             /\ seen'[u].version <= watch'[seen'[u].slot]
             /\ changed'[u] => seen'[u].version < watch'[seen'[u].slot]
  <2>1. CASE u = w
    <3>1. seen'[u].slot = s /\ seen'[u].version = v /\ ~changed'[u]
      BY <1>1, <1>2, <2>1 DEF SeenInv
    <3>2. QED
      BY <1>3, <1>4, <3>1, KeyspaceConstants
  <2>2. CASE u # w
    <3>1. seen'[u] = seen[u] /\ changed'[u] = changed[u]
      BY <1>1, <1>2, <2>2 DEF SeenInv
    <3>2. /\ watch[seen[u].slot] # Absent
          /\ seen[u].version <= watch[seen[u].slot]
          /\ changed[u] => seen[u].version < watch[seen[u].slot]
      BY <1>2, <1>9, <3>1 DEF SeenInv
    <3>3. seen[u].slot \in Slots
      BY <1>9, <3>1, SeenTypes
    <3>4. watch'[seen[u].slot] = watch[seen[u].slot]
      BY <1>3, <1>4, <3>2, <3>3
    <3>5. QED
      BY <3>1, <3>2, <3>4
  <2>3. QED
    BY <2>1, <2>2
<1>10. SeenInv'
  BY <1>7, <1>8, <1>9 DEF SeenInv
<1>11. QED
  BY <1>5, <1>10 DEF WInv

(* Here the registration of a key must outlive its other watchers.         *)
LEMMA UnwatchKeyWInv ==
  ASSUME LastOnly, WInv, NEW w \in Clients, UnwatchKey(w)
  PROVE  WInv'
<1> DEFINE s == seen[w].slot
<1>1. TypeOK /\ IndexInSync /\ AtInv /\ OrderedNow /\ SeenInv
  BY DEF WInv, KInv, IInv
<1>2. /\ seen' = [seen EXCEPT ![w] = Absent]
      /\ UNCHANGED <<dict, expires, wseq, dirty, buf, now, at, changed>>
  BY DEF UnwatchKey
<1>3. s \in Slots
  BY SeenTypes DEF UnwatchKey
<1>4. watch' \in [Slots -> Nat \cup {Absent}]
      /\ \A r \in Slots : watch'[r] = watch[r] \/ (r = s /\ watch'[r] = Absent)
  BY <1>1, <1>3 DEF UnwatchKey, TypeOK
<1>5. ASSUME NEW u \in Clients \ {w}, seen[u] # Absent, seen[u].slot = s
      PROVE  watch' = watch
  BY <1>5 DEF UnwatchKey
<1> HIDE DEF s
<1>6. KInv'
  BY NextKInvW DEF WInv, WNext
<1>8. seen' \in [Clients -> [slot : Slots, version : Nat] \cup {Absent}]
  BY <1>1, <1>2 DEF SeenInv
<1>9. ASSUME NEW u \in Clients, seen'[u] # Absent
      PROVE  /\ watch'[seen'[u].slot] # Absent
             /\ seen'[u].version <= watch'[seen'[u].slot]
             /\ changed'[u] => seen'[u].version < watch'[seen'[u].slot]
  <2>1. u # w /\ seen'[u] = seen[u] /\ changed'[u] = changed[u]
    BY <1>1, <1>2, <1>9 DEF SeenInv
  <2>2. /\ watch[seen[u].slot] # Absent
        /\ seen[u].version <= watch[seen[u].slot]
        /\ changed[u] => seen[u].version < watch[seen[u].slot]
    BY <1>1, <1>9, <2>1 DEF SeenInv
  <2>3. seen[u].slot \in Slots
    BY <1>9, <2>1, SeenTypes
  <2>4. watch'[seen[u].slot] = watch[seen[u].slot]
    BY <1>4, <1>5, <1>9, <2>1, <2>3
  <2>5. QED
    BY <2>1, <2>2, <2>4
<1>10. changed' \in [Clients -> BOOLEAN]
  BY <1>1, <1>2 DEF SeenInv
<1>11. SeenInv'
  BY <1>8, <1>9, <1>10 DEF SeenInv
<1>12. QED
  BY <1>6, <1>11 DEF WInv

LEMMA NextWInv ==
  ASSUME LastOnly
  PROVE  WInv /\ [WNext]_wvars => WInv'
<1>1. ASSUME WInv, UNCHANGED wvars PROVE WInv'
  <2>1. KInv'
    <3>1. UNCHANGED vars
      BY <1>1 DEF wvars, vars
    <3>2. QED
      BY <1>1, <3>1, NextKInv DEF WInv
  <2>2. SeenInv'
    BY <1>1 DEF WInv, SeenInv, wvars
  <2>3. QED
    BY <2>1, <2>2 DEF WInv
<1>2. QED
  BY <1>1, KeyspaceStepWInv, WatchKeyWInv, UnwatchKeyWInv DEF WNext

LEMMA WInvDetects == WInv => WatchDetects
<1> SUFFICES ASSUME WInv, NEW w \in Clients, seen[w] # Absent, changed[w]
             PROVE  watch[seen[w].slot] # seen[w].version
  BY DEF WatchDetects
<1>1. seen[w].version < watch[seen[w].slot]
  BY DEF WInv, SeenInv
<1>2. seen[w].version \in Nat /\ watch[seen[w].slot] \in Nat
  BY SeenTypes
<1>3. QED
  BY <1>1, <1>2

(* When an UNWATCH spares the other watchers of its key, no change of a    *)
(* watched key goes unseen, however many clients watch it, in whatever     *)
(* order commands, expiry, eviction and flushes run, and however often the *)
(* key is deleted and created again.                                       *)
THEOREM WatchDetectsAll ==
  ASSUME LastOnly
  PROVE  WSpec => []WatchDetects
<1>1. WInv /\ [WNext]_wvars => WInv'
  BY NextWInv
<1>2. QED
  BY <1>1, InitWInv, WInvDetects, PTL DEF WSpec

(* A read command or an expiry sweep that finds nothing expired leaves     *)
(* every WATCH counter and every sequence alone, whether or not an UNWATCH *)
(* spares the other watchers.                                              *)
THEOREM WatchReadsNeverAbort == WSpec => ReadsNeverAbort
<1>1. KInv /\ [WNext]_wvars =>
        [Reaping /\ dict' = dict => watch' = watch /\ wseq' = wseq]_wvars
  BY ReadStill, SampleRoundStill DEF Reaping
<1>2. WInit => KInv
  BY InitKInv DEF WInit
<1>3. QED
  BY <1>1, <1>2, NextKInvW, PTL DEF WSpec, ReadsNeverAbort

-----------------------------------------------------------------------------
(* What the methods of Db and Ctx do to the entries.                       *)

(* Keyspaces, and one entry changed in one.                                *)
Dicts == [Slots -> Entry \cup {Absent}]
Put(d, s, e) == [d EXCEPT ![s] = e]

(* The fields of a Ctx, typed where replay looks at them.                  *)
IsCtx(x) ==
  x \in [dict : Dicts, expires : {x.expires}, watch : {x.watch}, wseq : {x.wseq},
         dirty : {x.dirty}, buf : {x.buf}, now : {x.now}, db : {x.db}, cdirty : Nat,
         prop : {x.prop}, pbuf : {x.pbuf}, result : {x.result}]

(* The method that leads from x to y leaves the entries d, counts n        *)
(* modifications and has no part in propagation.                           *)
Edit(x, y, d, n) ==
  /\ IsCtx(y)
  /\ y.dict = d
  /\ y.buf = x.buf /\ y.now = x.now /\ y.db = x.db
  /\ y.prop = x.prop /\ y.pbuf = x.pbuf /\ y.result = x.result
  /\ y.cdirty = x.cdirty + n

LEMMA PutType ==
  ASSUME NEW d \in Dicts, NEW s \in Slots, NEW e \in Entry \cup {Absent}
  PROVE  Put(d, s, e) \in Dicts
BY DEF Put, Dicts

LEMMA DictEdit ==
  ASSUME NEW x, IsCtx(x), NEW g \in Dicts, NEW h
  PROVE  Edit(x, [x EXCEPT !.dict = g, !.expires = h], g, 0)
<1> DEFINE y == [x EXCEPT !.dict = g]
           z == [y EXCEPT !.expires = h]
<1>1. Edit(x, y, g, 0)
  BY DEF IsCtx, Edit
<1>2. z = [x EXCEPT !.dict = g, !.expires = h]
  OBVIOUS
<1> HIDE DEF y
<1>3. Edit(y, z, y.dict, 0)
  BY <1>1 DEF IsCtx, Edit
<1> HIDE DEF z
<1>4. QED
  BY <1>1, <1>2, <1>3 DEF Edit, IsCtx

LEMMA WatchEdit ==
  ASSUME NEW x, IsCtx(x), NEW g, NEW h
  PROVE  Edit(x, [x EXCEPT !.wseq = g, !.watch = h], x.dict, 0)
<1> DEFINE y == [x EXCEPT !.wseq = g]
           z == [y EXCEPT !.watch = h]
<1>1. Edit(x, y, x.dict, 0)
  BY DEF IsCtx, Edit
<1>2. z = [x EXCEPT !.wseq = g, !.watch = h]
  OBVIOUS
<1> HIDE DEF y
<1>3. Edit(y, z, y.dict, 0)
  BY <1>1 DEF IsCtx, Edit
<1> HIDE DEF z
<1>4. QED
  BY <1>1, <1>2, <1>3 DEF Edit, IsCtx

LEMMA SetEntryEdit ==
  ASSUME NEW x, IsCtx(x), NEW s \in Slots, NEW e \in Entry
  PROVE  Edit(x, SetEntry(x, s, e), Put(x.dict, s, e), 0)
<1> DEFINE g == Put(x.dict, s, e)
           h == [x.expires EXCEPT ![s] = e.exp]
<1>1. g \in Dicts
  BY PutType DEF IsCtx
<1>2. SetEntry(x, s, e) = [x EXCEPT !.dict = g, !.expires = h]
  BY DEF SetEntry, Put
<1> HIDE DEF g, h
<1>3. Edit(x, [x EXCEPT !.dict = g, !.expires = h], g, 0)
  BY <1>1, DictEdit
<1>4. QED
  BY <1>2, <1>3 DEF g

LEMMA RemoveEntryEdit ==
  ASSUME NEW x, IsCtx(x), NEW s \in Slots
  PROVE  Edit(x, RemoveEntry(x, s), Put(x.dict, s, Absent), 0)
<1> DEFINE g == Put(x.dict, s, Absent)
           h == [x.expires EXCEPT ![s] = Absent]
<1>1. g \in Dicts
  BY PutType DEF IsCtx
<1>2. RemoveEntry(x, s) = [x EXCEPT !.dict = g, !.expires = h]
  BY DEF RemoveEntry, Put
<1> HIDE DEF g, h
<1>3. Edit(x, [x EXCEPT !.dict = g, !.expires = h], g, 0)
  BY <1>1, DictEdit
<1>4. QED
  BY <1>2, <1>3 DEF g

LEMMA DbSetExpireEdit ==
  ASSUME NEW x, IsCtx(x), NEW s \in Slots, x.dict[s] # Absent, NEW t \in Nat \cup {Absent}
  PROVE  Edit(x, DbSetExpire(x, s, t), Put(x.dict, s, [x.dict[s] EXCEPT !.exp = t]), 0)
<1> DEFINE e == [x.dict[s] EXCEPT !.exp = t]
           g == Put(x.dict, s, e)
           h == [x.expires EXCEPT ![s] = t]
<1>0. e \in Entry
  BY DEF IsCtx, Dicts, Entry
<1>1. g \in Dicts
  <2> HIDE DEF e
  <2>1. QED
    BY <1>0, PutType DEF IsCtx
<1>2. DbSetExpire(x, s, t) = [x EXCEPT !.dict = g, !.expires = h]
  BY DEF DbSetExpire, Put
<1> HIDE DEF g, h
<1>3. Edit(x, [x EXCEPT !.dict = g, !.expires = h], g, 0)
  BY <1>1, DictEdit
<1>4. QED
  BY <1>2, <1>3 DEF g

LEMMA SignalWatchEdit ==
  ASSUME NEW x, IsCtx(x), NEW s
  PROVE  Edit(x, SignalWatch(x, s), x.dict, 0)
<1> DEFINE g == [x.wseq EXCEPT ![Home(s)] = @ + 1]
           h == [x.watch EXCEPT ![s] = IF @ = Absent THEN @ ELSE x.wseq[Home(s)] + 1]
<1>1. SignalWatch(x, s) = x \/ SignalWatch(x, s) = [x EXCEPT !.wseq = g, !.watch = h]
  BY DEF SignalWatch
<1>2. Edit(x, x, x.dict, 0)
  BY DEF Edit, IsCtx
<1> HIDE DEF g, h
<1>3. Edit(x, [x EXCEPT !.wseq = g, !.watch = h], x.dict, 0)
  BY WatchEdit
<1>4. QED
  BY <1>1, <1>2, <1>3

LEMMA TouchEdit ==
  ASSUME NEW x, IsCtx(x), NEW k
  PROVE  Edit(x, Touch(x, k), x.dict, 0)
BY DEF Touch, Count, IsCtx, Edit, Dicts

LEMMA EditTrans ==
  ASSUME NEW x, NEW y, NEW z, NEW d, NEW e, NEW m \in Nat, NEW n \in Nat, x.cdirty \in Nat,
         Edit(x, y, d, m), Edit(y, z, e, n)
  PROVE  Edit(x, z, e, m + n)
BY DEF Edit

LEMMA SignalModifiedEdit ==
  ASSUME NEW x, IsCtx(x), NEW k
  PROVE  Edit(x, SignalModified(x, k), x.dict, 1)
<1> DEFINE y == [x EXCEPT !.cdirty = @ + 1]
           z == Touch(y, k)
           w == SignalWatch(z, <<x.db, k>>)
<1>1. Edit(x, y, x.dict, 1)
  BY DEF IsCtx, Edit
<1>2. SignalModified(x, k) = w
  BY DEF SignalModified
<1> HIDE DEF y
<1>3. Edit(y, z, y.dict, 0)
  BY <1>1, TouchEdit DEF Edit
<1> HIDE DEF z
<1>4. Edit(z, w, z.dict, 0)
  BY <1>3, SignalWatchEdit DEF Edit
<1> HIDE DEF w
<1>5. QED
  BY <1>1, <1>2, <1>3, <1>4 DEF Edit, IsCtx

LEMMA InsertEdit ==
  ASSUME NEW x, IsCtx(x), NEW k \in Keys, NEW v \in Vals, NEW t \in Nat \cup {Absent}, x.db \in DBs
  PROVE  Edit(x, Insert(x, k, v, t), Put(x.dict, <<x.db, k>>, [val |-> v, exp |-> t]), 1)
<1> DEFINE y == SignalModified(x, k)
           e == [val |-> v, exp |-> t]
           s == <<x.db, k>>
           z == SetEntry(y, s, e)
<1>1. e \in Entry /\ s \in Slots
  BY DEF Entry, Slots
<1>2. Insert(x, k, v, t) = z
  BY DEF Insert
<1> HIDE DEF e, s
<1>3. Edit(x, y, x.dict, 1)
  BY SignalModifiedEdit
<1> HIDE DEF y
<1>4. Edit(y, z, Put(y.dict, s, e), 0)
  BY <1>1, <1>3, SetEntryEdit DEF Edit
<1> HIDE DEF z
<1>5. QED
  BY <1>2, <1>3, <1>4 DEF Edit, IsCtx, s, e

LEMMA SetExpireEdit ==
  ASSUME NEW x, IsCtx(x), NEW k \in Keys, NEW t \in Nat \cup {Absent}, x.db \in DBs,
         x.dict[<<x.db, k>>] # Absent
  PROVE  Edit(x, SetExpire(x, k, t),
              Put(x.dict, <<x.db, k>>, [x.dict[<<x.db, k>>] EXCEPT !.exp = t]), 1)
<1> DEFINE s == <<x.db, k>>
           y == DbSetExpire(x, s, t)
           z == SignalModified(y, k)
<1>1. s \in Slots
  BY DEF Slots
<1>2. SetExpire(x, k, t) = z
  BY DEF SetExpire
<1> HIDE DEF s
<1>3. Edit(x, y, Put(x.dict, s, [x.dict[s] EXCEPT !.exp = t]), 0)
  BY <1>1, DbSetExpireEdit DEF s
<1> HIDE DEF y
<1>4. Edit(y, z, y.dict, 1)
  BY <1>3, SignalModifiedEdit DEF Edit
<1> HIDE DEF z
<1>5. QED
  BY <1>2, <1>3, <1>4 DEF Edit, IsCtx, s

LEMMA PutEntryEdit ==
  ASSUME NEW x, IsCtx(x), NEW s \in Slots, NEW e \in Entry
  PROVE  Edit(x, PutEntry(x, s, e), Put(x.dict, s, e), 0)
<1> DEFINE y == SignalWatch(x, s)
           z == SetEntry(y, s, e)
<1>2. PutEntry(x, s, e) = z
  BY DEF PutEntry
<1>3. Edit(x, y, x.dict, 0)
  BY SignalWatchEdit
<1> HIDE DEF y
<1>4. Edit(y, z, Put(y.dict, s, e), 0)
  BY <1>3, SetEntryEdit DEF Edit
<1> HIDE DEF z
<1>5. QED
  BY <1>2, <1>3, <1>4 DEF Edit, IsCtx

LEMMA TakeEntryEdit ==
  ASSUME NEW x, IsCtx(x), NEW s \in Slots
  PROVE  Edit(x, TakeEntry(x, s), Put(x.dict, s, Absent), 0)
<1> DEFINE y == RemoveEntry(x, s)
           z == SignalWatch(y, s)
<1>2. TakeEntry(x, s) = z
  BY DEF TakeEntry
<1>3. Edit(x, y, Put(x.dict, s, Absent), 0)
  BY RemoveEntryEdit
<1> HIDE DEF y
<1>4. Edit(y, z, y.dict, 0)
  BY <1>3, SignalWatchEdit DEF Edit
<1> HIDE DEF z
<1>5. QED
  BY <1>2, <1>3, <1>4 DEF Edit, IsCtx

-----------------------------------------------------------------------------
(* What a handler does to the entries and to the stream, for a Ctx in      *)
(* which the key has not expired: it gives up, it changes the entries and  *)
(* leaves the command to be propagated as it is, or it says what to        *)
(* propagate in its place.                                                 *)
Quits(x, y) ==
  IsCtx(y) /\ y.dict = x.dict /\ y.buf = x.buf /\ (y.prop = "none" \/ y.result = "err")

Changes(x, y, d) == \E n \in Nat \ {0} : Edit(x, y, d, n)

Tells(x, y, d, e) ==
  /\ IsCtx(y) /\ y.dict = d /\ y.buf = x.buf /\ y.result = x.result
  /\ y.prop = "explicit" /\ y.pbuf = Append(x.pbuf, e)

(* A Ctx in which the key of c has not expired.                            *)
Ready(x, c) ==
  /\ IsCtx(x) /\ x.db = c.db /\ x.now \in Int
  /\ ~IsExpired(x, <<c.db, c.key>>)

LEMMA SlotsOf ==
  ASSUME NEW c \in Command
  PROVE  /\ <<c.db, c.key>> \in Slots /\ <<c.db, c.key2>> \in Slots
         /\ <<c.to, c.key>> \in Slots /\ <<c.to, c.key2>> \in Slots
         /\ c.key \in Keys /\ c.key2 \in Keys /\ c.db \in DBs /\ c.to \in DBs
         /\ c.val \in Vals /\ c.ttl \in Nat \cup {Absent}
BY DEF Command, Slots

LEMMA Unexpired ==
  ASSUME NEW x, NEW c, Ready(x, c)
  PROVE  ExpireIfNeeded(x, c.key) = x
BY DEF ExpireIfNeeded, Ready

LEMMA EntryOf ==
  ASSUME NEW d \in Dicts, NEW s \in Slots, d[s] # Absent
  PROVE  d[s] \in Entry /\ d[s].exp \in Nat \cup {Absent}
BY DEF Dicts, Entry

LEMMA NoneQuits ==
  ASSUME NEW x, IsCtx(x)
  PROVE  Quits(x, PropagateNone(x)) /\ Quits(x, Fail(x))
<1> DEFINE y == [x EXCEPT !.prop = "none"]
           z == [y EXCEPT !.pbuf = <<>>]
           f == [x EXCEPT !.result = "err"]
<1>1. PropagateNone(x) = z /\ Fail(x) = f
  BY DEF PropagateNone, Fail
<1>2. IsCtx(y) /\ y.dict = x.dict /\ y.buf = x.buf /\ y.prop = "none"
  BY DEF IsCtx
<1>3. Quits(x, f)
  BY DEF IsCtx, Quits
<1> HIDE DEF y, f
<1>4. IsCtx(z) /\ z.dict = y.dict /\ z.buf = y.buf /\ z.prop = y.prop
  BY <1>2 DEF IsCtx
<1> HIDE DEF z
<1>5. Quits(x, z)
  BY <1>2, <1>4 DEF Quits
<1>6. QED
  BY <1>1, <1>3, <1>5

LEMMA PropagateTells ==
  ASSUME NEW x, NEW y, NEW d, NEW n, NEW e, Edit(x, y, d, n)
  PROVE  Tells(x, Propagate(y, e), d, e)
<1> DEFINE p == Append(y.pbuf, e)
           u == [y EXCEPT !.prop = "explicit"]
           z == [u EXCEPT !.pbuf = p]
<1>1. Propagate(y, e) = z
  BY DEF Propagate
<1>0. p = Append(x.pbuf, e)
  BY DEF Edit
<1> HIDE DEF p
<1>2. IsCtx(u) /\ u.dict = y.dict /\ u.buf = y.buf /\ u.prop = "explicit" /\ u.result = y.result
  BY DEF IsCtx, Edit
<1> HIDE DEF u
<1>3. IsCtx(z) /\ z.dict = u.dict /\ z.buf = u.buf /\ z.prop = u.prop /\ z.result = u.result
      /\ z.pbuf = p
  BY <1>2 DEF IsCtx
<1> HIDE DEF z
<1>4. QED
  BY <1>0, <1>1, <1>2, <1>3 DEF Tells, Edit

Absolute(c, t) == [c EXCEPT !.cond = "always", !.ttl = t, !.opt = {"abs"}]

SetTime(x, c) ==
  IF "keepttl" \in c.opt
  THEN (IF Exists(x, c.key) THEN x.dict[<<x.db, c.key>>].exp ELSE Absent)
  ELSE (IF c.ttl = Absent THEN Absent ELSE Deadline(x, c))

SetBlocked(d, c) ==
  \/ c.cond = "nx" /\ d[<<c.db, c.key>>] # Absent
  \/ c.cond = "xx" /\ d[<<c.db, c.key>>] = Absent

LEMMA SetOutcome ==
  ASSUME NEW x, NEW c \in Command, Ready(x, c), SetTime(x, c) \in Nat \cup {Absent}
  PROVE  LET y == CmdSet(x, c)
             t == SetTime(x, c)
             d == Put(x.dict, <<c.db, c.key>>, [val |-> c.val, exp |-> t])
         IN /\ SetBlocked(x.dict, c) => Quits(x, y)
            /\ ~SetBlocked(x.dict, c) /\ t = Absent => Changes(x, y, d)
            /\ ~SetBlocked(x.dict, c) /\ t # Absent => Tells(x, y, d, Absolute(c, t))
<1> DEFINE t == SetTime(x, c)
           d == Put(x.dict, <<c.db, c.key>>, [val |-> c.val, exp |-> t])
           y == Insert(x, c.key, c.val, t)
<1>1. CmdSet(x, c) = IF SetBlocked(x.dict, c) THEN PropagateNone(x)
                     ELSE IF t = Absent THEN y ELSE Propagate(y, Absolute(c, t))
  BY Unexpired DEF CmdSet, SetBlocked, SetTime, Exists, Ready, Absolute
<1>2. Edit(x, y, d, 1)
  <2>1. /\ IsCtx(x) /\ x.db = c.db /\ c.key \in Keys /\ c.db \in DBs /\ c.val \in Vals
        /\ t \in Nat \cup {Absent}
    BY SlotsOf DEF Ready
  <2> HIDE DEF t
  <2>2. QED
    BY <2>1, InsertEdit
<1>3. Quits(x, PropagateNone(x))
  BY NoneQuits DEF Ready
<1> HIDE DEF y, d, t
<1>4. Tells(x, Propagate(y, Absolute(c, t)), d, Absolute(c, t))
  BY <1>2, PropagateTells
<1>5. Changes(x, y, d)
  BY <1>2 DEF Changes
<1>6. QED
  BY <1>1, <1>3, <1>4, <1>5 DEF d, t

LEMMA MsetOutcome ==
  ASSUME NEW x, NEW c \in Command, IsCtx(x), x.db = c.db
  PROVE  LET e == [val |-> c.val, exp |-> Absent]
         IN Changes(x, CmdMset(x, c),
                    Put(Put(x.dict, <<c.db, c.key>>, e), <<c.db, c.key2>>, e))
<1> DEFINE e == [val |-> c.val, exp |-> Absent]
           y == Insert(x, c.key, c.val, Absent)
           z == Insert(y, c.key2, c.val, Absent)
<1>0. c.key \in Keys /\ c.key2 \in Keys /\ c.db \in DBs /\ c.val \in Vals
  BY SlotsOf
<1>1. Edit(x, y, Put(x.dict, <<c.db, c.key>>, e), 1)
  BY <1>0, InsertEdit
<1>2. CmdMset(x, c) = z
  BY DEF CmdMset
<1> HIDE DEF y
<1>3. IsCtx(y) /\ y.db = c.db
  BY <1>1 DEF Edit
<1>4. Edit(y, z, Put(y.dict, <<c.db, c.key2>>, e), 1)
  BY <1>0, <1>3, InsertEdit
<1> HIDE DEF z, e
<1>5. Edit(x, z, Put(Put(x.dict, <<c.db, c.key>>, e), <<c.db, c.key2>>, e), 2)
  BY <1>1, <1>4 DEF Edit, IsCtx
<1>6. QED
  BY <1>2, <1>5 DEF Changes, e

LEMMA ExpireOutcome ==
  ASSUME NEW x, NEW c \in Command, Ready(x, c), Deadline(x, c) \in Nat
  PROVE  LET y == CmdExpire(x, c)
             t == Deadline(x, c)
             s == <<c.db, c.key>>
         IN \/ Quits(x, y) /\ (x.dict[s] = Absent \/ c.cond # "always")
            \/ /\ x.dict[s] # Absent /\ t <= x.now
               /\ Tells(x, y, Put(x.dict, s, Absent), Del(c.db, c.key))
            \/ /\ x.dict[s] # Absent /\ t > x.now
               /\ Tells(x, y, Put(x.dict, s, [x.dict[s] EXCEPT !.exp = t]), Absolute(c, t))
<1> DEFINE t == Deadline(x, c)
           s == <<c.db, c.key>>
           u == RemoveEntry(x, s)
           w == SignalModified(u, c.key)
           v == SetExpire(x, c.key, t)
           bad == x.dict[s] = Absent \/ ~CondAllows(c.cond, x.dict[s].exp, t)
<1>0. s \in Slots /\ c.key \in Keys /\ c.db \in DBs /\ IsCtx(x) /\ x.db = c.db /\ x.now \in Int
  BY SlotsOf DEF Ready
<1>1. CmdExpire(x, c) =
        IF bad THEN PropagateNone(x)
        ELSE IF t <= x.now THEN Propagate(w, Del(c.db, c.key))
        ELSE Propagate(v, Absolute(c, t))
  BY Unexpired DEF CmdExpire, Exists, Ready, Absolute, Remove
<1>2. c.cond = "always" => (bad <=> x.dict[s] = Absent)
  BY DEF CondAllows
<1>3. Edit(x, u, Put(x.dict, s, Absent), 0)
  BY <1>0, RemoveEntryEdit
<1> HIDE DEF u
<1>4. Edit(u, w, u.dict, 1)
  BY <1>3, SignalModifiedEdit DEF Edit
<1> HIDE DEF w
<1>5. Edit(x, w, Put(x.dict, s, Absent), 1)
  BY <1>0, <1>3, <1>4 DEF Edit, IsCtx
<1>6. Tells(x, Propagate(w, Del(c.db, c.key)), Put(x.dict, s, Absent), Del(c.db, c.key))
  BY <1>5, PropagateTells
<1> HIDE DEF t
<1>7. ASSUME ~bad
      PROVE  Tells(x, Propagate(v, Absolute(c, t)),
                   Put(x.dict, s, [x.dict[s] EXCEPT !.exp = t]), Absolute(c, t))
  <2> DEFINE d == Put(x.dict, s, [x.dict[s] EXCEPT !.exp = t])
  <2>1. t \in Nat \cup {Absent} /\ x.dict[<<x.db, c.key>>] # Absent
    BY <1>0, <1>7 DEF t
  <2>2. Edit(x, v, d, 1)
    BY <1>0, <2>1, SetExpireEdit
  <2> HIDE DEF d, v
  <2>3. QED
    BY <2>2, PropagateTells DEF d
<1>8. Quits(x, PropagateNone(x))
  BY <1>0, NoneQuits
<1>9. t \in Nat
  BY DEF t
<1> HIDE DEF v
<1>10. CASE bad
  <2>1. CmdExpire(x, c) = PropagateNone(x) /\ (x.dict[s] = Absent \/ c.cond # "always")
    BY <1>1, <1>2, <1>10
  <2>2. QED
    BY <1>8, <2>1
<1>11. CASE ~bad
  <2>1. x.dict[s] # Absent
    BY <1>11
  <2> HIDE DEF bad, s
  <2>2. CASE t <= x.now
    BY <1>1, <1>6, <1>11, <2>1, <2>2 DEF t, s
  <2>3. CASE ~(t <= x.now)
    <3>1. t > x.now
      BY <1>0, <1>9, <2>3
    <3>2. QED
      BY <1>1, <1>7, <1>11, <2>1, <2>3, <3>1 DEF t, s
  <2>4. QED
    BY <2>2, <2>3
<1>12. QED
  BY <1>10, <1>11

LEMMA PersistOutcome ==
  ASSUME NEW x, NEW c \in Command, Ready(x, c)
  PROVE  LET y == CmdPersist(x, c)
             s == <<c.db, c.key>>
         IN IF x.dict[s] = Absent \/ x.dict[s].exp = Absent THEN Quits(x, y)
            ELSE Changes(x, y, Put(x.dict, s, [x.dict[s] EXCEPT !.exp = Absent]))
<1> DEFINE s == <<c.db, c.key>>
           y == SetExpire(x, c.key, Absent)
           bad == x.dict[s] = Absent \/ x.dict[s].exp = Absent
           d == Put(x.dict, s, [x.dict[s] EXCEPT !.exp = Absent])
<1>0. s \in Slots /\ c.key \in Keys /\ c.db \in DBs /\ IsCtx(x) /\ x.db = c.db
  BY SlotsOf DEF Ready
<1>1. CmdPersist(x, c) = IF bad THEN PropagateNone(x) ELSE y
  BY Unexpired DEF CmdPersist, Exists, Ready
<1>2. Quits(x, PropagateNone(x))
  BY <1>0, NoneQuits
<1>3. ASSUME ~bad PROVE Edit(x, y, d, 1)
  BY <1>0, <1>3, SetExpireEdit
<1> HIDE DEF y, d
<1>4. ASSUME ~bad PROVE Changes(x, y, d)
  BY <1>3, <1>4 DEF Changes
<1>5. QED
  BY <1>1, <1>2, <1>4 DEF d

(* An entry leaves one slot and arrives at another.                        *)
LEMMA RelocateEdit ==
  ASSUME NEW x, IsCtx(x), NEW s \in Slots, NEW q \in Slots, NEW e \in Entry
  PROVE  Edit(x, PutEntry(TakeEntry(x, s), q, e), Put(Put(x.dict, s, Absent), q, e), 0)
<1> DEFINE y == TakeEntry(x, s)
           z == PutEntry(y, q, e)
<1>1. Edit(x, y, Put(x.dict, s, Absent), 0)
  BY TakeEntryEdit
<1> HIDE DEF y
<1>2. Edit(y, z, Put(y.dict, q, e), 0)
  BY <1>1, PutEntryEdit DEF Edit
<1> HIDE DEF z
<1>3. Edit(x, z, Put(Put(x.dict, s, Absent), q, e), 0)
  BY <1>1, <1>2 DEF Edit, IsCtx
<1>4. QED
  BY <1>3 DEF z, y

RenameBlocked(x, c) ==
  \/ <<c.db, c.key>> = <<c.db, c.key2>>
  \/ "nx" \in c.opt /\ ExistsInDb(x, <<c.db, c.key2>>)

LEMMA RenameOutcome ==
  ASSUME NEW x, NEW c \in Command, Ready(x, c)
  PROVE  LET y == CmdRename(x, c)
             s == <<c.db, c.key>>
             q == <<c.db, c.key2>>
         IN IF x.dict[s] = Absent \/ RenameBlocked(x, c) THEN Quits(x, y)
            ELSE Changes(x, y, Put(Put(x.dict, s, Absent), q, x.dict[s]))
<1> DEFINE s == <<c.db, c.key>>
           q == <<c.db, c.key2>>
           e == x.dict[s]
           u == PutEntry(TakeEntry(x, s), q, e)
           v == SignalModified(u, c.key)
           w == SignalModified(v, c.key2)
           d == Put(Put(x.dict, s, Absent), q, e)
<1>0. s \in Slots /\ q \in Slots /\ c.key \in Keys /\ c.key2 \in Keys /\ IsCtx(x) /\ x.db = c.db
  BY SlotsOf DEF Ready
<1>1. CmdRename(x, c) = IF e = Absent THEN Fail(x)
                        ELSE IF RenameBlocked(x, c) THEN PropagateNone(x) ELSE w
  BY Unexpired DEF CmdRename, Exists, Ready, RenameBlocked
<1>2. Quits(x, PropagateNone(x)) /\ Quits(x, Fail(x))
  BY <1>0, NoneQuits
<1>3. ASSUME e # Absent PROVE Changes(x, w, d)
  <2>0. e \in Entry
    BY <1>0, <1>3, EntryOf DEF IsCtx
  <2>1. Edit(x, u, d, 0)
    <3> HIDE DEF e, s, q
    <3>1. QED
      BY <1>0, <2>0, RelocateEdit
  <2> HIDE DEF u, d
  <2>2. Edit(u, v, u.dict, 1)
    BY <2>1, SignalModifiedEdit DEF Edit
  <2> HIDE DEF v
  <2>3. Edit(v, w, v.dict, 1)
    BY <2>2, SignalModifiedEdit DEF Edit
  <2> HIDE DEF w
  <2>4. Edit(x, w, d, 2)
    BY <1>0, <2>1, <2>2, <2>3 DEF Edit, IsCtx
  <2>5. QED
    BY <2>4 DEF Changes
<1> HIDE DEF w, d
<1>4. QED
  BY <1>1, <1>2, <1>3 DEF d

CopyBlocked(x, c) == ExistsInDb(x, <<c.to, c.key2>>) /\ "replace" \notin c.opt

LEMMA CopyOutcome ==
  ASSUME NEW x, NEW c \in Command, Ready(x, c)
  PROVE  LET y == CmdCopy(x, c)
             s == <<c.db, c.key>>
             q == <<c.to, c.key2>>
         IN IF s = q \/ x.dict[s] = Absent \/ CopyBlocked(x, c) THEN Quits(x, y)
            ELSE Changes(x, y, Put(x.dict, q, x.dict[s]))
<1> DEFINE s == <<c.db, c.key>>
           q == <<c.to, c.key2>>
           e == x.dict[s]
           u == PutEntry(x, q, e)
           v == SignalModified(u, c.key2)
           w == SignalWatch(v, q)
           d == Put(x.dict, q, e)
<1>0. s \in Slots /\ q \in Slots /\ c.key \in Keys /\ c.key2 \in Keys /\ IsCtx(x) /\ x.db = c.db
  BY SlotsOf DEF Ready
<1>1. CmdCopy(x, c) = IF s = q THEN Fail(x)
                      ELSE IF e = Absent \/ CopyBlocked(x, c) THEN PropagateNone(x)
                      ELSE IF c.to # x.db THEN w ELSE v
  BY Unexpired DEF CmdCopy, Exists, Ready, CopyBlocked
<1>2. Quits(x, PropagateNone(x)) /\ Quits(x, Fail(x))
  BY <1>0, NoneQuits
<1>3. ASSUME e # Absent PROVE Changes(x, w, d) /\ Changes(x, v, d)
  <2>0. e \in Entry
    BY <1>0, <1>3, EntryOf DEF IsCtx
  <2>1. Edit(x, u, d, 0)
    <3> HIDE DEF e, s, q
    <3>1. QED
      BY <1>0, <2>0, PutEntryEdit
  <2> HIDE DEF u, d
  <2>2. Edit(u, v, u.dict, 1)
    BY <2>1, SignalModifiedEdit DEF Edit
  <2> HIDE DEF v
  <2>3. Edit(v, w, v.dict, 0)
    BY <2>2, SignalWatchEdit DEF Edit
  <2> HIDE DEF w
  <2>4. Edit(x, w, d, 1) /\ Edit(x, v, d, 1)
    BY <1>0, <2>1, <2>2, <2>3 DEF Edit, IsCtx
  <2>5. QED
    BY <2>4 DEF Changes
<1> HIDE DEF w, v, d
<1>4. QED
  BY <1>1, <1>2, <1>3 DEF d

LEMMA MoveOutcome ==
  ASSUME NEW x, NEW c \in Command, Ready(x, c)
  PROVE  LET y == CmdMove(x, c)
             s == <<c.db, c.key>>
             q == <<c.to, c.key>>
         IN IF c.to = c.db \/ x.dict[s] = Absent \/ ExistsInDb(x, q) THEN Quits(x, y)
            ELSE Changes(x, y, Put(Put(x.dict, s, Absent), q, x.dict[s]))
<1> DEFINE s == <<c.db, c.key>>
           q == <<c.to, c.key>>
           e == x.dict[s]
           u == PutEntry(TakeEntry(x, s), q, e)
           v == SignalModified(u, c.key)
           w == SignalWatch(v, q)
           d == Put(Put(x.dict, s, Absent), q, e)
<1>0. s \in Slots /\ q \in Slots /\ c.key \in Keys /\ IsCtx(x) /\ x.db = c.db
  BY SlotsOf DEF Ready
<1>1. CmdMove(x, c) = IF c.to = c.db THEN Fail(x)
                      ELSE IF e = Absent \/ ExistsInDb(x, q) THEN PropagateNone(x) ELSE w
  BY Unexpired DEF CmdMove, Exists, Ready
<1>2. Quits(x, PropagateNone(x)) /\ Quits(x, Fail(x))
  BY <1>0, NoneQuits
<1>3. ASSUME e # Absent PROVE Changes(x, w, d)
  <2>0. e \in Entry
    BY <1>0, <1>3, EntryOf DEF IsCtx
  <2>1. Edit(x, u, d, 0)
    <3> HIDE DEF e, s, q
    <3>1. QED
      BY <1>0, <2>0, RelocateEdit
  <2> HIDE DEF u, d
  <2>2. Edit(u, v, u.dict, 1)
    BY <2>1, SignalModifiedEdit DEF Edit
  <2> HIDE DEF v
  <2>3. Edit(v, w, v.dict, 0)
    BY <2>2, SignalWatchEdit DEF Edit
  <2> HIDE DEF w
  <2>4. Edit(x, w, d, 1)
    BY <1>0, <2>1, <2>2, <2>3 DEF Edit, IsCtx
  <2>5. QED
    BY <2>4 DEF Changes
<1> HIDE DEF w, d
<1>4. QED
  BY <1>1, <1>2, <1>3 DEF d

RestoreTime(x, c) == IF c.ttl \in {Absent, 0} THEN Absent ELSE Deadline(x, c)

RestoreBlocked(d, c) ==
  \/ d[<<c.db, c.key>>] # Absent /\ "replace" \notin c.opt
  \/ "valid" \notin c.opt

Dated(c, t) == [c EXCEPT !.ttl = t, !.opt = @ \cup {"abs"}]

LEMMA RestoreOutcome ==
  ASSUME NEW x, NEW c \in Command, Ready(x, c), RestoreTime(x, c) \in Nat \cup {Absent}
  PROVE  LET y == CmdRestore(x, c)
             t == RestoreTime(x, c)
             d == Put(x.dict, <<c.db, c.key>>, [val |-> c.val, exp |-> t])
         IN IF RestoreBlocked(x.dict, c) THEN Quits(x, y)
            ELSE IF t = Absent \/ "abs" \in c.opt THEN Changes(x, y, d)
            ELSE Tells(x, y, d, Dated(c, t))
<1> DEFINE t == RestoreTime(x, c)
           d == Put(x.dict, <<c.db, c.key>>, [val |-> c.val, exp |-> t])
           y == Insert(x, c.key, c.val, t)
<1>1. CmdRestore(x, c) = IF RestoreBlocked(x.dict, c) THEN Fail(x)
                         ELSE IF t = Absent \/ "abs" \in c.opt THEN y
                         ELSE Propagate(y, Dated(c, t))
  BY Unexpired DEF CmdRestore, RestoreBlocked, RestoreTime, Exists, Ready, Dated
<1>2. Edit(x, y, d, 1)
  <2>1. /\ IsCtx(x) /\ x.db = c.db /\ c.key \in Keys /\ c.db \in DBs /\ c.val \in Vals
        /\ t \in Nat \cup {Absent}
    BY SlotsOf DEF Ready
  <2> HIDE DEF t
  <2>2. QED
    BY <2>1, InsertEdit
<1>3. Quits(x, Fail(x))
  BY NoneQuits DEF Ready
<1> HIDE DEF y, d, t
<1>4. Tells(x, Propagate(y, Dated(c, t)), d, Dated(c, t))
  BY <1>2, PropagateTells
<1>5. Changes(x, y, d)
  BY <1>2 DEF Changes
<1>6. QED
  BY <1>1, <1>3, <1>4, <1>5 DEF d, t

(* Removal of a key that has not expired.                                  *)
LEMMA RemoveEdit ==
  ASSUME NEW x, IsCtx(x), x.db \in DBs, NEW k \in Keys, ~IsExpired(x, <<x.db, k>>)
  PROVE  Edit(x, Remove(x, k), Put(x.dict, <<x.db, k>>, Absent),
              IF x.dict[<<x.db, k>>] = Absent THEN 0 ELSE 1)
<1> DEFINE s == <<x.db, k>>
           y == RemoveEntry(x, s)
           z == SignalModified(y, k)
<1>0. s \in Slots
  BY DEF Slots
<1>1. Remove(x, k) = IF x.dict[s] # Absent THEN z ELSE x
  BY DEF Remove, ExpireIfNeeded, Exists
<1>2. Edit(x, y, Put(x.dict, s, Absent), 0)
  BY <1>0, RemoveEntryEdit
<1> HIDE DEF y
<1>3. Edit(y, z, y.dict, 1)
  BY <1>2, SignalModifiedEdit DEF Edit
<1> HIDE DEF z
<1>4. Edit(x, z, Put(x.dict, s, Absent), 1)
  BY <1>2, <1>3 DEF Edit, IsCtx
<1>5. ASSUME x.dict[s] = Absent PROVE Edit(x, x, Put(x.dict, s, Absent), 0)
  <2>1. Put(x.dict, s, Absent) = x.dict
    BY <1>0, <1>5 DEF Put, IsCtx, Dicts
  <2>2. QED
    BY <2>1 DEF Edit, IsCtx
<1>6. QED
  BY <1>1, <1>4, <1>5

-----------------------------------------------------------------------------
(* What the loader makes of a command.                                     *)

AfterSet(d, c) ==
  LET s == <<c.db, c.key>>
  IN IF SetBlocked(d, c) THEN d
     ELSE Put(d, s, [val |-> c.val,
                     exp |-> IF "keepttl" \in c.opt
                             THEN (IF d[s] # Absent THEN d[s].exp ELSE Absent)
                             ELSE c.ttl])
AfterMset(d, c) ==
  LET e == [val |-> c.val, exp |-> Absent]
  IN Put(Put(d, <<c.db, c.key>>, e), <<c.db, c.key2>>, e)
AfterDel(d, c) == Put(Put(d, <<c.db, c.key>>, Absent), <<c.db, c.key2>>, Absent)
AfterExpire(d, c) ==
  LET s == <<c.db, c.key>>
  IN IF d[s] = Absent THEN d ELSE Put(d, s, [d[s] EXCEPT !.exp = c.ttl])
AfterPersist(d, c) ==
  LET s == <<c.db, c.key>>
  IN IF d[s] = Absent \/ d[s].exp = Absent THEN d
     ELSE Put(d, s, [d[s] EXCEPT !.exp = Absent])
AfterRename(d, c) ==
  LET s == <<c.db, c.key>>
      q == <<c.db, c.key2>>
  IN IF d[s] = Absent \/ s = q \/ ("nx" \in c.opt /\ d[q] # Absent) THEN d
     ELSE Put(Put(d, s, Absent), q, d[s])
AfterCopy(d, c) ==
  LET s == <<c.db, c.key>>
      q == <<c.to, c.key2>>
  IN IF s = q \/ d[s] = Absent \/ (d[q] # Absent /\ "replace" \notin c.opt) THEN d
     ELSE Put(d, q, d[s])
AfterMove(d, c) ==
  LET s == <<c.db, c.key>>
      q == <<c.to, c.key>>
  IN IF c.to = c.db \/ d[s] = Absent \/ d[q] # Absent THEN d
     ELSE Put(Put(d, s, Absent), q, d[s])
AfterRestore(d, c) ==
  LET s == <<c.db, c.key>>
  IN IF RestoreBlocked(d, c) THEN d
     ELSE Put(d, s, [val |-> c.val, exp |-> IF c.ttl \in {Absent, 0} THEN Absent ELSE c.ttl])

After(d, c) ==
  CASE c.op = "set"     -> AfterSet(d, c)
    [] c.op = "mset"    -> AfterMset(d, c)
    [] c.op = "del"     -> AfterDel(d, c)
    [] c.op = "expire"  -> AfterExpire(d, c)
    [] c.op = "persist" -> AfterPersist(d, c)
    [] c.op = "rename"  -> AfterRename(d, c)
    [] c.op = "copy"    -> AfterCopy(d, c)
    [] c.op = "move"    -> AfterMove(d, c)
    [] c.op = "restore" -> AfterRestore(d, c)

(* The commands a stream may hold: those of shard i whose deadlines are    *)
(* points in time.                                                         *)
Loadable == {"set", "mset", "del", "expire", "persist", "rename", "copy", "move", "restore"}

Streamed(c, i) ==
  /\ c \in Command /\ c.op \in Loadable
  /\ ShardOf[c.key] = i /\ ShardOf[c.key2] = i
  /\ c.op = "set" /\ c.ttl # Absent /\ "keepttl" \notin c.opt => "abs" \in c.opt
  /\ c.op = "expire" => c.cond = "always" /\ "abs" \in c.opt /\ c.ttl # Absent
  /\ c.op = "restore" /\ c.ttl \notin {Absent, 0} => "abs" \in c.opt

LoaderCtx(d, c) ==
  [NewCtx(-1, c.db) EXCEPT !.dict = d, !.expires = [s \in Slots |-> Absent]]

LEMMA LoaderCtxReady ==
  ASSUME NEW d \in Dicts, NEW c \in Command
  PROVE  LET x == LoaderCtx(d, c)
         IN /\ Ready(x, c) /\ x.dict = d /\ x.now = -1
            /\ \A s \in Slots : ExistsInDb(x, s) <=> d[s] # Absent
<1> DEFINE x == LoaderCtx(d, c)
           q == <<>>
           h == [s \in Slots |-> Absent]
           t == -1
<1>1. x = [dict |-> d, expires |-> h, watch |-> watch, wseq |-> wseq,
           dirty |-> dirty, buf |-> buf, now |-> t, db |-> c.db,
           cdirty |-> 0, prop |-> "default", pbuf |-> q, result |-> "ok"]
  <2> DEFINE n == NewCtx(t, c.db)
             m == [n EXCEPT !.dict = d]
  <2>1. x = [m EXCEPT !.expires = h]
    BY DEF LoaderCtx
  <2>2. n = [dict |-> dict, expires |-> expires, watch |-> watch, wseq |-> wseq,
             dirty |-> dirty, buf |-> buf, now |-> t, db |-> c.db,
             cdirty |-> 0, prop |-> "default", pbuf |-> q, result |-> "ok"]
    BY DEF NewCtx
  <2> HIDE DEF n, x, t, q, h
  <2>3. m = [dict |-> d, expires |-> expires, watch |-> watch, wseq |-> wseq,
             dirty |-> dirty, buf |-> buf, now |-> t, db |-> c.db,
             cdirty |-> 0, prop |-> "default", pbuf |-> q, result |-> "ok"]
    BY <2>2
  <2> HIDE DEF m
  <2>4. QED
    BY <2>1, <2>3
<1>2. t \in Int
  OBVIOUS
<1> HIDE DEF x, q, h, t
<1>3. IsCtx(x) /\ x.dict = d /\ x.now = t /\ x.db = c.db
  BY <1>1, <1>2 DEF IsCtx
<1>4. \A s \in Slots : ~IsExpired(x, s)
  <2> SUFFICES ASSUME NEW s \in Slots, IsExpired(x, s) PROVE FALSE
    OBVIOUS
  <2>1. d[s] # Absent /\ d[s].exp # Absent /\ d[s].exp <= -1
    BY <1>3 DEF IsExpired, t
  <2>2. d[s].exp \in Nat
    BY <2>1, EntryOf
  <2>3. QED
    BY <2>1, <2>2
<1>5. <<c.db, c.key>> \in Slots
  BY SlotsOf
<1>6. Ready(x, c)
  BY <1>2, <1>3, <1>4, <1>5 DEF Ready
<1>7. \A s \in Slots : ExistsInDb(x, s) <=> d[s] # Absent
  BY <1>3, <1>4 DEF ExistsInDb
<1>8. QED
  BY <1>3, <1>6, <1>7 DEF x, t

LEMMA OutcomeDict ==
  ASSUME NEW x, NEW y, NEW d, NEW e
  PROVE  /\ Quits(x, y) => y.dict = x.dict
         /\ Changes(x, y, d) => y.dict = d
         /\ Tells(x, y, d, e) => y.dict = d
BY DEF Quits, Changes, Tells, Edit

(* The loader's clock is before every deadline: After is what it computes. *)
LEMMA LoadIsAfter ==
  ASSUME NEW d \in Dicts, NEW i, NEW c, Streamed(c, i)
  PROVE  Load(d, c) = After(d, c)
<1> DEFINE x == LoaderCtx(d, c)
           s == <<c.db, c.key>>
<1>0. c \in Command /\ s \in Slots /\ c.key \in Keys /\ c.key2 \in Keys /\ c.db \in DBs
      /\ <<c.db, c.key2>> \in Slots /\ <<c.to, c.key2>> \in Slots /\ <<c.to, c.key>> \in Slots
      /\ c.ttl \in Nat \cup {Absent} /\ c.to \in DBs
  BY SlotsOf DEF Streamed
<1>1. /\ Ready(x, c) /\ x.dict = d /\ x.now = -1 /\ x.db = c.db /\ IsCtx(x)
      /\ \A r \in Slots : ExistsInDb(x, r) <=> d[r] # Absent
  BY <1>0, LoaderCtxReady DEF Ready
<1>2. /\ c.op = "set" => Load(d, c) = CmdSet(x, c).dict
      /\ c.op = "mset" => Load(d, c) = CmdMset(x, c).dict
      /\ c.op = "del" => Load(d, c) = CmdDel(x, c).dict
      /\ c.op = "expire" => Load(d, c) = CmdExpire(x, c).dict
      /\ c.op = "persist" => Load(d, c) = CmdPersist(x, c).dict
      /\ c.op = "rename" => Load(d, c) = CmdRename(x, c).dict
      /\ c.op = "copy" => Load(d, c) = CmdCopy(x, c).dict
      /\ c.op = "move" => Load(d, c) = CmdMove(x, c).dict
      /\ c.op = "restore" => Load(d, c) = CmdRestore(x, c).dict
  BY DEF Load, LoaderCtx
<1> HIDE DEF x
<1>3. CASE c.op = "set"
  <2>1. SetTime(x, c) = IF "keepttl" \in c.opt
                        THEN (IF d[s] # Absent THEN d[s].exp ELSE Absent) ELSE c.ttl
    BY <1>1, <1>3 DEF SetTime, Exists, Deadline, Streamed
  <2>2. SetTime(x, c) \in Nat \cup {Absent}
    BY <1>0, <2>1, EntryOf
  <2>3. CmdSet(x, c).dict = AfterSet(d, c)
    BY <1>0, <1>1, <2>1, <2>2, SetOutcome, OutcomeDict DEF AfterSet
  <2>4. QED
    BY <1>2, <1>3, <2>3 DEF After
<1>4. CASE c.op = "mset"
  <2>a. Changes(x, CmdMset(x, c), AfterMset(x.dict, c))
    BY <1>0, <1>1, MsetOutcome DEF AfterMset
  <2>1. CmdMset(x, c).dict = AfterMset(d, c)
    BY <1>1, <2>a, OutcomeDict
  <2>2. QED
    BY <1>2, <1>4, <2>1 DEF After
<1>5. CASE c.op = "del"
  <2> DEFINE y == Remove(x, c.key)
             z == Remove(y, c.key2)
  <2>0. CmdDel(x, c) = z
    BY DEF CmdDel
  <2>1. \E n : Edit(x, y, Put(d, s, Absent), n)
    BY <1>0, <1>1, RemoveEdit DEF Ready
  <2> HIDE DEF y
  <2>2. y.dict = Put(d, s, Absent) /\ y.db = c.db /\ y.now = -1 /\ IsCtx(y)
    BY <1>1, <2>1 DEF Edit
  <2>3. ~IsExpired(y, <<c.db, c.key2>>)
    <3> SUFFICES ASSUME IsExpired(y, <<c.db, c.key2>>) PROVE FALSE
      OBVIOUS
    <3> DEFINE q == <<c.db, c.key2>>
    <3>1. y.dict[q] # Absent /\ y.dict[q].exp # Absent /\ y.dict[q].exp <= -1
      BY <2>2 DEF IsExpired
    <3>2. y.dict[q].exp \in Nat
      BY <1>0, <2>2, <3>1, EntryOf DEF IsCtx
    <3>3. QED
      BY <3>1, <3>2
  <2>4. \E n : Edit(y, z, Put(y.dict, <<c.db, c.key2>>, Absent), n)
    BY <1>0, <2>2, <2>3, RemoveEdit
  <2> HIDE DEF z
  <2>5. z.dict = AfterDel(d, c)
    BY <2>2, <2>4 DEF Edit, AfterDel
  <2>6. QED
    BY <1>2, <1>5, <2>0, <2>5 DEF After
<1>6. CASE c.op = "expire"
  <2>1. Deadline(x, c) = c.ttl /\ c.ttl \in Nat /\ c.cond = "always"
    BY <1>0, <1>6 DEF Deadline, Streamed
  <2>2. CmdExpire(x, c).dict = AfterExpire(d, c)
    <3> DEFINE y == CmdExpire(x, c)
               g == Put(d, s, [d[s] EXCEPT !.exp = c.ttl])
    <3>1. \/ Quits(x, y) /\ d[s] = Absent
          \/ d[s] # Absent /\ c.ttl <= -1
          \/ d[s] # Absent /\ Tells(x, y, g, Absolute(c, c.ttl))
      BY <1>0, <1>1, <2>1, ExpireOutcome
    <3>2. ~(c.ttl <= -1)
      BY <2>1
    <3> HIDE DEF y, g
    <3>a. Quits(x, y) => y.dict = d
      BY <1>1, OutcomeDict
    <3>b. Tells(x, y, g, Absolute(c, c.ttl)) => y.dict = g
      BY OutcomeDict
    <3>3. (d[s] = Absent /\ y.dict = d) \/ (d[s] # Absent /\ y.dict = g)
      BY <3>1, <3>2, <3>a, <3>b
    <3>4. QED
      BY <3>3 DEF AfterExpire, y, g
  <2>3. QED
    BY <1>2, <1>6, <2>2 DEF After
<1>7. CASE c.op = "persist"
  <2>1. CmdPersist(x, c).dict = AfterPersist(d, c)
    <3> DEFINE y == CmdPersist(x, c)
               g == Put(d, s, [d[s] EXCEPT !.exp = Absent])
               bad == d[s] = Absent \/ d[s].exp = Absent
    <3>1. IF bad THEN Quits(x, y) ELSE Changes(x, y, g)
      BY <1>0, <1>1, PersistOutcome
    <3> HIDE DEF y, g, bad
    <3>2. (Quits(x, y) => y.dict = d) /\ (Changes(x, y, g) => y.dict = g)
      BY <1>1, OutcomeDict
    <3>3. y.dict = IF bad THEN d ELSE g
      BY <3>1, <3>2
    <3>4. QED
      BY <3>3 DEF AfterPersist, y, g, bad
  <2>2. QED
    BY <1>2, <1>7, <2>1 DEF After
<1>8. CASE c.op = "rename"
  <2>1. CmdRename(x, c).dict = AfterRename(d, c)
    BY <1>0, <1>1, RenameOutcome, OutcomeDict DEF AfterRename, RenameBlocked
  <2>2. QED
    BY <1>2, <1>8, <2>1 DEF After
<1>9. CASE c.op = "copy"
  <2>1. CmdCopy(x, c).dict = AfterCopy(d, c)
    BY <1>0, <1>1, CopyOutcome, OutcomeDict DEF AfterCopy, CopyBlocked
  <2>2. QED
    BY <1>2, <1>9, <2>1 DEF After
<1>10. CASE c.op = "move"
  <2>1. CmdMove(x, c).dict = AfterMove(d, c)
    BY <1>0, <1>1, MoveOutcome, OutcomeDict DEF AfterMove
  <2>2. QED
    BY <1>2, <1>10, <2>1 DEF After
<1>11. CASE c.op = "restore"
  <2>1. RestoreTime(x, c) = IF c.ttl \in {Absent, 0} THEN Absent ELSE c.ttl
    BY <1>11 DEF RestoreTime, Deadline, Streamed
  <2>2. RestoreTime(x, c) \in Nat \cup {Absent}
    BY <1>0, <2>1
  <2> DEFINE y == CmdRestore(x, c)
             g == Put(d, s, [val |-> c.val, exp |-> RestoreTime(x, c)])
  <2>a. IF RestoreBlocked(d, c) THEN Quits(x, y)
        ELSE Changes(x, y, g) \/ Tells(x, y, g, Dated(c, RestoreTime(x, c)))
    BY <1>0, <1>1, <2>2, RestoreOutcome
  <2>b. g = Put(d, s, [val |-> c.val, exp |-> IF c.ttl \in {Absent, 0} THEN Absent ELSE c.ttl])
    BY <2>1
  <2> HIDE DEF y, g
  <2>c. y.dict = IF RestoreBlocked(d, c) THEN d ELSE g
    BY <1>1, <2>a, OutcomeDict
  <2>3. CmdRestore(x, c).dict = AfterRestore(d, c)
    BY <2>b, <2>c DEF AfterRestore, y
  <2>4. QED
    BY <1>2, <1>11, <2>3 DEF After
<1>12. QED
  BY <1>3, <1>4, <1>5, <1>6, <1>7, <1>8, <1>9, <1>10, <1>11 DEF Streamed, Loadable

-----------------------------------------------------------------------------
(* A command of shard i reads and changes only entries of shard i.         *)

Agree(i, d, e) == \A s \in Slots : ShardOf[s[2]] = i => d[s] = e[s]
Apart(i, d, e) == \A s \in Slots : ShardOf[s[2]] # i => d[s] = e[s]

(* From d and e, which agree on shard i, the same change leads to f and g. *)
Local(i, d, e, f, g) ==
  /\ f \in Dicts /\ g \in Dicts
  /\ Apart(i, f, d) /\ Apart(i, g, e) /\ Agree(i, f, g)

LEMMA PutAt ==
  ASSUME NEW d \in Dicts, NEW s \in Slots, NEW v
  PROVE  \A r \in Slots : Put(d, s, v)[r] = IF r = s THEN v ELSE d[r]
BY DEF Put, Dicts

LEMMA LocalPut ==
  ASSUME NEW i, NEW d \in Dicts, NEW e \in Dicts, Agree(i, d, e),
         NEW s \in Slots, ShardOf[s[2]] = i, NEW v \in Entry \cup {Absent}
  PROVE  Local(i, d, e, Put(d, s, v), Put(e, s, v))
<1> DEFINE f == Put(d, s, v)
           g == Put(e, s, v)
<1>1. f \in Dicts /\ g \in Dicts
  BY PutType
<1>2. \A r \in Slots : f[r] = IF r = s THEN v ELSE d[r]
  BY PutAt
<1>3. \A r \in Slots : g[r] = IF r = s THEN v ELSE e[r]
  BY PutAt
<1> HIDE DEF f, g
<1>4. Apart(i, f, d) /\ Apart(i, g, e)
  BY <1>2, <1>3 DEF Apart
<1>5. Agree(i, f, g)
  BY <1>2, <1>3 DEF Agree
<1>6. QED
  BY <1>1, <1>4, <1>5 DEF Local, f, g

LEMMA LocalPutTwo ==
  ASSUME NEW i, NEW d \in Dicts, NEW e \in Dicts, Agree(i, d, e),
         NEW s \in Slots, ShardOf[s[2]] = i, NEW v \in Entry \cup {Absent},
         NEW r \in Slots, ShardOf[r[2]] = i, NEW w \in Entry \cup {Absent}
  PROVE  Local(i, d, e, Put(Put(d, s, v), r, w), Put(Put(e, s, v), r, w))
<1> DEFINE f == Put(d, s, v)
           g == Put(e, s, v)
           h == Put(f, r, w)
           k == Put(g, r, w)
<1>1. Local(i, d, e, f, g)
  BY LocalPut
<1> HIDE DEF f, g
<1>2. Local(i, f, g, h, k)
  BY <1>1, LocalPut DEF Local
<1> HIDE DEF h, k
<1>3. Local(i, d, e, h, k)
  BY <1>1, <1>2 DEF Local, Apart
<1>4. QED
  BY <1>3 DEF f, g, h, k

LEMMA AfterLocal ==
  ASSUME NEW i, NEW d \in Dicts, NEW e \in Dicts, Agree(i, d, e), NEW c, Streamed(c, i)
  PROVE  Local(i, d, e, After(d, c), After(e, c))
<1> DEFINE s == <<c.db, c.key>>
           q == <<c.db, c.key2>>
           m == <<c.to, c.key>>
           n == <<c.to, c.key2>>
<1>0. /\ c \in Command /\ s \in Slots /\ q \in Slots /\ m \in Slots /\ n \in Slots
      /\ c.val \in Vals /\ c.ttl \in Nat \cup {Absent}
  BY SlotsOf DEF Streamed
<1>1. ShardOf[s[2]] = i /\ ShardOf[q[2]] = i /\ ShardOf[m[2]] = i /\ ShardOf[n[2]] = i
  BY DEF Streamed
<1>2. d[s] = e[s] /\ d[q] = e[q] /\ d[m] = e[m] /\ d[n] = e[n]
  BY <1>0, <1>1 DEF Agree
<1>3. Local(i, d, e, d, e)
  BY DEF Local, Apart
<1>4. \A t \in Nat \cup {Absent} : [val |-> c.val, exp |-> t] \in Entry
  BY <1>0 DEF Entry
<1>5. d[s] # Absent => /\ d[s] \in Entry /\ d[s].exp \in Nat \cup {Absent}
                       /\ \A t \in Nat \cup {Absent} : [d[s] EXCEPT !.exp = t] \in Entry
  <2> SUFFICES ASSUME d[s] # Absent
               PROVE  /\ d[s] \in Entry /\ d[s].exp \in Nat \cup {Absent}
                      /\ \A t \in Nat \cup {Absent} : [d[s] EXCEPT !.exp = t] \in Entry
    OBVIOUS
  <2>1. d[s] \in Entry /\ d[s].exp \in Nat \cup {Absent}
    BY <1>0, EntryOf
  <2>2. \A t \in Nat \cup {Absent} : [d[s] EXCEPT !.exp = t] \in Entry
    BY <2>1 DEF Entry
  <2>3. QED
    BY <2>1, <2>2
<1> DEFINE B == Entry \cup {Absent}
<1>6. \A v \in B : Local(i, d, e, Put(d, s, v), Put(e, s, v)) /\ Local(i, d, e, Put(d, n, v), Put(e, n, v))
  BY <1>0, <1>1, LocalPut
<1>7. \A v, w \in B : /\ Local(i, d, e, Put(Put(d, s, v), q, w), Put(Put(e, s, v), q, w))
                      /\ Local(i, d, e, Put(Put(d, s, v), m, w), Put(Put(e, s, v), m, w))
  BY <1>0, <1>1, LocalPutTwo
<1>8. Absent \in B /\ (d[s] # Absent => d[s] \in B)
  BY <1>5
<1> HIDE DEF s, q, m, n
<1>a. SetBlocked(d, c) <=> SetBlocked(e, c)
  BY <1>2 DEF SetBlocked, s
<1>b. RestoreBlocked(d, c) <=> RestoreBlocked(e, c)
  BY <1>2 DEF RestoreBlocked, s
<1>9. CASE c.op = "set"
  <2> DEFINE v == [val |-> c.val, exp |-> IF "keepttl" \in c.opt
                                          THEN (IF d[s] # Absent THEN d[s].exp ELSE Absent)
                                          ELSE c.ttl]
  <2>1. v \in B
    BY <1>0, <1>4, <1>5
  <2>2. /\ AfterSet(d, c) = IF SetBlocked(d, c) THEN d ELSE Put(d, s, v)
        /\ AfterSet(e, c) = IF SetBlocked(e, c) THEN e ELSE Put(e, s, v)
    BY <1>2 DEF AfterSet, s
  <2> HIDE DEF v, B
  <2>3. Local(i, d, e, AfterSet(d, c), AfterSet(e, c))
    BY <1>3, <1>6, <1>a, <2>1, <2>2
  <2>4. QED
    BY <1>9, <2>3 DEF After
<1>10. CASE c.op = "mset"
  <2> DEFINE v == [val |-> c.val, exp |-> Absent]
  <2>1. v \in B
    BY <1>4
  <2>2. AfterMset(d, c) = Put(Put(d, s, v), q, v) /\ AfterMset(e, c) = Put(Put(e, s, v), q, v)
    BY DEF AfterMset, s, q
  <2> HIDE DEF v, B
  <2>3. Local(i, d, e, AfterMset(d, c), AfterMset(e, c))
    BY <1>7, <2>1, <2>2
  <2>4. QED
    BY <1>10, <2>3 DEF After
<1>11. CASE c.op = "del"
  <2>1. /\ AfterDel(d, c) = Put(Put(d, s, Absent), q, Absent)
        /\ AfterDel(e, c) = Put(Put(e, s, Absent), q, Absent)
    BY DEF AfterDel, s, q
  <2> HIDE DEF B
  <2>2. Local(i, d, e, AfterDel(d, c), AfterDel(e, c))
    BY <1>7, <1>8, <2>1
  <2>3. QED
    BY <1>11, <2>2 DEF After
<1>12. CASE c.op = "expire"
  <2> DEFINE v == [d[s] EXCEPT !.exp = c.ttl]
  <2>1. d[s] # Absent => v \in B
    BY <1>0, <1>5
  <2>2. /\ AfterExpire(d, c) = IF d[s] = Absent THEN d ELSE Put(d, s, v)
        /\ AfterExpire(e, c) = IF d[s] = Absent THEN e ELSE Put(e, s, v)
    BY <1>2 DEF AfterExpire, s
  <2> HIDE DEF v, B
  <2>3. Local(i, d, e, AfterExpire(d, c), AfterExpire(e, c))
    BY <1>3, <1>6, <2>1, <2>2
  <2>4. QED
    BY <1>12, <2>3 DEF After
<1>13. CASE c.op = "persist"
  <2> DEFINE v == [d[s] EXCEPT !.exp = Absent]
             bad == d[s] = Absent \/ d[s].exp = Absent
  <2>1. ~bad => v \in B
    BY <1>5
  <2>2. /\ AfterPersist(d, c) = IF bad THEN d ELSE Put(d, s, v)
        /\ AfterPersist(e, c) = IF bad THEN e ELSE Put(e, s, v)
    BY <1>2 DEF AfterPersist, s
  <2> HIDE DEF v, B, bad
  <2>3. Local(i, d, e, AfterPersist(d, c), AfterPersist(e, c))
    BY <1>3, <1>6, <2>1, <2>2
  <2>4. QED
    BY <1>13, <2>3 DEF After
<1>14. CASE c.op = "rename"
  <2> DEFINE bad == d[s] = Absent \/ s = q \/ ("nx" \in c.opt /\ d[q] # Absent)
             v == d[s]
  <2>1. ~bad => v \in B
    BY <1>8
  <2>2. /\ AfterRename(d, c) = IF bad THEN d ELSE Put(Put(d, s, Absent), q, v)
        /\ AfterRename(e, c) = IF bad THEN e ELSE Put(Put(e, s, Absent), q, v)
    BY <1>2 DEF AfterRename, s, q
  <2> HIDE DEF v, B, bad
  <2>3. Local(i, d, e, AfterRename(d, c), AfterRename(e, c))
    BY <1>3, <1>7, <1>8, <2>1, <2>2
  <2>4. QED
    BY <1>14, <2>3 DEF After
<1>15. CASE c.op = "copy"
  <2> DEFINE bad == s = n \/ d[s] = Absent \/ (d[n] # Absent /\ "replace" \notin c.opt)
             v == d[s]
  <2>1. ~bad => v \in B
    BY <1>8
  <2>2. /\ AfterCopy(d, c) = IF bad THEN d ELSE Put(d, n, v)
        /\ AfterCopy(e, c) = IF bad THEN e ELSE Put(e, n, v)
    BY <1>2 DEF AfterCopy, s, n
  <2> HIDE DEF v, B, bad
  <2>3. Local(i, d, e, AfterCopy(d, c), AfterCopy(e, c))
    BY <1>3, <1>6, <1>8, <2>1, <2>2
  <2>4. QED
    BY <1>15, <2>3 DEF After
<1>16. CASE c.op = "move"
  <2> DEFINE bad == c.to = c.db \/ d[s] = Absent \/ d[m] # Absent
             v == d[s]
  <2>1. ~bad => v \in B
    BY <1>8
  <2>2. /\ AfterMove(d, c) = IF bad THEN d ELSE Put(Put(d, s, Absent), m, v)
        /\ AfterMove(e, c) = IF bad THEN e ELSE Put(Put(e, s, Absent), m, v)
    BY <1>2 DEF AfterMove, s, m
  <2> HIDE DEF v, B, bad
  <2>3. Local(i, d, e, AfterMove(d, c), AfterMove(e, c))
    BY <1>3, <1>7, <1>8, <2>1, <2>2
  <2>4. QED
    BY <1>16, <2>3 DEF After
<1>17. CASE c.op = "restore"
  <2> DEFINE v == [val |-> c.val, exp |-> IF c.ttl \in {Absent, 0} THEN Absent ELSE c.ttl]
  <2>1. v \in B
    BY <1>0, <1>4
  <2>2. /\ AfterRestore(d, c) = IF RestoreBlocked(d, c) THEN d ELSE Put(d, s, v)
        /\ AfterRestore(e, c) = IF RestoreBlocked(e, c) THEN e ELSE Put(e, s, v)
    BY DEF AfterRestore, s
  <2> HIDE DEF v, B
  <2>3. Local(i, d, e, AfterRestore(d, c), AfterRestore(e, c))
    BY <1>3, <1>6, <1>b, <2>1, <2>2
  <2>4. QED
    BY <1>17, <2>3 DEF After
<1>18. QED
  BY <1>9, <1>10, <1>11, <1>12, <1>13, <1>14, <1>15, <1>16, <1>17 DEF Streamed, Loadable

-----------------------------------------------------------------------------
(* The stream of one shard.                                                *)

(* g holds the keyspaces the loader goes through when it starts from r.    *)
Chain(g, r, w) ==
  /\ g \in [0..Len(w) -> Dicts]
  /\ g[0] = r
  /\ \A n \in 1..Len(w) : g[n] = After(g[n - 1], w[n])

AllStreamed(w, i) == w \in Seq(Command) /\ \A n \in 1..Len(w) : Streamed(w[n], i)

(* The stream w of shard i leads from r to what d has on shard i.          *)
Covers(i, r, w, d) ==
  AllStreamed(w, i) /\ \E g : Chain(g, r, w) /\ Agree(i, g[Len(w)], d)

LEMMA CoversEmpty ==
  ASSUME NEW i, NEW r \in Dicts, NEW d, Agree(i, r, d)
  PROVE  Covers(i, r, <<>>, d)
<1> DEFINE w == <<>>
           g == [n \in 0..0 |-> r]
<1>1. AllStreamed(w, i) /\ Len(w) = 0
  BY DEF AllStreamed
<1>2. Chain(g, r, w) /\ g[Len(w)] = r
  BY <1>1 DEF Chain
<1> HIDE DEF w, g
<1>3. Covers(i, r, w, d)
  BY <1>1, <1>2 DEF Covers
<1>4. QED
  BY <1>3 DEF w

LEMMA CoversSame ==
  ASSUME NEW i, NEW r, NEW w, NEW d, NEW e, Covers(i, r, w, d), Agree(i, d, e)
  PROVE  Covers(i, r, w, e)
BY DEF Covers, Agree

LEMMA CoversAppend ==
  ASSUME NEW i, NEW r, NEW w, NEW d \in Dicts, Covers(i, r, w, d), NEW c, Streamed(c, i)
  PROVE  Covers(i, r, Append(w, c), After(d, c))
<1> DEFINE v == Append(w, c)
<1>1. PICK g : Chain(g, r, w) /\ Agree(i, g[Len(w)], d)
  BY DEF Covers
<1> DEFINE z == After(g[Len(w)], c)
           h == [n \in 0..Len(w)+1 |-> IF n <= Len(w) THEN g[n] ELSE z]
<1>2. w \in Seq(Command) /\ Len(w) \in Nat /\ \A n \in 1..Len(w) : Streamed(w[n], i)
  BY DEF Covers, AllStreamed
<1>3. c \in Command
  BY DEF Streamed
<1>4. /\ v \in Seq(Command) /\ Len(v) = Len(w) + 1 /\ v[Len(w) + 1] = c
      /\ \A n \in 1..Len(w) : v[n] = w[n]
  BY <1>2, <1>3, AppendProperties
<1> HIDE DEF v
<1>5. AllStreamed(v, i)
  <2> SUFFICES ASSUME NEW n \in 1..Len(v) PROVE Streamed(v[n], i)
    BY <1>4 DEF AllStreamed
  <2>1. n \in 1..Len(w) \/ n = Len(w) + 1
    BY <1>2, <1>4
  <2>2. QED
    BY <1>2, <1>4, <2>1
<1>6. g[Len(w)] \in Dicts
  BY <1>1, <1>2 DEF Chain
<1>7. Local(i, g[Len(w)], d, z, After(d, c))
  BY <1>1, <1>6, AfterLocal
<1>8. z \in Dicts /\ Agree(i, z, After(d, c))
  BY <1>7 DEF Local
<1> HIDE DEF z
<1>9. Chain(h, r, v)
  <2>1. h \in [0..Len(v) -> Dicts] /\ h[0] = r
    BY <1>1, <1>2, <1>4, <1>8 DEF Chain
  <2>2. ASSUME NEW n \in 1..Len(v) PROVE h[n] = After(h[n - 1], v[n])
    <3>1. CASE n <= Len(w)
      <4>1. n \in 1..Len(w) /\ n \in 0..Len(w)+1 /\ n - 1 \in 0..Len(w)+1 /\ n - 1 <= Len(w)
        BY <1>2, <1>4, <3>1
      <4>2. g[n] = After(g[n - 1], w[n])
        BY <1>1, <4>1 DEF Chain
      <4>3. h[n] = g[n] /\ h[n - 1] = g[n - 1] /\ v[n] = w[n]
        BY <1>4, <3>1, <4>1
      <4>4. QED
        BY <4>2, <4>3
    <3>2. CASE ~(n <= Len(w))
      <4>1. n = Len(w) + 1 /\ n - 1 = Len(w) /\ Len(w) \in 0..Len(w)+1
            /\ n \in 0..Len(w)+1 /\ Len(w) <= Len(w)
        BY <1>2, <1>4, <3>2
      <4>2. h[n] = z /\ h[n - 1] = g[Len(w)] /\ v[n] = c
        BY <1>4, <3>2, <4>1
      <4>3. QED
        BY <4>2 DEF z
    <3>3. QED
      BY <3>1, <3>2
  <2> HIDE DEF h
  <2>3. QED
    BY <2>1, <2>2 DEF Chain
<1>10. h[Len(v)] = z
  <2>1. Len(v) \in 0..Len(w)+1 /\ ~(Len(v) <= Len(w))
    BY <1>2, <1>4
  <2>2. QED
    BY <2>1
<1> HIDE DEF h
<1>11. Covers(i, r, v, After(d, c))
  BY <1>5, <1>8, <1>9, <1>10 DEF Covers
<1>12. QED
  BY <1>11 DEF v

(* A stream of shard i does the same from any keyspace with these entries. *)
LEMMA CoversMoved ==
  ASSUME NEW i, NEW r \in Dicts, NEW q \in Dicts, NEW w, NEW d,
         Covers(i, r, w, d), Agree(i, r, q)
  PROVE  Covers(i, q, w, d)
<1>1. PICK g : Chain(g, r, w) /\ Agree(i, g[Len(w)], d)
  BY DEF Covers
<1>2. w \in Seq(Command) /\ Len(w) \in Nat /\ \A n \in 1..Len(w) : Streamed(w[n], i)
  BY DEF Covers, AllStreamed
<1> DEFINE do(n, e) == IF n < Len(w) THEN After(e, w[n + 1]) ELSE e
           step == [p \in Nat \X Dicts |-> do(p[1], p[2])]
<1>3. ASSUME NEW n \in Nat, NEW e \in Dicts PROVE do(n, e) \in Dicts
  <2>1. CASE n < Len(w)
    <3>1. n + 1 \in 1..Len(w)
      BY <1>2, <2>1
    <3>2. Local(i, e, e, After(e, w[n + 1]), After(e, w[n + 1]))
      <4>1. Streamed(w[n + 1], i) /\ Agree(i, e, e)
        BY <1>2, <3>1 DEF Agree
      <4>2. QED
        BY <4>1, AfterLocal
    <3>3. QED
      BY <2>1, <3>2 DEF Local
  <2>2. CASE ~(n < Len(w))
    BY <2>2
  <2>3. QED
    BY <2>1, <2>2
<1> HIDE DEF do
<1>4. step \in [Nat \X Dicts -> Dicts]
  BY <1>3
<1>5. \A n \in Nat, e \in Dicts : step[<<n, e>>] = do(n, e)
  OBVIOUS
<1> HIDE DEF step
<1>a. Unrolls(Dicts, q, step)
  BY <1>4, Recursion
<1>6. PICK f \in [Nat -> Dicts] : f[0] = q /\ \A n \in Nat : f[n + 1] = step[<<n, f[n]>>]
  BY <1>a DEF Unrolls
<1>7. \A n \in Nat : n < Len(w) => f[n + 1] = After(f[n], w[n + 1])
  <2> SUFFICES ASSUME NEW n \in Nat, n < Len(w) PROVE f[n + 1] = After(f[n], w[n + 1])
    OBVIOUS
  <2>1. f[n] \in Dicts /\ f[n + 1] = step[<<n, f[n]>>]
    BY <1>6
  <2>2. QED
    BY <1>5, <2>1 DEF do
<1> DEFINE T == {n \in Nat : n <= Len(w) => Agree(i, g[n], f[n])}
<1>8. 0 \in T
  BY <1>1, <1>6 DEF Chain
<1>9. ASSUME NEW n \in Nat, n \in T PROVE n + 1 \in T
  <2> SUFFICES ASSUME n + 1 <= Len(w) PROVE Agree(i, g[n + 1], f[n + 1])
    OBVIOUS
  <2>1. n <= Len(w) /\ n < Len(w) /\ n \in 0..Len(w) /\ n + 1 \in 1..Len(w) /\ (n + 1) - 1 = n
    BY <1>2
  <2>2. g[n + 1] = After(g[n], w[n + 1]) /\ g[n] \in Dicts
    BY <1>1, <2>1 DEF Chain
  <2>3. f[n + 1] = After(f[n], w[n + 1]) /\ f[n] \in Dicts
    BY <1>6, <1>7, <2>1
  <2>4. Agree(i, g[n], f[n]) /\ Streamed(w[n + 1], i)
    BY <1>2, <1>9, <2>1
  <2>5. Local(i, g[n], f[n], After(g[n], w[n + 1]), After(f[n], w[n + 1]))
    BY <2>2, <2>3, <2>4, AfterLocal
  <2>6. QED
    BY <2>2, <2>3, <2>5 DEF Local
<1>10. \A n \in Nat : n \in T
  <2> HIDE DEF T
  <2>1. QED
    BY <1>8, <1>9, Induction
<1> DEFINE h == [n \in 0..Len(w) |-> f[n]]
<1>11. Chain(h, q, w)
  <2>1. h \in [0..Len(w) -> Dicts] /\ h[0] = q
    BY <1>2, <1>6
  <2>2. ASSUME NEW n \in 1..Len(w) PROVE h[n] = After(h[n - 1], w[n])
    <3>1. n - 1 \in Nat /\ n - 1 < Len(w) /\ (n - 1) + 1 = n /\ n - 1 \in 0..Len(w) /\ n \in 0..Len(w)
      BY <1>2
    <3>2. f[(n - 1) + 1] = After(f[n - 1], w[(n - 1) + 1])
      BY <1>7, <3>1
    <3>3. QED
      BY <3>1, <3>2
  <2> HIDE DEF h
  <2>3. QED
    BY <2>1, <2>2 DEF Chain
<1>12. Agree(i, h[Len(w)], d)
  <2>1. Agree(i, g[Len(w)], f[Len(w)]) /\ h[Len(w)] = f[Len(w)]
    BY <1>2, <1>10
  <2>2. QED
    BY <1>1, <2>1 DEF Agree
<1> HIDE DEF h
<1>13. QED
  BY <1>11, <1>12 DEF Covers

(* Loading it command by command is what Replay does.                      *)
LEMMA ReplayCovers ==
  ASSUME NEW i, NEW r \in Dicts, NEW w, NEW d, Covers(i, r, w, d)
  PROVE  LET e == Replay(r, w)
         IN e \in Dicts /\ Agree(i, e, d) /\ Apart(i, e, r)
<1>1. PICK g : Chain(g, r, w) /\ Agree(i, g[Len(w)], d)
  BY DEF Covers
<1>2. w \in Seq(Command) /\ Len(w) \in Nat /\ \A n \in 1..Len(w) : Streamed(w[n], i)
  BY DEF Covers, AllStreamed
<1> DEFINE Eq(f) == f = [n \in 0..Len(w) |-> IF n = 0 THEN r ELSE Load(f[n - 1], w[n])]
           after == CHOOSE f : Eq(f)
<1>3. ASSUME NEW n \in 1..Len(w) PROVE g[n] = Load(g[n - 1], w[n]) /\ n # 0
  <2>1. n - 1 \in 0..Len(w) /\ n # 0
    BY <1>2
  <2>2. g[n - 1] \in Dicts /\ g[n] = After(g[n - 1], w[n])
    BY <1>1, <2>1 DEF Chain
  <2>3. QED
    BY <1>2, <2>1, <2>2, LoadIsAfter
<1>4. Eq(g)
  <2>1. g = [n \in 0..Len(w) |-> g[n]]
    BY <1>1 DEF Chain
  <2>2. ASSUME NEW n \in 0..Len(w) PROVE g[n] = IF n = 0 THEN r ELSE Load(g[n - 1], w[n])
    <3>1. n = 0 \/ n \in 1..Len(w)
      BY <1>2
    <3>2. QED
      BY <1>1, <1>3, <3>1 DEF Chain
  <2>3. QED
    BY <2>1, <2>2
<1>5. Eq(after)
  <2> HIDE DEF Eq
  <2>1. QED
    BY <1>4
<1>6. Replay(r, w) = after[Len(w)]
  BY DEF Replay
<1> HIDE DEF after
<1> DEFINE T == {n \in Nat : n <= Len(w) => after[n] = g[n]}
<1>7. 0 \in T
  BY <1>1, <1>2, <1>5 DEF Chain
<1>8. ASSUME NEW n \in Nat, n \in T PROVE n + 1 \in T
  <2> SUFFICES ASSUME n + 1 <= Len(w) PROVE after[n + 1] = g[n + 1]
    OBVIOUS
  <2>1. n <= Len(w) /\ n + 1 \in 1..Len(w) /\ n + 1 \in 0..Len(w) /\ (n + 1) - 1 = n /\ n + 1 # 0
    BY <1>2
  <2>2. after[n + 1] = Load(after[n], w[n + 1])
    BY <1>5, <2>1
  <2>3. g[n + 1] = Load(g[n], w[n + 1])
    BY <1>3, <2>1
  <2>4. QED
    BY <1>8, <2>1, <2>2, <2>3
<1>9. \A n \in Nat : n \in T
  <2> HIDE DEF T
  <2>1. QED
    BY <1>7, <1>8, Induction
<1>10. Replay(r, w) = g[Len(w)]
  BY <1>2, <1>6, <1>9
<1> DEFINE U == {n \in Nat : n <= Len(w) => Apart(i, g[n], r)}
<1>11. 0 \in U
  BY <1>1 DEF Chain, Apart
<1>12. ASSUME NEW n \in Nat, n \in U PROVE n + 1 \in U
  <2> SUFFICES ASSUME n + 1 <= Len(w) PROVE Apart(i, g[n + 1], r)
    OBVIOUS
  <2>1. n <= Len(w) /\ n \in 0..Len(w) /\ n + 1 \in 1..Len(w) /\ (n + 1) - 1 = n
    BY <1>2
  <2>2. g[n + 1] = After(g[n], w[n + 1]) /\ g[n] \in Dicts
    BY <1>1, <2>1 DEF Chain
  <2>3. Agree(i, g[n], g[n]) /\ Streamed(w[n + 1], i)
    BY <1>2, <2>1 DEF Agree
  <2>4. Local(i, g[n], g[n], g[n + 1], g[n + 1])
    BY <2>2, <2>3, AfterLocal
  <2>5. Apart(i, g[n + 1], g[n]) /\ Apart(i, g[n], r)
    BY <1>12, <2>1, <2>4 DEF Local
  <2>6. QED
    BY <2>5 DEF Apart
<1>13. \A n \in Nat : n \in U
  <2> HIDE DEF U
  <2>1. QED
    BY <1>11, <1>12, Induction
<1>14. g[Len(w)] \in Dicts
  BY <1>1, <1>2 DEF Chain
<1>15. QED
  BY <1>1, <1>2, <1>10, <1>13, <1>14

-----------------------------------------------------------------------------
(* The live side.                                                          *)

(* No entry of P has a deadline.                                           *)
Steady(P, d) == \A s \in P : d[s] = Absent \/ d[s].exp = Absent

(* The buffers of x lead r to the entries of x.                            *)
Covered(x, r) == \A i \in Shards : Covers(i, r, x.buf[i], x.dict)

Fresh(x) == x.prop = "default" /\ x.pbuf = <<>> /\ x.result = "ok" /\ x.cdirty = 0

(* A Ctx whose entries are what the replica r will have.                   *)
Live(P, r, x) ==
  /\ IsCtx(x) /\ x.buf \in [Shards -> Seq(Command)] /\ x.now \in Nat /\ x.db \in DBs
  /\ Fresh(x) /\ Covered(x, r) /\ Steady(P, x.dict)

(* Calm commands give no deadline to a slot of P on either side.           *)
LEMMA AfterSteady ==
  ASSUME NEW P \in SUBSET Slots, NEW d \in Dicts, Steady(P, d), NEW i, NEW c, Streamed(c, i), Calm(P, c)
  PROVE  Steady(P, After(d, c))
<1> DEFINE s == <<c.db, c.key>>
           q == <<c.db, c.key2>>
           m == <<c.to, c.key>>
           n == <<c.to, c.key2>>
           rest(e) == e = Absent \/ e.exp = Absent
<1>0. c \in Command /\ s \in Slots /\ q \in Slots /\ m \in Slots /\ n \in Slots
  BY SlotsOf DEF Streamed
<1>1. ASSUME NEW e \in Dicts, Steady(P, e), NEW t \in Slots, NEW v \in Entry \cup {Absent}, t \in P => rest(v)
      PROVE  Steady(P, Put(e, t, v)) /\ Put(e, t, v) \in Dicts
  BY <1>1, PutAt, PutType DEF Steady
<1>2. s \in P => rest(d[s])
  BY DEF Steady
<1>3. d[s] # Absent => d[s] \in Entry
  BY <1>0, EntryOf
<1>4. Absent \in Entry \cup {Absent} /\ rest(Absent)
  OBVIOUS
<1>5. Local(i, d, d, After(d, c), After(d, c))
  <2>1. Agree(i, d, d)
    BY DEF Agree
  <2>2. QED
    BY <2>1, AfterLocal
<1>t. c.ttl \in Nat \cup {Absent} /\ c.val \in Vals
  BY <1>0, SlotsOf
<1>e. \A t \in Nat \cup {Absent} : [val |-> c.val, exp |-> t] \in Entry
  BY <1>t DEF Entry
<1> HIDE DEF s, q, m, n
<1>6. CASE c.op = "set"
  <2> DEFINE t == IF "keepttl" \in c.opt
                  THEN (IF d[s] # Absent THEN d[s].exp ELSE Absent) ELSE c.ttl
             v == [val |-> c.val, exp |-> t]
  <2>1. After(d, c) = IF SetBlocked(d, c) THEN d ELSE Put(d, s, v)
    BY <1>6 DEF After, AfterSet, s
  <2>2. t \in Nat \cup {Absent}
    BY <1>3, <1>t DEF Entry
  <2>3. s \in P => t = Absent
    BY <1>2, <1>6 DEF Calm, s
  <2> HIDE DEF t
  <2>4. v \in Entry \cup {Absent} /\ (s \in P => rest(v))
    BY <1>e, <2>2, <2>3
  <2> HIDE DEF v
  <2>5. QED
    BY <1>0, <1>1, <2>1, <2>4
<1>7. CASE c.op = "mset"
  <2> DEFINE v == [val |-> c.val, exp |-> Absent]
             e == Put(d, s, v)
  <2>1. After(d, c) = Put(e, q, v)
    BY <1>7 DEF After, AfterMset, s, q
  <2>2. v \in Entry \cup {Absent} /\ rest(v)
    BY <1>e
  <2> HIDE DEF v, rest
  <2>3. Steady(P, e) /\ e \in Dicts
    BY <1>0, <1>1, <2>2
  <2> HIDE DEF e
  <2>4. QED
    BY <1>0, <1>1, <2>1, <2>2, <2>3
<1>8. CASE c.op = "del"
  <2> DEFINE e == Put(d, s, Absent)
  <2>1. After(d, c) = Put(e, q, Absent)
    BY <1>8 DEF After, AfterDel, s, q
  <2> HIDE DEF rest
  <2>3. Steady(P, e) /\ e \in Dicts
    BY <1>0, <1>1, <1>4
  <2> HIDE DEF e
  <2>4. QED
    BY <1>0, <1>1, <1>4, <2>1, <2>3
<1>9. CASE c.op = "expire"
  <2> DEFINE v == [d[s] EXCEPT !.exp = c.ttl]
  <2>1. After(d, c) = IF d[s] = Absent THEN d ELSE Put(d, s, v)
    BY <1>9 DEF After, AfterExpire, s
  <2>2. d[s] # Absent => v \in Entry \cup {Absent}
    BY <1>3, <1>t DEF Entry
  <2>3. s \notin P
    BY <1>9 DEF Calm, s
  <2> HIDE DEF v
  <2>4. QED
    BY <1>0, <1>1, <2>1, <2>2, <2>3
<1>10. CASE c.op = "persist"
  <2> DEFINE v == [d[s] EXCEPT !.exp = Absent]
             bad == d[s] = Absent \/ d[s].exp = Absent
  <2>1. After(d, c) = IF bad THEN d ELSE Put(d, s, v)
    BY <1>10 DEF After, AfterPersist, s
  <2>2. ~bad => v \in Entry \cup {Absent} /\ rest(v)
    BY <1>3 DEF Entry
  <2> HIDE DEF v, bad
  <2>3. QED
    BY <1>0, <1>1, <2>1, <2>2
<1>11. CASE c.op = "rename"
  <2> DEFINE e == Put(d, s, Absent)
             bad == d[s] = Absent \/ s = q \/ ("nx" \in c.opt /\ d[q] # Absent)
  <2>1. After(d, c) = IF bad THEN d ELSE Put(e, q, d[s])
    BY <1>11 DEF After, AfterRename, s, q
  <2>2. q \in P => s \in P
    BY <1>11 DEF Calm, s, q
  <2>3. ~bad => d[s] \in Entry \cup {Absent}
    BY <1>3
  <2>4. Steady(P, e) /\ e \in Dicts
    BY <1>0, <1>1, <1>4
  <2> HIDE DEF e, bad
  <2>5. QED
    BY <1>0, <1>1, <1>2, <2>1, <2>2, <2>3, <2>4
<1>12. CASE c.op = "copy"
  <2> DEFINE bad == s = n \/ d[s] = Absent \/ (d[n] # Absent /\ "replace" \notin c.opt)
  <2>1. After(d, c) = IF bad THEN d ELSE Put(d, n, d[s])
    BY <1>12 DEF After, AfterCopy, s, n
  <2>2. n \in P => s \in P
    BY <1>12 DEF Calm, s, n
  <2>3. ~bad => d[s] \in Entry \cup {Absent}
    BY <1>3
  <2> HIDE DEF bad
  <2>5. QED
    BY <1>0, <1>1, <1>2, <2>1, <2>2, <2>3
<1>13. CASE c.op = "move"
  <2> DEFINE e == Put(d, s, Absent)
             bad == c.to = c.db \/ d[s] = Absent \/ d[m] # Absent
  <2>1. After(d, c) = IF bad THEN d ELSE Put(e, m, d[s])
    BY <1>13 DEF After, AfterMove, s, m
  <2>2. m \in P => s \in P
    BY <1>13 DEF Calm, s, m
  <2>3. ~bad => d[s] \in Entry \cup {Absent}
    BY <1>3
  <2>4. Steady(P, e) /\ e \in Dicts
    BY <1>0, <1>1, <1>4
  <2> HIDE DEF e, bad
  <2>5. QED
    BY <1>0, <1>1, <1>2, <2>1, <2>2, <2>3, <2>4
<1>14. CASE c.op = "restore"
  <2> DEFINE t == IF c.ttl \in {Absent, 0} THEN Absent ELSE c.ttl
             v == [val |-> c.val, exp |-> t]
  <2>1. After(d, c) = IF RestoreBlocked(d, c) THEN d ELSE Put(d, s, v)
    BY <1>14 DEF After, AfterRestore, s
  <2>2. t \in Nat \cup {Absent}
    BY <1>t
  <2>3. s \in P => t = Absent
    BY <1>14 DEF Calm, s
  <2> HIDE DEF t
  <2>4. v \in Entry \cup {Absent} /\ (s \in P => rest(v))
    BY <1>e, <2>2, <2>3
  <2> HIDE DEF v
  <2>5. QED
    BY <1>0, <1>1, <2>1, <2>4
<1>15. QED
  BY <1>6, <1>7, <1>8, <1>9, <1>10, <1>11, <1>12, <1>13, <1>14 DEF Streamed, Loadable

(* A command appended to the buffer of its shard, and its effect.          *)
LEMMA CoveredStep ==
  ASSUME NEW r, NEW x, NEW y, NEW i \in Shards, NEW e, x.dict \in Dicts,
         x.buf \in [Shards -> Seq(Command)], Covered(x, r), Streamed(e, i),
         y.buf = [x.buf EXCEPT ![i] = Append(@, e)], y.dict = After(x.dict, e)
  PROVE  Covered(y, r) /\ y.buf \in [Shards -> Seq(Command)] /\ y.dict \in Dicts
<1> DEFINE w == Append(x.buf[i], e)
<1>0. w \in Seq(Command)
  BY AppendProperties DEF Streamed
<1>1. Local(i, x.dict, x.dict, y.dict, y.dict)
  <2>1. Agree(i, x.dict, x.dict)
    BY DEF Agree
  <2>2. QED
    BY <2>1, AfterLocal
<1>2. Covers(i, r, w, y.dict)
  BY CoversAppend DEF Covered
<1>3. y.buf = [x.buf EXCEPT ![i] = w]
  OBVIOUS
<1> HIDE DEF w
<1>4. y.buf[i] = w /\ \A j \in Shards : j # i => y.buf[j] = x.buf[j]
  BY <1>3
<1>5. y.buf \in [Shards -> Seq(Command)]
  BY <1>0, <1>3
<1>6. ASSUME NEW j \in Shards, j # i PROVE Covers(j, r, y.buf[j], y.dict)
  <2>1. Agree(j, x.dict, y.dict)
    BY <1>1, <1>6 DEF Local, Apart, Agree
  <2>2. Covers(j, r, x.buf[j], x.dict) /\ y.buf[j] = x.buf[j]
    BY <1>4, <1>6 DEF Covered
  <2>3. QED
    BY <2>1, <2>2, CoversSame
<1>7. Covered(y, r)
  BY <1>2, <1>4, <1>6 DEF Covered
<1>8. QED
  BY <1>1, <1>5, <1>7 DEF Local

LEMMA DelStreamed ==
  ASSUME NEW P, NEW d \in Dicts, NEW b \in DBs, NEW k \in Keys
  PROVE  /\ Streamed(Del(b, k), ShardOf[k]) /\ Calm(P, Del(b, k))
         /\ After(d, Del(b, k)) = Put(d, <<b, k>>, Absent)
<1> DEFINE e == Del(b, k)
           s == <<b, k>>
<1>1. e \in Command /\ e.op = "del" /\ e.db = b /\ e.key = k /\ e.key2 = k
  BY DelType DEF Del
<1> HIDE DEF e
<1>2. Streamed(e, ShardOf[k]) /\ Calm(P, e)
  BY <1>1 DEF Streamed, Calm, Loadable
<1>3. After(d, e) = Put(Put(d, s, Absent), s, Absent)
  BY <1>1 DEF After, AfterDel
<1>4. Put(Put(d, s, Absent), s, Absent) = Put(d, s, Absent)
  BY DEF Put, Dicts, Slots
<1>5. QED
  BY <1>2, <1>3, <1>4 DEF e

(* expire_if_needed: the entry goes, and its DEL goes into the buffer.     *)
LEMMA ExpireEffect ==
  ASSUME Propagating, NEW x, IsCtx(x), x.db \in DBs, NEW k \in Keys
  PROVE  LET y == ExpireIfNeeded(x, k)
             s == <<x.db, k>>
             b == [x.buf EXCEPT ![ShardOf[k]] = Append(@, Del(x.db, k))]
         IN /\ IsCtx(y) /\ y.now = x.now /\ y.db = x.db /\ y.prop = x.prop
            /\ y.pbuf = x.pbuf /\ y.result = x.result /\ y.cdirty = x.cdirty
            /\ y.dict = IF IsExpired(x, s) THEN Put(x.dict, s, Absent) ELSE x.dict
            /\ y.buf = IF IsExpired(x, s) THEN b ELSE x.buf
<1> DEFINE s == <<x.db, k>>
           u == RemoveEntry(x, s)
           v == SignalWatch(u, s)
           w == Touch(v, k)
           b == [x.buf EXCEPT ![ShardOf[k]] = Append(@, Del(x.db, k))]
           y == Buffer(w, ShardOf[k], Del(x.db, k))
<1>1. CASE ~IsExpired(x, s)
  BY <1>1 DEF ExpireIfNeeded
<1>2. CASE IsExpired(x, s)
  <2>1. ExpireIfNeeded(x, k) = y
    BY <1>2 DEF ExpireIfNeeded
  <2>2. Edit(x, u, Put(x.dict, s, Absent), 0)
    <3>1. s \in Slots
      BY DEF Slots
    <3>2. QED
      BY <3>1, RemoveEntryEdit
  <2> HIDE DEF u
  <2>3. Edit(u, v, u.dict, 0)
    BY <2>2, SignalWatchEdit DEF Edit
  <2> HIDE DEF v
  <2>4. Edit(v, w, v.dict, 0)
    BY <2>3, TouchEdit DEF Edit
  <2> HIDE DEF w
  <2>5. Edit(x, w, Put(x.dict, s, Absent), 0)
    BY <2>2, <2>3, <2>4 DEF Edit, IsCtx
  <2>6. y = [w EXCEPT !.buf = b]
    BY <2>5 DEF Buffer, Edit
  <2> HIDE DEF b, y
  <2>7. /\ IsCtx(y) /\ y.now = w.now /\ y.db = w.db /\ y.prop = w.prop
        /\ y.pbuf = w.pbuf /\ y.result = w.result /\ y.cdirty = w.cdirty
        /\ y.dict = w.dict /\ y.buf = b
    BY <2>5, <2>6 DEF Edit, IsCtx
  <2>8. w.cdirty = x.cdirty
    BY <2>5 DEF Edit, IsCtx
  <2>9. QED
    BY <1>2, <2>1, <2>5, <2>7, <2>8 DEF Edit, b
<1>3. QED
  BY <1>1, <1>2

LEMMA ExpireLive ==
  ASSUME Propagating, NEW P \in SUBSET Slots, NEW r, NEW x, Live(P, r, x), NEW k \in Keys
  PROVE  LET y == ExpireIfNeeded(x, k)
         IN /\ Live(P, r, y) /\ y.db = x.db /\ y.now = x.now /\ y.cdirty = x.cdirty
            /\ ~IsExpired(y, <<x.db, k>>)
<1> DEFINE y == ExpireIfNeeded(x, k)
           s == <<x.db, k>>
           i == ShardOf[k]
           e == Del(x.db, k)
           b == [x.buf EXCEPT ![i] = Append(@, e)]
<1>0. IsCtx(x) /\ x.db \in DBs /\ s \in Slots /\ i \in Shards /\ x.dict \in Dicts
      /\ x.buf \in [Shards -> Seq(Command)]
  BY KeyspaceConstants DEF Live, Slots, IsCtx
<1>1. /\ IsCtx(y) /\ y.now = x.now /\ y.db = x.db /\ y.prop = x.prop
      /\ y.pbuf = x.pbuf /\ y.result = x.result /\ y.cdirty = x.cdirty
      /\ y.dict = IF IsExpired(x, s) THEN Put(x.dict, s, Absent) ELSE x.dict
      /\ y.buf = IF IsExpired(x, s) THEN b ELSE x.buf
  BY <1>0, ExpireEffect
<1> HIDE DEF y
<1>2. /\ Streamed(e, i) /\ Calm(P, e) /\ After(x.dict, e) = Put(x.dict, s, Absent)
  BY <1>0, DelStreamed
<1> HIDE DEF e
<1>3. CASE ~IsExpired(x, s)
  <2>1. y.dict = x.dict /\ y.buf = x.buf
    BY <1>1, <1>3
  <2>2. Live(P, r, y)
    BY <1>1, <2>1 DEF Live, Fresh, Covered
  <2>3. ~IsExpired(y, s)
    BY <1>1, <1>3, <2>1 DEF IsExpired
  <2>4. QED
    BY <1>1, <2>2, <2>3 DEF y
<1>4. CASE IsExpired(x, s)
  <2>1. y.dict = After(x.dict, e) /\ y.buf = b
    BY <1>1, <1>2, <1>4
  <2>2. Covered(y, r) /\ y.buf \in [Shards -> Seq(Command)]
    <3>1. Covered(x, r)
      BY DEF Live
    <3>2. QED
      BY <1>0, <1>2, <2>1, <3>1, CoveredStep
  <2>3. Steady(P, y.dict)
    BY <1>0, <1>2, <2>1, AfterSteady DEF Live
  <2>4. Live(P, r, y)
    BY <1>1, <2>2, <2>3 DEF Live, Fresh
  <2>5. y.dict[s] = Absent
    BY <1>0, <1>2, <2>1, PutAt
  <2>6. ~IsExpired(y, s)
    BY <2>5 DEF IsExpired
  <2>7. QED
    BY <1>1, <2>4, <2>6 DEF y
<1>5. QED
  BY <1>3, <1>4

(* What is left of a command when its handler has run on v: nothing, or a  *)
(* command in the buffer with which the loader comes to the same entries.  *)
Ends(P, v, z, i) ==
  \/ z.buf = v.buf /\ z.dict = v.dict
  \/ \E e : /\ Streamed(e, i) /\ Calm(P, e)
            /\ z.buf = [v.buf EXCEPT ![i] = Append(@, e)]
            /\ z.dict = After(v.dict, e)

LEMMA EndsCovered ==
  ASSUME NEW P \in SUBSET Slots, NEW r, NEW v, Live(P, r, v), NEW i \in Shards, NEW z, Ends(P, v, z, i)
  PROVE  Covered(z, r) /\ Steady(P, z.dict)
<1>0. v.dict \in Dicts /\ v.buf \in [Shards -> Seq(Command)] /\ Covered(v, r) /\ Steady(P, v.dict)
  BY DEF Live, IsCtx
<1>1. CASE z.buf = v.buf /\ z.dict = v.dict
  BY <1>0, <1>1 DEF Covered
<1>2. ASSUME NEW e, Streamed(e, i), Calm(P, e),
             z.buf = [v.buf EXCEPT ![i] = Append(@, e)], z.dict = After(v.dict, e)
      PROVE  Covered(z, r) /\ Steady(P, z.dict)
  <2>1. Covered(z, r)
    BY <1>0, <1>2, CoveredStep
  <2>2. Steady(P, z.dict)
    BY <1>0, <1>2, AfterSteady
  <2>3. QED
    BY <2>1, <2>2
<1>3. QED
  BY <1>1, <1>2 DEF Ends

LEMMA EndQuits ==
  ASSUME NEW P, NEW v, NEW y, NEW c, NEW i, Quits(v, y)
  PROVE  Ends(P, v, EndCommand(y, c), i)
BY DEF Quits, Ends, EndCommand

LEMMA EndChanges ==
  ASSUME Propagating, NEW P, NEW r, NEW v, Live(P, r, v), NEW y, NEW c, c.op # "read",
         Primary(c) \in Shards, Changes(v, y, After(v.dict, c)),
         Streamed(c, Primary(c)), Calm(P, c)
  PROVE  Ends(P, v, EndCommand(y, c), Primary(c))
<1> DEFINE i == Primary(c)
           b == [v.buf EXCEPT ![i] = Append(@, c)]
           z == [y EXCEPT !.buf = b]
<1>1. PICK n \in Nat \ {0} : Edit(v, y, After(v.dict, c), n)
  BY DEF Changes
<1>2. /\ y.result = "ok" /\ y.prop = "default" /\ y.cdirty > 0 /\ y.buf = v.buf
      /\ y.dict = After(v.dict, c) /\ IsCtx(y)
  BY <1>1 DEF Edit, Live, Fresh
<1>3. EndCommand(y, c) = z
  BY <1>2 DEF EndCommand, Buffer
<1> HIDE DEF b
<1>4. z.buf = b /\ z.dict = y.dict
  BY <1>2 DEF IsCtx
<1> HIDE DEF z
<1>5. QED
  BY <1>2, <1>3, <1>4 DEF Ends, b

LEMMA EndTells ==
  ASSUME Propagating, NEW P, NEW r, NEW v, Live(P, r, v), NEW y, NEW c, NEW e,
         Primary(c) \in Shards, Tells(v, y, After(v.dict, e), e),
         Streamed(e, Primary(c)), Calm(P, e)
  PROVE  Ends(P, v, EndCommand(y, c), Primary(c))
<1> DEFINE i == Primary(c)
           w == v.buf[i] \o y.pbuf
           b == [v.buf EXCEPT ![i] = w]
           z == [y EXCEPT !.buf = b]
<1>2. /\ y.result = "ok" /\ y.prop = "explicit" /\ y.buf = v.buf
      /\ y.dict = After(v.dict, e) /\ IsCtx(y) /\ y.pbuf = <<e>>
  BY DEF Tells, Live, Fresh
<1>3. EndCommand(y, c) = z
  BY <1>2 DEF EndCommand
<1>4. w = Append(v.buf[i], e)
  <2>1. v.buf[i] \in Seq(Command) /\ e \in Command
    BY DEF Live, Streamed
  <2>2. QED
    BY <1>2, <2>1
<1> HIDE DEF w
<1>5. b = [v.buf EXCEPT ![i] = Append(@, e)]
  BY <1>4
<1> HIDE DEF b
<1>6. z.buf = b /\ z.dict = y.dict
  BY <1>2 DEF IsCtx
<1> HIDE DEF z
<1>7. QED
  BY <1>2, <1>3, <1>5, <1>6 DEF Ends

-----------------------------------------------------------------------------
(* The handlers, one by one.                                               *)

(* v is the Ctx on which the handler of c decides.                         *)
Runs(P, r, v, c) == Live(P, r, v) /\ Ready(v, c) /\ c \in Commands /\ Safe(P, c)

LEMMA RunTypes ==
  ASSUME NEW P, NEW r, NEW v, NEW c, Runs(P, r, v, c)
  PROVE  /\ c \in Command /\ Primary(c) \in Shards /\ <<c.db, c.key>> \in Slots
         /\ v.dict \in Dicts /\ v.now \in Nat /\ v.db = c.db /\ IsCtx(v)
         /\ c.ttl \in Nat \cup {Absent} /\ c.key \in Keys /\ c.key2 \in Keys
         /\ Calm(P, c) /\ Steady(P, v.dict) /\ (c.op # "read" => Aligned(c))
<1>1. c \in Command
  BY CmdType DEF Runs
<1>2. /\ <<c.db, c.key>> \in Slots /\ c.ttl \in Nat \cup {Absent}
      /\ c.key \in Keys /\ c.key2 \in Keys
  BY <1>1, SlotsOf
<1>3. Primary(c) \in Shards
  BY <1>2, KeyspaceConstants DEF Primary
<1>4. QED
  BY <1>1, <1>2, <1>3 DEF Runs, Live, Ready, IsCtx, Safe

LEMMA AbsoluteStreamed ==
  ASSUME NEW c \in Commands, NEW t \in Nat, Aligned(c), c.op \in {"set", "expire"}
  PROVE  LET e == Absolute(c, t)
         IN /\ Streamed(e, Primary(c)) /\ e.op = c.op /\ e.db = c.db /\ e.key = c.key
            /\ e.val = c.val /\ e.cond = "always" /\ e.ttl = t /\ e.opt = {"abs"}
<1> DEFINE e == Absolute(c, t)
           o == {"abs"}
<1>0. c \in Command /\ t \in Nat \cup {Absent} /\ t # Absent
  BY CmdType, KeyspaceConstants
<1>1. e \in Command
  BY <1>0, RewrittenType DEF Absolute
<1>2. e = [c EXCEPT !.cond = "always", !.ttl = t, !.opt = o]
  BY DEF Absolute
<1> HIDE DEF e, o
<1>3. /\ e.op = c.op /\ e.db = c.db /\ e.key = c.key /\ e.key2 = c.key2 /\ e.val = c.val
      /\ e.cond = "always" /\ e.ttl = t /\ e.opt = o
  BY <1>0, <1>2 DEF Command
<1>4. "abs" \in o
  BY DEF o
<1>5. Streamed(e, Primary(c))
  BY <1>0, <1>1, <1>3, <1>4 DEF Streamed, Loadable, Aligned
<1>6. QED
  BY <1>3, <1>5 DEF e, o

LEMMA SetEnds ==
  ASSUME Propagating, NEW P, NEW r, NEW v, NEW c, Runs(P, r, v, c), c.op = "set"
  PROVE  Ends(P, v, EndCommand(CmdSet(v, c), c), Primary(c))
<1> DEFINE t == SetTime(v, c)
           s == <<c.db, c.key>>
           y == CmdSet(v, c)
           d == Put(v.dict, s, [val |-> c.val, exp |-> t])
           i == Primary(c)
<1>0. /\ c \in Command /\ i \in Shards /\ s \in Slots /\ v.dict \in Dicts /\ v.now \in Nat
      /\ c.ttl \in Nat \cup {Absent} /\ Calm(P, c) /\ Aligned(c) /\ Steady(P, v.dict)
      /\ Live(P, r, v) /\ Ready(v, c) /\ v.db = c.db /\ c \in Commands
  BY RunTypes DEF Runs
<1>1. v.dict[s] # Absent => v.dict[s].exp \in Nat \cup {Absent}
  BY <1>0, EntryOf
<1>2. c.ttl # Absent => Deadline(v, c) \in Nat
  BY <1>0 DEF Deadline
<1>3. /\ t \in Nat \cup {Absent}
      /\ "keepttl" \in c.opt => t = IF v.dict[s] # Absent THEN v.dict[s].exp ELSE Absent
      /\ "keepttl" \notin c.opt /\ c.ttl = Absent => t = Absent
      /\ "keepttl" \notin c.opt /\ c.ttl # Absent => t \in Nat
  BY <1>0, <1>1, <1>2 DEF SetTime, Exists
<1>4. /\ SetBlocked(v.dict, c) => Quits(v, y)
      /\ ~SetBlocked(v.dict, c) /\ t = Absent => Changes(v, y, d)
      /\ ~SetBlocked(v.dict, c) /\ t # Absent => Tells(v, y, d, Absolute(c, t))
  BY <1>0, <1>3, SetOutcome
<1> HIDE DEF t, y
<1>5. CASE SetBlocked(v.dict, c)
  BY <1>4, <1>5, EndQuits DEF y
<1>6. CASE ~SetBlocked(v.dict, c) /\ t = Absent
  <2>1. Streamed(c, i)
    BY <1>0, <1>3, <1>6, KeyspaceConstants DEF Streamed, Loadable, Aligned
  <2>2. d = After(v.dict, c)
    <3>1. (IF "keepttl" \in c.opt THEN (IF v.dict[s] # Absent THEN v.dict[s].exp ELSE Absent)
           ELSE c.ttl) = t
      BY <1>3, <1>6, KeyspaceConstants
    <3>2. QED
      BY <1>6, <3>1 DEF After, AfterSet
  <2>3. Changes(v, y, After(v.dict, c))
    BY <1>4, <1>6, <2>2
  <2>4. QED
    BY <1>0, <2>1, <2>3, EndChanges DEF y
<1>7. CASE ~SetBlocked(v.dict, c) /\ t # Absent
  <2> DEFINE e == Absolute(c, t)
  <2>0. t \in Nat
    BY <1>3, <1>7
  <2>1. /\ Streamed(e, i) /\ e.op = "set" /\ e.db = c.db /\ e.key = c.key
        /\ e.val = c.val /\ e.cond = "always" /\ e.ttl = t /\ e.opt = {"abs"}
    BY <1>0, <2>0, AbsoluteStreamed
  <2> HIDE DEF e
  <2>2. d = After(v.dict, e)
    BY <2>1 DEF After, AfterSet, SetBlocked
  <2>3. Calm(P, e)
    <3>1. s \notin P
      BY <1>0, <1>3, <1>7 DEF Calm, Steady
    <3>2. QED
      BY <2>1, <3>1 DEF Calm
  <2>4. Tells(v, y, After(v.dict, e), e)
    BY <1>4, <1>7, <2>2 DEF e
  <2>5. QED
    BY <1>0, <2>1, <2>3, <2>4, EndTells DEF y
<1>8. QED
  BY <1>5, <1>6, <1>7

LEMMA MsetEnds ==
  ASSUME Propagating, NEW P, NEW r, NEW v, Live(P, r, v), NEW c \in Commands, v.db = c.db,
         Safe(P, c), c.op = "mset"
  PROVE  Ends(P, v, EndCommand(CmdMset(v, c), c), Primary(c))
<1>0. c \in Command /\ c.key \in Keys /\ c.key2 \in Keys /\ Aligned(c) /\ Calm(P, c) /\ IsCtx(v)
  BY CmdType DEF Live, Safe
<1>1. Primary(c) \in Shards /\ Streamed(c, Primary(c))
  BY <1>0, KeyspaceConstants DEF Primary, Streamed, Loadable, Aligned
<1>2. Changes(v, CmdMset(v, c), AfterMset(v.dict, c))
  BY <1>0, MsetOutcome DEF AfterMset
<1>3. AfterMset(v.dict, c) = After(v.dict, c)
  BY DEF After
<1>4. QED
  BY <1>0, <1>1, <1>2, <1>3, EndChanges

LEMMA ExpireEnds ==
  ASSUME Propagating, NEW P, NEW r, NEW v, NEW c, Runs(P, r, v, c), c.op = "expire"
  PROVE  Ends(P, v, EndCommand(CmdExpire(v, c), c), Primary(c))
<1> DEFINE t == Deadline(v, c)
           s == <<c.db, c.key>>
           y == CmdExpire(v, c)
           d == Put(v.dict, s, [v.dict[s] EXCEPT !.exp = t])
           i == Primary(c)
           e == Absolute(c, t)
           f == Del(c.db, c.key)
<1>0. /\ c \in Command /\ i \in Shards /\ s \in Slots /\ v.dict \in Dicts /\ v.now \in Nat
      /\ c.ttl \in Nat /\ Calm(P, c) /\ Aligned(c) /\ c.db \in DBs /\ c.key \in Keys
      /\ Live(P, r, v) /\ Ready(v, c) /\ c \in Commands
  BY RunTypes, CmdType DEF Runs
<1>1. t \in Nat
  BY <1>0 DEF Deadline
<1>2. \/ Quits(v, y)
      \/ Tells(v, y, Put(v.dict, s, Absent), f)
      \/ v.dict[s] # Absent /\ Tells(v, y, d, e)
  BY <1>0, <1>1, ExpireOutcome
<1> HIDE DEF t, y
<1>3. CASE Quits(v, y)
  BY <1>3, EndQuits DEF y
<1>4. CASE Tells(v, y, Put(v.dict, s, Absent), f)
  <2>1. Streamed(f, i) /\ Calm(P, f) /\ After(v.dict, f) = Put(v.dict, s, Absent)
    <3>1. ShardOf[c.key] = i
      BY <1>0 DEF Aligned
    <3>2. QED
      BY <1>0, <3>1, DelStreamed
  <2> HIDE DEF f
  <2>2. QED
    BY <1>0, <1>4, <2>1, EndTells DEF y
<1>5. CASE v.dict[s] # Absent /\ Tells(v, y, d, e)
  <2>1. /\ Streamed(e, i) /\ e.op = "expire" /\ e.db = c.db /\ e.key = c.key /\ e.ttl = t
    BY <1>0, <1>1, AbsoluteStreamed
  <2> HIDE DEF e
  <2>2. d = After(v.dict, e)
    BY <1>5, <2>1 DEF After, AfterExpire
  <2>3. Calm(P, e)
    BY <1>0, <2>1 DEF Calm
  <2>4. QED
    BY <1>0, <1>5, <2>1, <2>2, <2>3, EndTells DEF y
<1>6. QED
  BY <1>2, <1>3, <1>4, <1>5

(* A command that is propagated as it is.                                  *)
LEMMA VerbatimEnds ==
  ASSUME Propagating, NEW P, NEW r, NEW v, NEW c, Runs(P, r, v, c),
         c.op \in {"persist", "rename", "copy", "move"}, NEW y,
         Quits(v, y) \/ Changes(v, y, After(v.dict, c))
  PROVE  Ends(P, v, EndCommand(y, c), Primary(c))
<1>0. c \in Command /\ Primary(c) \in Shards /\ Calm(P, c) /\ Aligned(c) /\ Live(P, r, v)
  BY RunTypes DEF Runs
<1>1. Streamed(c, Primary(c))
  BY <1>0 DEF Streamed, Loadable, Aligned
<1>2. CASE Quits(v, y)
  BY <1>2, EndQuits
<1>3. CASE Changes(v, y, After(v.dict, c))
  BY <1>0, <1>1, <1>3, EndChanges
<1>4. QED
  BY <1>2, <1>3

LEMMA PersistEnds ==
  ASSUME Propagating, NEW P, NEW r, NEW v, NEW c, Runs(P, r, v, c), c.op = "persist"
  PROVE  Ends(P, v, EndCommand(CmdPersist(v, c), c), Primary(c))
<1> DEFINE y == CmdPersist(v, c)
           s == <<c.db, c.key>>
           bad == v.dict[s] = Absent \/ v.dict[s].exp = Absent
           d == Put(v.dict, s, [v.dict[s] EXCEPT !.exp = Absent])
<1>0. c \in Command /\ Ready(v, c)
  BY RunTypes DEF Runs
<1>1. IF bad THEN Quits(v, y) ELSE Changes(v, y, d)
  BY <1>0, PersistOutcome
<1>2. ~bad => After(v.dict, c) = d
  BY DEF After, AfterPersist
<1> HIDE DEF y, d, bad
<1>3. Quits(v, y) \/ Changes(v, y, After(v.dict, c))
  BY <1>1, <1>2
<1>4. QED
  BY <1>3, VerbatimEnds DEF y

(* A slot without a deadline has not expired: both sides see its entry.    *)
LEMMA SteadyExists ==
  ASSUME NEW P, NEW x, Steady(P, x.dict), NEW s \in P
  PROVE  ExistsInDb(x, s) <=> x.dict[s] # Absent
BY DEF Steady, ExistsInDb, IsExpired

LEMMA RenameEnds ==
  ASSUME Propagating, NEW P, NEW r, NEW v, NEW c, Runs(P, r, v, c), c.op = "rename"
  PROVE  Ends(P, v, EndCommand(CmdRename(v, c), c), Primary(c))
<1> DEFINE y == CmdRename(v, c)
           s == <<c.db, c.key>>
           q == <<c.db, c.key2>>
           bad == v.dict[s] = Absent \/ RenameBlocked(v, c)
           d == Put(Put(v.dict, s, Absent), q, v.dict[s])
<1>0. c \in Command /\ Ready(v, c) /\ Steady(P, v.dict) /\ Guarded(P, c)
  BY RunTypes DEF Runs, Safe
<1>1. IF bad THEN Quits(v, y) ELSE Changes(v, y, d)
  BY <1>0, RenameOutcome
<1>a. "nx" \in c.opt => (ExistsInDb(v, q) <=> v.dict[q] # Absent)
  BY <1>0, SteadyExists DEF Guarded
<1>2. ~bad => After(v.dict, c) = d
  BY <1>a DEF After, AfterRename, RenameBlocked
<1> HIDE DEF y, d, bad
<1>3. Quits(v, y) \/ Changes(v, y, After(v.dict, c))
  BY <1>1, <1>2
<1>4. QED
  BY <1>3, VerbatimEnds DEF y

LEMMA CopyEnds ==
  ASSUME Propagating, NEW P, NEW r, NEW v, NEW c, Runs(P, r, v, c), c.op = "copy"
  PROVE  Ends(P, v, EndCommand(CmdCopy(v, c), c), Primary(c))
<1> DEFINE y == CmdCopy(v, c)
           s == <<c.db, c.key>>
           q == <<c.to, c.key2>>
           bad == s = q \/ v.dict[s] = Absent \/ CopyBlocked(v, c)
           d == Put(v.dict, q, v.dict[s])
<1>0. c \in Command /\ Ready(v, c) /\ Steady(P, v.dict) /\ Guarded(P, c)
  BY RunTypes DEF Runs, Safe
<1>1. IF bad THEN Quits(v, y) ELSE Changes(v, y, d)
  BY <1>0, CopyOutcome
<1>a. "replace" \notin c.opt => (ExistsInDb(v, q) <=> v.dict[q] # Absent)
  BY <1>0, SteadyExists DEF Guarded
<1>2. ~bad => After(v.dict, c) = d
  BY <1>a DEF After, AfterCopy, CopyBlocked
<1> HIDE DEF y, d, bad
<1>3. Quits(v, y) \/ Changes(v, y, After(v.dict, c))
  BY <1>1, <1>2
<1>4. QED
  BY <1>3, VerbatimEnds DEF y

LEMMA MoveEnds ==
  ASSUME Propagating, NEW P, NEW r, NEW v, NEW c, Runs(P, r, v, c), c.op = "move"
  PROVE  Ends(P, v, EndCommand(CmdMove(v, c), c), Primary(c))
<1> DEFINE y == CmdMove(v, c)
           s == <<c.db, c.key>>
           q == <<c.to, c.key>>
           bad == c.to = c.db \/ v.dict[s] = Absent \/ ExistsInDb(v, q)
           d == Put(Put(v.dict, s, Absent), q, v.dict[s])
<1>0. c \in Command /\ Ready(v, c) /\ Steady(P, v.dict) /\ Guarded(P, c)
  BY RunTypes DEF Runs, Safe
<1>1. IF bad THEN Quits(v, y) ELSE Changes(v, y, d)
  BY <1>0, MoveOutcome
<1>a. ExistsInDb(v, q) <=> v.dict[q] # Absent
  BY <1>0, SteadyExists DEF Guarded
<1>2. ~bad => After(v.dict, c) = d
  BY <1>a DEF After, AfterMove
<1> HIDE DEF y, d, bad
<1>3. Quits(v, y) \/ Changes(v, y, After(v.dict, c))
  BY <1>1, <1>2
<1>4. QED
  BY <1>3, VerbatimEnds DEF y
LEMMA DatedStreamed ==
  ASSUME NEW c \in Commands, NEW t \in Nat, t # 0, Aligned(c), c.op = "restore"
  PROVE  LET e == Dated(c, t)
         IN /\ Streamed(e, Primary(c)) /\ e.op = c.op /\ e.db = c.db /\ e.key = c.key
            /\ e.val = c.val /\ e.ttl = t
            /\ \A w \in {"replace", "valid"} : w \in e.opt <=> w \in c.opt
<1> DEFINE e == Dated(c, t)
           o == c.opt \cup {"abs"}
<1>0. c \in Command /\ t \in Nat \cup {Absent} /\ t # Absent
  BY CmdType, KeyspaceConstants
<1>2. e = [c EXCEPT !.ttl = t, !.opt = o]
  BY DEF Dated
<1>a. o \in SUBSET Opts
  BY <1>0 DEF Command, Opts
<1>b. "abs" \in o /\ \A w \in {"replace", "valid"} : w \in o <=> w \in c.opt
  OBVIOUS
<1> HIDE DEF e, o
<1>3. /\ e.op = c.op /\ e.db = c.db /\ e.key = c.key /\ e.key2 = c.key2 /\ e.val = c.val
      /\ e.ttl = t /\ e.opt = o /\ e \in Command
  BY <1>0, <1>2, <1>a DEF Command
<1>5. Streamed(e, Primary(c))
  BY <1>0, <1>3, <1>b DEF Streamed, Loadable, Aligned
<1>6. QED
  BY <1>3, <1>5, <1>b DEF e

LEMMA RestoreEnds ==
  ASSUME Propagating, NEW P, NEW r, NEW v, NEW c, Runs(P, r, v, c), c.op = "restore"
  PROVE  Ends(P, v, EndCommand(CmdRestore(v, c), c), Primary(c))
<1> DEFINE t == RestoreTime(v, c)
           s == <<c.db, c.key>>
           y == CmdRestore(v, c)
           d == Put(v.dict, s, [val |-> c.val, exp |-> t])
           i == Primary(c)
<1>0. /\ c \in Command /\ i \in Shards /\ s \in Slots /\ v.dict \in Dicts /\ v.now \in Nat
      /\ c.ttl \in Nat \cup {Absent} /\ Calm(P, c) /\ Aligned(c)
      /\ Live(P, r, v) /\ Ready(v, c) /\ c \in Commands
  BY RunTypes DEF Runs
<1>1. /\ c.ttl \in {Absent, 0} => t = Absent
      /\ c.ttl \notin {Absent, 0} => t \in Nat /\ t # 0 /\ ("abs" \in c.opt => t = c.ttl)
  BY <1>0 DEF RestoreTime, Deadline
<1>2. t \in Nat \cup {Absent}
  BY <1>0, <1>1
<1>4. IF RestoreBlocked(v.dict, c) THEN Quits(v, y)
      ELSE IF t = Absent \/ "abs" \in c.opt THEN Changes(v, y, d)
      ELSE Tells(v, y, d, Dated(c, t))
  BY <1>0, <1>2, RestoreOutcome
<1> HIDE DEF t, y
<1>5. CASE RestoreBlocked(v.dict, c)
  BY <1>4, <1>5, EndQuits DEF y
<1>6. CASE ~RestoreBlocked(v.dict, c) /\ (t = Absent \/ "abs" \in c.opt)
  <2>0. c.ttl \notin {Absent, 0} => "abs" \in c.opt /\ t = c.ttl
    BY <1>0, <1>1, <1>6, KeyspaceConstants
  <2>1. Streamed(c, i)
    BY <1>0, <2>0 DEF Streamed, Loadable, Aligned
  <2>2. d = After(v.dict, c)
    <3>1. (IF c.ttl \in {Absent, 0} THEN Absent ELSE c.ttl) = t
      BY <1>1, <2>0
    <3>2. QED
      BY <1>6, <3>1 DEF After, AfterRestore
  <2>3. Changes(v, y, After(v.dict, c))
    BY <1>4, <1>6, <2>2
  <2>4. QED
    BY <1>0, <2>1, <2>3, EndChanges DEF y
<1>7. CASE ~RestoreBlocked(v.dict, c) /\ t # Absent /\ "abs" \notin c.opt
  <2> DEFINE e == Dated(c, t)
  <2>0. t \in Nat /\ t # 0 /\ c.ttl \notin {Absent, 0}
    BY <1>1, <1>7
  <2>1. /\ Streamed(e, i) /\ e.op = "restore" /\ e.db = c.db /\ e.key = c.key
        /\ e.val = c.val /\ e.ttl = t
        /\ \A w \in {"replace", "valid"} : w \in e.opt <=> w \in c.opt
    BY <1>0, <2>0, DatedStreamed
  <2> HIDE DEF e
  <2>a. ~RestoreBlocked(v.dict, e)
    BY <1>7, <2>1 DEF RestoreBlocked
  <2>b. e.ttl \notin {Absent, 0}
    BY <1>7, <2>0, <2>1
  <2>2. d = After(v.dict, e)
    BY <2>1, <2>a, <2>b DEF After, AfterRestore
  <2>3. Calm(P, e)
    <3>1. s \notin P
      BY <1>0, <2>0 DEF Calm
    <3>2. QED
      BY <2>1, <3>1 DEF Calm
  <2>4. Tells(v, y, After(v.dict, e), e)
    BY <1>4, <1>7, <2>2 DEF e
  <2>5. QED
    BY <1>0, <2>1, <2>3, <2>4, EndTells DEF y
<1>8. QED
  BY <1>5, <1>6, <1>7

(* SORT ... STORE of a missing key deletes the destination.                *)
LEMMA SortEnds ==
  ASSUME Propagating, NEW P \in SUBSET Slots, NEW r, NEW x, NEW c, Runs(P, r, x, c), c.op = "sort"
  PROVE  \E v : Live(P, r, v) /\ Ends(P, v, EndCommand(CmdSort(x, c), c), Primary(c))
<1> DEFINE q == <<c.db, c.key2>>
           i == Primary(c)
           v == ExpireIfNeeded(x, c.key2)
           y == Remove(x, c.key2)
           f == Del(c.db, c.key2)
           n == IF v.dict[q] = Absent THEN 0 ELSE 1
<1>0. /\ c \in Command /\ i \in Shards /\ Aligned(c) /\ x.db = c.db /\ c.key2 \in Keys
      /\ Live(P, r, x) /\ Ready(x, c) /\ c \in Commands /\ q \in Slots /\ c.db \in DBs /\ IsCtx(x)
  <2>1. /\ c \in Command /\ i \in Shards /\ x.db = c.db /\ c.key2 \in Keys /\ IsCtx(x)
        /\ Aligned(c)
    BY RunTypes
  <2>2. q \in Slots /\ c.db \in DBs
    BY <2>1, SlotsOf
  <2>3. Live(P, r, x) /\ Ready(x, c) /\ c \in Commands
    BY DEF Runs
  <2>4. QED
    BY <2>1, <2>2, <2>3
<1>1. CmdSort(x, c) = IF Exists(x, c.key) THEN Fail(x)
                      ELSE IF "store" \notin c.opt THEN x
                      ELSE IF y.cdirty > x.cdirty THEN Propagate(y, f)
                      ELSE PropagateNone(y)
  BY <1>0, Unexpired DEF CmdSort
<1>2. Live(P, r, v) /\ v.db = c.db /\ v.cdirty = x.cdirty /\ ~IsExpired(v, q)
  BY <1>0, ExpireLive
<1>3. y = Remove(v, c.key2)
  BY <1>0, <1>2 DEF Remove, ExpireIfNeeded
<1>4. IsCtx(v) /\ v.dict \in Dicts /\ v.cdirty = 0 /\ x.cdirty = 0
  BY <1>0, <1>2 DEF Live, IsCtx, Fresh
<1> HIDE DEF v, f
<1>5. Edit(v, y, Put(v.dict, q, Absent), n)
  BY <1>0, <1>2, <1>3, <1>4, RemoveEdit
<1> HIDE DEF y
<1>6. Streamed(f, i) /\ Calm(P, f) /\ After(v.dict, f) = Put(v.dict, q, Absent)
  <2>1. ShardOf[c.key2] = i
    BY <1>0 DEF Aligned
  <2>2. QED
    BY <1>0, <1>4, <2>1, DelStreamed DEF f
<1>7. CASE Exists(x, c.key)
  <2>1. Ends(P, x, EndCommand(Fail(x), c), i)
    BY <1>0, NoneQuits, EndQuits
  <2>2. QED
    BY <1>0, <1>1, <1>7, <2>1
<1>8. CASE ~Exists(x, c.key) /\ "store" \notin c.opt
  <2>1. EndCommand(x, c) = x
    BY <1>0, <1>4 DEF EndCommand, Live, Fresh
  <2>2. Ends(P, x, EndCommand(x, c), i)
    BY <2>1 DEF Ends
  <2>3. QED
    BY <1>0, <1>1, <1>8, <2>2
<1>9. CASE ~Exists(x, c.key) /\ "store" \in c.opt /\ y.cdirty > x.cdirty
  <2>1. Tells(v, Propagate(y, f), After(v.dict, f), f)
    BY <1>5, <1>6, PropagateTells
  <2>2. Ends(P, v, EndCommand(Propagate(y, f), c), i)
    BY <1>0, <1>2, <1>6, <2>1, EndTells
  <2>3. QED
    BY <1>1, <1>2, <1>9, <2>2
<1>10. CASE ~Exists(x, c.key) /\ "store" \in c.opt /\ ~(y.cdirty > x.cdirty)
  <2>1. v.dict[q] = Absent
    BY <1>4, <1>5, <1>10 DEF Edit
  <2>2. Put(v.dict, q, Absent) = v.dict
    BY <1>0, <1>4, <2>1 DEF Put, Dicts
  <2>3. IsCtx(y) /\ y.dict = v.dict /\ y.buf = v.buf
    BY <1>5, <2>2 DEF Edit
  <2>4. Quits(v, PropagateNone(y))
    BY <2>3, NoneQuits DEF Quits
  <2>5. Ends(P, v, EndCommand(PropagateNone(y), c), i)
    BY <2>4, EndQuits
  <2>6. QED
    BY <1>1, <1>2, <1>10, <2>5
<1>11. QED
  BY <1>7, <1>8, <1>9, <1>10

LEMMA PutTwice ==
  ASSUME NEW d \in Dicts, NEW s \in Slots, NEW q \in Slots
  PROVE  /\ Put(Put(d, s, Absent), s, Absent) = Put(d, s, Absent)
         /\ Put(Put(d, s, Absent), q, Absent) = Put(Put(d, q, Absent), s, Absent)
         /\ d[s] = Absent => Put(d, s, Absent) = d
BY DEF Put, Dicts

(* DEL of two keys: the second may expire in between.                      *)
LEMMA DelEnds ==
  ASSUME Propagating, NEW P \in SUBSET Slots, NEW r, NEW x, NEW c, Runs(P, r, x, c), c.op = "del"
  PROVE  \E v : Live(P, r, v) /\ Ends(P, v, EndCommand(CmdDel(x, c), c), Primary(c))
<1> DEFINE s == <<c.db, c.key>>
           q == <<c.db, c.key2>>
           i == Primary(c)
           v == ExpireIfNeeded(x, c.key2)
           y == Remove(x, c.key)
           u == ExpireIfNeeded(y, c.key2)
           z == Remove(y, c.key2)
           m == IF x.dict[s] = Absent THEN 0 ELSE 1
           n == IF u.dict[q] = Absent THEN 0 ELSE 1
           B(b) == [b EXCEPT ![ShardOf[c.key2]] = Append(@, Del(c.db, c.key2))]
<1>0. /\ c \in Command /\ i \in Shards /\ Aligned(c) /\ x.db = c.db /\ c.key2 \in Keys /\ c.key \in Keys
      /\ Live(P, r, x) /\ Ready(x, c) /\ c \in Commands /\ s \in Slots /\ q \in Slots
      /\ c.db \in DBs /\ IsCtx(x) /\ x.dict \in Dicts /\ ~IsExpired(x, s) /\ Calm(P, c)
  <2>1. /\ c \in Command /\ i \in Shards /\ x.db = c.db /\ c.key \in Keys /\ c.key2 \in Keys
        /\ IsCtx(x) /\ x.dict \in Dicts /\ Aligned(c) /\ Calm(P, c)
    BY RunTypes
  <2>2. s \in Slots /\ q \in Slots /\ c.db \in DBs
    BY <2>1, SlotsOf
  <2>3. Live(P, r, x) /\ Ready(x, c) /\ c \in Commands
    BY DEF Runs
  <2>4. ~IsExpired(x, s)
    BY <2>3 DEF Ready
  <2>5. QED
    BY <2>1, <2>2, <2>3, <2>4
<1>1. CmdDel(x, c) = z
  BY DEF CmdDel
<1>2. Live(P, r, v)
  BY <1>0, ExpireLive
<1>3. /\ v.dict = IF IsExpired(x, q) THEN Put(x.dict, q, Absent) ELSE x.dict
      /\ v.buf = IF IsExpired(x, q) THEN B(x.buf) ELSE x.buf
  BY <1>0, ExpireEffect
<1>4. Edit(x, y, Put(x.dict, s, Absent), m)
  BY <1>0, RemoveEdit
<1> HIDE DEF y, v
<1>5. /\ IsCtx(y) /\ y.db = c.db /\ y.now = x.now /\ y.dict = Put(x.dict, s, Absent) /\ y.buf = x.buf
      /\ y.result = "ok" /\ y.prop = "default" /\ y.cdirty = m
  BY <1>0, <1>4 DEF Edit, Live, Fresh
<1>6. IsExpired(y, q) <=> IsExpired(x, q)
  <2>1. CASE q = s
    <3>1. y.dict[q] = Absent
      BY <1>0, <1>5, <2>1, PutAt
    <3>2. ~IsExpired(y, q)
      BY <3>1 DEF IsExpired
    <3>3. QED
      BY <1>0, <2>1, <3>2
  <2>2. CASE q # s
    <3>1. y.dict[q] = x.dict[q]
      BY <1>0, <1>5, <2>2, PutAt
    <3> HIDE DEF q, s
    <3>3. QED
      BY <1>5, <3>1 DEF IsExpired
  <2>3. QED
    BY <2>1, <2>2
<1>7. /\ IsCtx(u) /\ u.db = c.db /\ u.result = "ok" /\ u.prop = "default" /\ u.cdirty = m
      /\ u.dict = IF IsExpired(y, q) THEN Put(y.dict, q, Absent) ELSE y.dict
      /\ u.buf = IF IsExpired(y, q) THEN B(y.buf) ELSE y.buf
      /\ u.now = y.now
  <2>1. IsCtx(y) /\ y.db \in DBs /\ y.db = c.db
    BY <1>0, <1>5
  <2>2. /\ IsCtx(u) /\ u.now = y.now /\ u.db = y.db /\ u.prop = y.prop
        /\ u.result = y.result /\ u.cdirty = y.cdirty
        /\ u.dict = IF IsExpired(y, q) THEN Put(y.dict, q, Absent) ELSE y.dict
        /\ u.buf = IF IsExpired(y, q) THEN B(y.buf) ELSE y.buf
    BY <1>0, <2>1, ExpireEffect
  <2> HIDE DEF u, m, q, B
  <2>3. QED
    BY <1>5, <2>2
<1>8. ~IsExpired(u, q)
  <2>1. CASE IsExpired(y, q)
    <3>1. y.dict \in Dicts
      BY <1>5 DEF IsCtx
    <3>2. u.dict[q] = Absent
      BY <1>0, <1>7, <2>1, <3>1, PutAt
    <3>3. QED
      BY <3>2 DEF IsExpired
  <2>2. CASE ~IsExpired(y, q)
    BY <1>7, <2>2 DEF IsExpired
  <2>3. QED
    BY <2>1, <2>2
<1>9. z = Remove(u, c.key2)
  <2>1. ExpireIfNeeded(u, c.key2) = u
    BY <1>7, <1>8 DEF ExpireIfNeeded
  <2>2. QED
    BY <2>1 DEF Remove
<1> HIDE DEF u
<1>10. Edit(u, z, Put(u.dict, q, Absent), n)
  BY <1>0, <1>7, <1>8, <1>9, RemoveEdit
<1> HIDE DEF z
<1>11. u.dict \in Dicts /\ v.dict \in Dicts /\ y.dict \in Dicts
  BY <1>2, <1>5, <1>7 DEF IsCtx, Live
<1>12. z.buf = v.buf
  BY <1>3, <1>5, <1>6, <1>7, <1>10 DEF Edit
<1>13. z.result = "ok" /\ z.prop = "default" /\ z.cdirty = m + n /\ IsCtx(z) /\ z.dict = Put(u.dict, q, Absent)
  BY <1>7, <1>10 DEF Edit
<1>14. z.dict = After(v.dict, c)
  <2>1. After(v.dict, c) = Put(Put(v.dict, s, Absent), q, Absent)
    BY DEF After, AfterDel
  <2> HIDE DEF s, q
  <2>2. CASE IsExpired(x, q)
    <3>1. z.dict = Put(Put(y.dict, q, Absent), q, Absent)
      BY <1>6, <1>7, <1>13, <2>2
    <3>2. z.dict = Put(y.dict, q, Absent)
      BY <1>0, <1>11, <3>1, PutTwice
    <3>3. z.dict = Put(Put(x.dict, s, Absent), q, Absent)
      BY <1>5, <3>2
    <3> DEFINE g == Put(x.dict, q, Absent)
    <3>4. v.dict = g
      BY <1>3, <2>2
    <3>5. g \in Dicts
      BY <1>11, <3>4
    <3>6. Put(Put(g, s, Absent), q, Absent) = Put(Put(g, q, Absent), s, Absent)
      BY <1>0, <3>5, PutTwice
    <3>7. Put(g, q, Absent) = g
      BY <1>0, PutTwice
    <3>8. Put(g, s, Absent) = Put(Put(x.dict, s, Absent), q, Absent)
      BY <1>0, PutTwice
    <3>9. QED
      BY <2>1, <3>3, <3>4, <3>6, <3>7, <3>8
  <2>3. CASE ~IsExpired(x, q)
    BY <1>3, <1>5, <1>6, <1>7, <1>13, <2>1, <2>3
  <2>4. QED
    BY <2>2, <2>3
<1>15. CASE z.cdirty = 0
  <2>1. x.dict[s] = Absent /\ u.dict[q] = Absent
    BY <1>13, <1>15
  <2>2. y.dict = x.dict
    BY <1>0, <1>5, <2>1, PutTwice
  <2>3. u.dict = v.dict
    BY <1>3, <1>6, <1>7, <2>2
  <2>4. z.dict = v.dict
    BY <1>0, <1>11, <1>13, <2>1, <2>3, PutTwice
  <2>5. EndCommand(z, c) = z
    BY <1>13, <1>15 DEF EndCommand
  <2>6. Ends(P, v, EndCommand(z, c), i)
    BY <1>12, <2>4, <2>5 DEF Ends
  <2>7. QED
    BY <1>1, <1>2, <2>6
<1>16. CASE z.cdirty > 0
  <2> DEFINE b == [v.buf EXCEPT ![i] = Append(@, c)]
             w == [z EXCEPT !.buf = b]
  <2>1. EndCommand(z, c) = w
    BY <1>0, <1>12, <1>13, <1>16 DEF EndCommand, Buffer
  <2>2. Streamed(c, i)
    BY <1>0 DEF Streamed, Loadable, Aligned
  <2> HIDE DEF b
  <2>3. w.buf = b /\ w.dict = z.dict
    BY <1>13 DEF IsCtx
  <2> HIDE DEF w
  <2>4. Ends(P, v, w, i)
    BY <1>0, <1>14, <2>2, <2>3 DEF Ends, b
  <2>5. QED
    BY <1>1, <1>2, <2>1, <2>4
<1>17. QED
  BY <1>13, <1>15, <1>16

(* What a command leaves behind is covered.                                *)
Kept(P, r, z) == Covered(z, r) /\ Steady(P, z.dict)

LEMMA ReadKept ==
  ASSUME Propagating, NEW P \in SUBSET Slots, NEW r, NEW x, Live(P, r, x), NEW c \in Commands,
         x.db = c.db, c.op = "read"
  PROVE  Kept(P, r, EndCommand(CmdRead(x, c), c))
<1> DEFINE y == ExpireIfNeeded(x, c.key)
           z == ExpireIfNeeded(y, c.key2)
<1>0. c.key \in Keys /\ c.key2 \in Keys
  BY CmdType
<1>1. Live(P, r, y)
  BY <1>0, ExpireLive
<1> HIDE DEF y
<1>2. Live(P, r, z)
  BY <1>0, <1>1, ExpireLive
<1>3. CmdRead(x, c) = z
  BY DEF CmdRead, y
<1> HIDE DEF z
<1>4. EndCommand(z, c) = z
  BY <1>2 DEF EndCommand, Live, Fresh
<1>5. QED
  BY <1>2, <1>3, <1>4 DEF Kept, Live

(* Every handler expires its key first.                                    *)
LEMMA HandlersKeep ==
  ASSUME Propagating, NEW P \in SUBSET Slots, NEW r, NEW x, Live(P, r, x), NEW c \in Commands,
         x.db = c.db, Safe(P, c), c.op # "read", c.op # "mset"
  PROVE  LET E(y) == Kept(P, r, EndCommand(y, c))
         IN /\ c.op = "set" => E(CmdSet(x, c))
            /\ c.op = "del" => E(CmdDel(x, c))
            /\ c.op = "expire" => E(CmdExpire(x, c))
            /\ c.op = "persist" => E(CmdPersist(x, c))
            /\ c.op = "rename" => E(CmdRename(x, c))
            /\ c.op = "copy" => E(CmdCopy(x, c))
            /\ c.op = "move" => E(CmdMove(x, c))
            /\ c.op = "restore" => E(CmdRestore(x, c))
            /\ c.op = "sort" => E(CmdSort(x, c))
<1> DEFINE v == ExpireIfNeeded(x, c.key)
           i == Primary(c)
           E(y) == Kept(P, r, EndCommand(y, c))
<1>0. c.key \in Keys /\ c.key2 \in Keys /\ c \in Command
  BY CmdType
<1>1. Live(P, r, v) /\ v.db = c.db /\ ~IsExpired(v, <<c.db, c.key>>)
  BY <1>0, ExpireLive
<1>2. Runs(P, r, v, c)
  BY <1>1 DEF Runs, Ready, Live
<1>3. i \in Shards
  BY <1>2, RunTypes
<1>4. ExpireIfNeeded(v, c.key) = v
  BY <1>1 DEF ExpireIfNeeded
<1>5. ASSUME NEW y, NEW w, Live(P, r, w), Ends(P, w, EndCommand(y, c), i) PROVE E(y)
  <2> DEFINE z == EndCommand(y, c)
  <2> HIDE DEF z
  <2>1. Covered(z, r) /\ Steady(P, z.dict)
    BY <1>3, <1>5, EndsCovered DEF z
  <2>2. QED
    BY <2>1 DEF Kept, z
<1>6. CASE c.op = "set"
  <2>1. CmdSet(x, c) = CmdSet(v, c)
    BY <1>4 DEF CmdSet
  <2> HIDE DEF v
  <2>2. QED
    BY <1>1, <1>2, <1>5, <1>6, <2>1, SetEnds
<1>7. CASE c.op = "del"
  <2>1. CmdDel(x, c) = CmdDel(v, c)
    BY <1>4 DEF CmdDel, Remove
  <2> HIDE DEF v
  <2>2. QED
    BY <1>2, <1>5, <1>7, <2>1, DelEnds
<1>8. CASE c.op = "expire"
  <2>1. CmdExpire(x, c) = CmdExpire(v, c)
    BY <1>4 DEF CmdExpire
  <2> HIDE DEF v
  <2>2. QED
    BY <1>1, <1>2, <1>5, <1>8, <2>1, ExpireEnds
<1>9. CASE c.op = "persist"
  <2>1. CmdPersist(x, c) = CmdPersist(v, c)
    BY <1>4 DEF CmdPersist
  <2> HIDE DEF v
  <2>2. QED
    BY <1>1, <1>2, <1>5, <1>9, <2>1, PersistEnds
<1>10. CASE c.op = "rename"
  <2>1. CmdRename(x, c) = CmdRename(v, c)
    BY <1>4 DEF CmdRename
  <2> HIDE DEF v
  <2>2. QED
    BY <1>1, <1>2, <1>5, <1>10, <2>1, RenameEnds
<1>f. E(Fail(x))
  <2>1. Ends(P, x, EndCommand(Fail(x), c), i)
    BY NoneQuits, EndQuits DEF Live
  <2>2. QED
    BY <1>5, <2>1
<1>11. CASE c.op = "copy"
  <2>1. CmdCopy(x, c) = Fail(x) \/ CmdCopy(x, c) = CmdCopy(v, c)
    BY <1>1, <1>4 DEF CmdCopy
  <2> HIDE DEF v
  <2>2. E(CmdCopy(v, c))
    BY <1>1, <1>2, <1>5, <1>11, CopyEnds
  <2>3. QED
    BY <1>11, <1>f, <2>1, <2>2
<1>12. CASE c.op = "move"
  <2>1. CmdMove(x, c) = Fail(x) \/ CmdMove(x, c) = CmdMove(v, c)
    BY <1>1, <1>4 DEF CmdMove
  <2> HIDE DEF v
  <2>2. E(CmdMove(v, c))
    BY <1>1, <1>2, <1>5, <1>12, MoveEnds
  <2>3. QED
    BY <1>12, <1>f, <2>1, <2>2
<1>13. CASE c.op = "restore"
  <2>1. CmdRestore(x, c) = CmdRestore(v, c)
    BY <1>4 DEF CmdRestore
  <2> HIDE DEF v
  <2>2. QED
    BY <1>1, <1>2, <1>5, <1>13, <2>1, RestoreEnds
<1>14. CASE c.op = "sort"
  <2>1. CmdSort(x, c) = CmdSort(v, c)
    BY <1>4 DEF CmdSort
  <2> HIDE DEF v
  <2>2. QED
    BY <1>2, <1>5, <1>14, <2>1, SortEnds
<1>15. QED
  BY <1>6, <1>7, <1>8, <1>9, <1>10, <1>11, <1>12, <1>13, <1>14

LEMMA MsetKept ==
  ASSUME Propagating, NEW P \in SUBSET Slots, NEW r, NEW x, Live(P, r, x), NEW c \in Commands,
         x.db = c.db, Safe(P, c), c.op = "mset"
  PROVE  Kept(P, r, EndCommand(CmdMset(x, c), c))
<1> DEFINE z == EndCommand(CmdMset(x, c), c)
<1>1. Ends(P, x, z, Primary(c))
  BY MsetEnds
<1>2. Primary(c) \in Shards
  BY CmdType, KeyspaceConstants DEF Primary
<1> HIDE DEF z
<1>3. Covered(z, r) /\ Steady(P, z.dict)
  BY <1>1, <1>2, EndsCovered
<1>4. QED
  BY <1>3 DEF Kept, z

-----------------------------------------------------------------------------
(* The background tasks: the victims leave with a DEL each.                *)

(* What is left of d when the first m victims have gone.                   *)
Emptied(d, v, m) == [s \in Slots |-> IF \E j \in 1..m : v[j] = s THEN Absent ELSE d[s]]

(* w with the DELs of the first m victims.                                 *)
Reported(w, v, m) ==
  [j \in 1..Len(w) + m |->
     IF j <= Len(w) THEN w[j] ELSE Del(v[j - Len(w)][1], v[j - Len(w)][2])]

OnShard(v, i) == \A j \in 1..Len(v) : ShardOf[v[j][2]] = i

LEMMA ReportedType ==
  ASSUME NEW w \in Seq(Command), NEW v \in Seq(Slots), NEW m \in 0..Len(v)
  PROVE  /\ Reported(w, v, m) \in Seq(Command) /\ Len(Reported(w, v, m)) = Len(w) + m
         /\ \A j \in 1..Len(w) + m : Reported(w, v, m)[j] =
              IF j <= Len(w) THEN w[j] ELSE Del(v[j - Len(w)][1], v[j - Len(w)][2])
<1> DEFINE f == Reported(w, v, m)
           n == Len(w) + m
<1>0. Len(w) \in Nat /\ Len(v) \in Nat /\ m \in Nat /\ n \in Nat /\ m <= Len(v)
  OBVIOUS
<1>1. ASSUME NEW j \in 1..n PROVE (IF j <= Len(w) THEN w[j] ELSE Del(v[j - Len(w)][1], v[j - Len(w)][2])) \in Command
  <2>1. CASE j <= Len(w)
    BY <1>0, <2>1
  <2>2. CASE ~(j <= Len(w))
    <3>1. j - Len(w) \in 1..Len(v)
      BY <1>0, <2>2
    <3>2. v[j - Len(w)] \in Slots
      BY <3>1
    <3>3. v[j - Len(w)][1] \in DBs /\ v[j - Len(w)][2] \in Keys
      BY <3>2 DEF Slots
    <3>4. QED
      BY <2>2, <3>3, DelType
  <2>3. QED
    BY <2>1, <2>2
<1>2. f \in [1..n -> Command]
  BY <1>1 DEF Reported
<1>3. \A j \in 1..n : f[j] = IF j <= Len(w) THEN w[j] ELSE Del(v[j - Len(w)][1], v[j - Len(w)][2])
  BY DEF Reported
<1> HIDE DEF f
<1>4. f \in Seq(Command) /\ Len(f) = n
  <2> HIDE DEF n
  <2>1. QED
    BY <1>0, <1>2, SeqDef
<1>5. QED
  BY <1>3, <1>4 DEF f

LEMMA ReportedStep ==
  ASSUME NEW w \in Seq(Command), NEW v \in Seq(Slots), NEW m \in Nat, m < Len(v)
  PROVE  Reported(w, v, m + 1) = Append(Reported(w, v, m), Del(v[m + 1][1], v[m + 1][2]))
<1> DEFINE f == Reported(w, v, m)
           g == Reported(w, v, m + 1)
           e == Del(v[m + 1][1], v[m + 1][2])
           h == Append(f, e)
           n == Len(w) + m
           cmd(j) == IF j <= Len(w) THEN w[j] ELSE Del(v[j - Len(w)][1], v[j - Len(w)][2])
<1>0. Len(w) \in Nat /\ Len(v) \in Nat /\ n \in Nat /\ m \in 0..Len(v) /\ m + 1 \in 0..Len(v)
      /\ Len(w) + (m + 1) = n + 1 /\ m + 1 \in 1..Len(v)
  OBVIOUS
<1>1. f \in Seq(Command) /\ Len(f) = n /\ \A j \in 1..n : f[j] = cmd(j)
  BY <1>0, ReportedType
<1>2. g \in Seq(Command) /\ Len(g) = Len(w) + (m + 1) /\ \A j \in 1..Len(w) + (m + 1) : g[j] = cmd(j)
  BY <1>0, ReportedType
<1>3. e \in Command
  <2>1. v[m + 1] \in Slots
    BY <1>0
  <2>2. v[m + 1][1] \in DBs /\ v[m + 1][2] \in Keys
    BY <2>1 DEF Slots
  <2>3. QED
    BY <2>2, DelType
<1>4. cmd(n + 1) = e
  <2>1. ~(n + 1 <= Len(w)) /\ (n + 1) - Len(w) = m + 1
    BY <1>0
  <2>2. QED
    BY <2>1
<1> HIDE DEF f, g, e, cmd
<1>5. h \in Seq(Command) /\ Len(h) = n + 1 /\ h[n + 1] = e /\ \A j \in 1..n : h[j] = f[j]
  <2>1. f \in Seq(Command) /\ Len(f) = n
    BY <1>1
  <2> HIDE DEF n
  <2>2. h \in Seq(Command) /\ Len(h) = Len(f) + 1 /\ h[Len(f) + 1] = e /\ \A j \in 1..Len(f) : h[j] = f[j]
    BY <1>3, <2>1, AppendProperties
  <2> HIDE DEF h
  <2>3. QED
    BY <2>1, <2>2
<1> HIDE DEF h
<1>6. Len(g) = n + 1 /\ \A j \in 1..n + 1 : g[j] = cmd(j)
  BY <1>0, <1>2
<1> HIDE DEF n
<1>7. ASSUME NEW j \in 1..n + 1 PROVE g[j] = h[j]
  <2>1. j \in 1..n \/ j = n + 1
    BY <1>0
  <2>2. QED
    BY <1>1, <1>4, <1>5, <1>6, <2>1
<1>8. g = h
  BY <1>2, <1>5, <1>6, <1>7, SeqEqual
<1>9. QED
  BY <1>8 DEF f, g, h, e

LEMMA ReportedCovers ==
  ASSUME NEW i, NEW r, NEW w, NEW d \in Dicts, Covers(i, r, w, d), NEW v \in Seq(Slots), OnShard(v, i)
  PROVE  Covers(i, r, Reported(w, v, Len(v)), Emptied(d, v, Len(v)))
<1> DEFINE W(m) == Reported(w, v, m)
           G(m) == Emptied(d, v, m)
           T == {m \in Nat : m <= Len(v) => G(m) \in Dicts /\ Covers(i, r, W(m), G(m))}
<1>0. w \in Seq(Command) /\ Len(v) \in Nat /\ Len(w) \in Nat
  BY DEF Covers, AllStreamed
<1>1. 0 \in T
  <2>1. G(0) = d
    BY DEF Emptied, Dicts
  <2>2. W(0) = w
    <3>1. 0 \in 0..Len(v) /\ Len(w) + 0 = Len(w)
      BY <1>0
    <3>2. /\ W(0) \in Seq(Command) /\ Len(W(0)) = Len(w) + 0
          /\ \A j \in 1..Len(w) + 0 : W(0)[j] = IF j <= Len(w) THEN w[j] ELSE Del(v[j - Len(w)][1], v[j - Len(w)][2])
      BY <1>0, <3>1, ReportedType
    <3> HIDE DEF W
    <3>3. \A j \in 1..Len(w) : W(0)[j] = w[j]
      BY <1>0, <3>1, <3>2
    <3>4. QED
      BY <1>0, <3>1, <3>2, <3>3, SeqEqual
  <2> HIDE DEF G, W
  <2>3. QED
    BY <2>1, <2>2
<1>2. ASSUME NEW m \in Nat, m \in T PROVE m + 1 \in T
  <2> SUFFICES ASSUME m + 1 <= Len(v)
               PROVE  G(m + 1) \in Dicts /\ Covers(i, r, W(m + 1), G(m + 1))
    OBVIOUS
  <2> DEFINE s == v[m + 1]
             e == Del(s[1], s[2])
  <2>1. m <= Len(v) /\ m < Len(v) /\ m + 1 \in 1..Len(v)
    BY <1>0
  <2>2. s \in Slots /\ s[1] \in DBs /\ s[2] \in Keys /\ s = <<s[1], s[2]>> /\ ShardOf[s[2]] = i
    <3>1. s \in Slots /\ ShardOf[s[2]] = i
      BY <2>1 DEF OnShard
    <3> HIDE DEF s
    <3>2. QED
      BY <3>1 DEF Slots
  <2>3. W(m + 1) = Append(W(m), e)
    BY <1>0, <2>1, ReportedStep
  <2>4. G(m) \in Dicts /\ Covers(i, r, W(m), G(m))
    BY <1>2, <2>1
  <2>5. G(m + 1) = Put(G(m), s, Absent)
    <3>1. \A q \in Slots : (\E j \in 1..m + 1 : v[j] = q) <=> ((\E j \in 1..m : v[j] = q) \/ s = q)
      <4> SUFFICES ASSUME NEW q \in Slots
                   PROVE (\E j \in 1..m + 1 : v[j] = q) <=> ((\E j \in 1..m : v[j] = q) \/ s = q)
        OBVIOUS
      <4>1. \A j : j \in 1..m + 1 <=> (j \in 1..m \/ j = m + 1)
        OBVIOUS
      <4>2. QED
        BY <4>1
    <3> HIDE DEF s
    <3>2. QED
      BY <2>2, <3>1 DEF Emptied, Put
  <2> HIDE DEF G, W, s
  <2>6. Streamed(e, i) /\ After(G(m), e) = Put(G(m), <<s[1], s[2]>>, Absent)
    BY <2>2, <2>4, DelStreamed
  <2> HIDE DEF e
  <2>7. Covers(i, r, Append(W(m), e), After(G(m), e))
    BY <2>4, <2>6, CoversAppend
  <2>8. G(m + 1) = After(G(m), e)
    BY <2>2, <2>5, <2>6
  <2>9. G(m + 1) \in Dicts
    BY <2>2, <2>4, <2>5, PutType
  <2>10. QED
    BY <2>3, <2>7, <2>8, <2>9
<1>3. \A m \in Nat : m \in T
  <2> HIDE DEF T
  <2>1. QED
    BY <1>1, <1>2, Induction
<1>4. QED
  BY <1>0, <1>3

LEMMA ReapKept ==
  ASSUME Propagating, NEW P \in SUBSET Slots, NEW r, NEW x, Good(x), Live(P, r, x),
         NEW i \in Shards, NEW v \in Seq(Slots), OnShard(v, i)
  PROVE  Kept(P, r, ReapAll(x, i, v))
<1> DEFINE y == ReapAll(x, i, v)
           g == Emptied(x.dict, v, Len(v))
           w == Reported(x.buf[i], v, Len(v))
           dels == [j \in 1..Len(v) |-> Del(v[j][1], v[j][2])]
<1>0. x.dict \in Dicts /\ x.buf \in [Shards -> Seq(Command)] /\ Covered(x, r) /\ Steady(P, x.dict)
      /\ x.buf[i] \in Seq(Command) /\ Len(v) \in Nat /\ Len(x.buf[i]) \in Nat /\ Len(v) \in 0..Len(v)
  BY DEF Live, IsCtx
<1>1. y.dict = g
  <2>1. y.dict = [s \in Slots |-> IF s \in Range(v) THEN Absent ELSE x.dict[s]]
    BY ReapAllGood
  <2>2. \A s : s \in Range(v) <=> \E j \in 1..Len(v) : v[j] = s
    BY DEF Range
  <2> HIDE DEF y
  <2>3. QED
    BY <2>1, <2>2 DEF Emptied
<1>2. y.buf = [x.buf EXCEPT ![i] = x.buf[i] \o dels]
  BY DEF ReapAll, Good, CtxType
<1>3. x.buf[i] \o dels = w
  <2> DEFINE b == x.buf[i]
             c == b \o dels
  <2>1. \A j \in 1..Len(v) : Del(v[j][1], v[j][2]) \in Command
    <3> SUFFICES ASSUME NEW j \in 1..Len(v) PROVE Del(v[j][1], v[j][2]) \in Command
      OBVIOUS
    <3>1. v[j] \in Slots
      OBVIOUS
    <3>2. v[j][1] \in DBs /\ v[j][2] \in Keys
      BY <3>1 DEF Slots
    <3>3. QED
      BY <3>2, DelType
  <2>2. dels \in Seq(Command) /\ Len(dels) = Len(v)
    BY <1>0, <2>1, SeqDef
  <2>3. \A j \in 1..Len(v) : dels[j] = Del(v[j][1], v[j][2])
    OBVIOUS
  <2>4. w \in Seq(Command) /\ Len(w) = Len(b) + Len(v)
        /\ \A j \in 1..Len(b) + Len(v) : w[j] = IF j <= Len(b) THEN b[j] ELSE Del(v[j - Len(b)][1], v[j - Len(b)][2])
    BY <1>0, ReportedType
  <2>b. b \in Seq(Command) /\ Len(b) \in Nat
    BY <1>0
  <2> HIDE DEF dels, b, w
  <2>5. c \in Seq(Command) /\ Len(c) = Len(b) + Len(dels)
        /\ \A j \in 1..Len(b) + Len(dels) : c[j] = IF j <= Len(b) THEN b[j] ELSE dels[j - Len(b)]
    BY <2>2, <2>b, ConcatProperties
  <2> HIDE DEF c
  <2>6. ASSUME NEW j \in 1..Len(b) + Len(v) PROVE c[j] = w[j]
    <3>1. CASE j <= Len(b)
      BY <2>2, <2>4, <2>5, <3>1
    <3>2. CASE ~(j <= Len(b))
      <4>1. j - Len(b) \in 1..Len(v)
        BY <1>0, <2>b, <3>2
      <4>2. QED
        BY <2>2, <2>3, <2>4, <2>5, <3>2, <4>1
    <3>3. QED
      BY <3>1, <3>2
  <2>7. c = w
    BY <2>2, <2>4, <2>5, <2>6, SeqEqual
  <2>8. QED
    BY <2>7 DEF c, b
<1>4. Covers(i, r, w, g)
  BY <1>0, ReportedCovers DEF Covered
<1>5. ASSUME NEW j \in Shards, j # i PROVE Agree(j, x.dict, g)
  <2> SUFFICES ASSUME NEW s \in Slots, ShardOf[s[2]] = j PROVE x.dict[s] = g[s]
    BY DEF Agree
  <2>1. ~\E k \in 1..Len(v) : v[k] = s
    BY <1>5 DEF OnShard
  <2>2. QED
    BY <2>1 DEF Emptied
<1>6. Steady(P, g)
  BY <1>0 DEF Steady, Emptied
<1> HIDE DEF y, g, w, dels
<1>7. \A j \in Shards : y.buf[j] = IF j = i THEN w ELSE x.buf[j]
  BY <1>0, <1>2, <1>3
<1>8. ASSUME NEW j \in Shards PROVE Covers(j, r, y.buf[j], y.dict)
  <2>1. CASE j = i
    BY <1>1, <1>4, <1>7, <2>1
  <2>2. CASE j # i
    <3>1. Covers(j, r, x.buf[j], x.dict)
      BY <1>0 DEF Covered
    <3>2. Covers(j, r, x.buf[j], g)
      BY <1>5, <2>2, <3>1, CoversSame
    <3>3. QED
      BY <1>1, <1>7, <2>2, <3>2
  <2>3. QED
    BY <2>1, <2>2
<1>9. QED
  BY <1>1, <1>6, <1>8 DEF Kept, Covered, y

-----------------------------------------------------------------------------
(* The invariant: what a shard has buffered leads the replica to what the  *)
(* shard holds.                                                            *)
PInv(P) ==
  /\ IInv
  /\ replica \in Dicts
  /\ Steady(P, dict)
  /\ \A i \in Shards : Covers(i, replica, buf[i], dict)

LEMMA NewCtxLive ==
  ASSUME NEW P, PInv(P), NEW t \in Nat, NEW d \in DBs
  PROVE  /\ Live(P, replica, NewCtx(t, d)) /\ Good(NewCtx(t, d)) /\ NewCtx(t, d).db = d
<1> DEFINE q == <<>>
           x == NewCtx(t, d)
<1>1. x = [dict |-> dict, expires |-> expires, watch |-> watch, wseq |-> wseq,
           dirty |-> dirty, buf |-> buf, now |-> t, db |-> d,
           cdirty |-> 0, prop |-> "default", pbuf |-> q, result |-> "ok"]
  BY DEF NewCtx
<1>2. Good(x)
  BY NewCtxGood DEF PInv, IInv
<1>3. dict \in Dicts /\ buf \in [Shards -> Seq(Command)]
  BY DEF PInv, IInv, TypeOK, Dicts
<1> HIDE DEF q, x
<1>4. IsCtx(x) /\ x.dict = dict /\ x.buf = buf /\ x.now = t /\ x.db = d
  BY <1>1, <1>3 DEF IsCtx
<1>5. Fresh(x)
  BY <1>1 DEF Fresh, q
<1>6. Covered(x, replica) /\ Steady(P, x.dict)
  BY <1>4 DEF Covered, PInv
<1>7. QED
  BY <1>2, <1>3, <1>4, <1>5, <1>6 DEF Live, x

LEMMA CommitKept ==
  ASSUME NEW P, PInv(P), NEW z, Kept(P, replica, z), Commit(z), IInv', replica' = replica
  PROVE  PInv(P)'
<1>1. dict' = z.dict /\ buf' = z.buf
  BY DEF Commit
<1>2. \A i \in Shards : Covers(i, replica, z.buf[i], z.dict)
  BY DEF Kept, Covered
<1>3. QED
  BY <1>1, <1>2 DEF PInv, Kept

LEMMA ExecutePInv ==
  ASSUME Propagating, NEW P \in SUBSET Slots, \A c \in Commands : Safe(P, c), PInv(P),
         NEW a \in Actors, NEW c \in Commands, Execute(a, c), replica' = replica
  PROVE  PInv(P)'
<1> DEFINE x == NewCtx(at[a], c.db)
<1>1. IInv'
  BY ExecuteStep DEF PInv
<1>2. at[a] \in Nat /\ c.db \in DBs
  BY CmdType DEF Execute, PInv, IInv, TypeOK
<1>3. Live(P, replica, x) /\ x.db = c.db
  BY <1>2, NewCtxLive
<1>4. Safe(P, c)
  OBVIOUS
<1> DEFINE E(y) == Kept(P, replica, EndCommand(y, c))
           C(y) == Commit(EndCommand(y, c))
<1>5. c.op \notin {"flushdb", "flushall"}
  BY <1>4 DEF Safe
<1>6. \/ c.op = "read" /\ C(CmdRead(x, c))
      \/ c.op = "set" /\ C(CmdSet(x, c))
      \/ c.op = "mset" /\ C(CmdMset(x, c))
      \/ c.op = "del" /\ C(CmdDel(x, c))
      \/ c.op = "expire" /\ C(CmdExpire(x, c))
      \/ c.op = "persist" /\ C(CmdPersist(x, c))
      \/ c.op = "rename" /\ C(CmdRename(x, c))
      \/ c.op = "copy" /\ C(CmdCopy(x, c))
      \/ c.op = "move" /\ C(CmdMove(x, c))
      \/ c.op = "restore" /\ C(CmdRestore(x, c))
      \/ c.op = "sort" /\ C(CmdSort(x, c))
  BY <1>5 DEF Execute
<1> HIDE DEF x
<1>7. c.op = "read" => E(CmdRead(x, c))
  BY <1>3, ReadKept
<1>8. c.op = "mset" => E(CmdMset(x, c))
  BY <1>3, <1>4, MsetKept
<1>9. c.op # "read" /\ c.op # "mset" =>
        /\ c.op = "set" => E(CmdSet(x, c))
        /\ c.op = "del" => E(CmdDel(x, c))
        /\ c.op = "expire" => E(CmdExpire(x, c))
        /\ c.op = "persist" => E(CmdPersist(x, c))
        /\ c.op = "rename" => E(CmdRename(x, c))
        /\ c.op = "copy" => E(CmdCopy(x, c))
        /\ c.op = "move" => E(CmdMove(x, c))
        /\ c.op = "restore" => E(CmdRestore(x, c))
        /\ c.op = "sort" => E(CmdSort(x, c))
  BY <1>3, <1>4, HandlersKeep
<1>10. ASSUME NEW y, E(y), C(y) PROVE PInv(P)'
  BY <1>1, <1>10, CommitKept
<1> HIDE DEF E, C
<1>11. QED
  BY <1>6, <1>7, <1>8, <1>9, <1>10

LEMMA VictimsOnShard ==
  ASSUME NEW i \in Shards, NEW D \in SUBSET Slots, \A s \in D : ShardOf[s[2]] = i,
         NEW v \in [1..Cardinality(D) -> D]
  PROVE  v \in Seq(Slots) /\ OnShard(v, i)
<1>1. v \in Seq(Slots)
  BY OrderType
<1>2. DOMAIN v = 1..Len(v) /\ DOMAIN v = 1..Cardinality(D)
  BY <1>1
<1>3. QED
  BY <1>1, <1>2 DEF OnShard

LEMMA SamplePInv ==
  ASSUME Propagating, NEW P \in SUBSET Slots, PInv(P), NEW a \in Actors, NEW d \in DBs,
         NEW i \in Shards, SampleRound(a, d, i), replica' = replica
  PROVE  PInv(P)'
<1> DEFINE index == {s \in Slots : Home(s) = <<d, i>> /\ expires[s] # Absent}
           dead(w) == {s \in w : expires[s] <= at[a]}
           orders(w) == [1..Cardinality(dead(w)) -> dead(w)]
           x == NewCtx(at[a], d)
<1>1. IInv'
  BY SampleRoundStep DEF PInv
<1>2. at[a] \in Nat
  BY DEF SampleRound, PInv, IInv, TypeOK
<1>3. Live(P, replica, x) /\ Good(x)
  BY <1>2, NewCtxLive
<1>4. PICK w \in SUBSET index : \E v \in orders(w) : Commit(ReapAll(x, i, v))
  BY DEF SampleRound
<1>5. PICK v \in orders(w) : Commit(ReapAll(x, i, v))
  BY <1>4
<1>6. v \in Seq(Slots) /\ OnShard(v, i)
  <2>1. dead(w) \in SUBSET Slots /\ \A s \in dead(w) : ShardOf[s[2]] = i
    BY DEF Home
  <2> DEFINE D == dead(w)
  <2> HIDE DEF D
  <2>2. v \in [1..Cardinality(D) -> D]
    BY DEF D
  <2>3. D \in SUBSET Slots /\ \A s \in D : ShardOf[s[2]] = i
    BY <2>1 DEF D
  <2>4. QED
    BY <2>2, <2>3, VictimsOnShard
<1> HIDE DEF x
<1>7. Kept(P, replica, ReapAll(x, i, v))
  BY <1>3, <1>6, ReapKept
<1>8. QED
  BY <1>1, <1>5, <1>7, CommitKept

LEMMA EvictPInv ==
  ASSUME Propagating, NEW P \in SUBSET Slots, PInv(P), NEW i \in Shards, EvictBatch(i),
         replica' = replica
  PROVE  PInv(P)'
<1> DEFINE U == UNION {Evictable(d, i) : d \in DBs}
           x == NewCtx(now, 0)
<1>1. IInv'
  BY EvictBatchStep DEF PInv
<1>2. now \in Nat /\ 0 \in DBs
  BY KeyspaceConstants DEF PInv, IInv, TypeOK
<1>3. Live(P, replica, x) /\ Good(x)
  BY <1>2, NewCtxLive
<1>4. PICK D \in SUBSET U : \E v \in [1..Cardinality(D) -> D] : Commit(ReapAll(x, i, v))
  BY DEF EvictBatch
<1>5. PICK v \in [1..Cardinality(D) -> D] : Commit(ReapAll(x, i, v))
  BY <1>4
<1>6. v \in Seq(Slots) /\ OnShard(v, i)
  <2>1. \A s \in U : s \in Slots /\ ShardOf[s[2]] = i
    BY DEF Evictable, Home
  <2>2. D \in SUBSET Slots /\ \A s \in D : ShardOf[s[2]] = i
    BY <2>1
  <2>3. QED
    BY <2>2, VictimsOnShard
<1> HIDE DEF x
<1>7. Kept(P, replica, ReapAll(x, i, v))
  BY <1>3, <1>6, ReapKept
<1>8. QED
  BY <1>1, <1>5, <1>7, CommitKept

LEMMA DrainPInv ==
  ASSUME NEW P, PInv(P), NEW i \in Shards, Drain(i)
  PROVE  PInv(P)'
<1> DEFINE e == Replay(replica, buf[i])
           none == <<>>
<1>1. dict' = dict /\ replica' = e /\ buf' = [buf EXCEPT ![i] = none]
  BY DEF Drain
<1>2. replica \in Dicts /\ Covers(i, replica, buf[i], dict) /\ buf \in [Shards -> Seq(Command)]
  BY DEF PInv, IInv, TypeOK
<1>3. e \in Dicts /\ Agree(i, e, dict) /\ Apart(i, e, replica)
  BY <1>2, ReplayCovers
<1>4. IInv'
  <2>1. none \in Seq(Command)
    OBVIOUS
  <2> HIDE DEF none
  <2>2. buf' \in [Shards -> Seq(Command)]
    BY <1>1, <1>2, <2>1
  <2>3. UNCHANGED <<dict, expires, watch, wseq, dirty, now, at>>
    BY DEF Drain
  <2>4. QED
    BY <2>2, <2>3 DEF PInv, IInv, TypeOK, IndexInSync, AtInv
<1> HIDE DEF e
<1>5. Covers(i, e, none, dict)
  BY <1>3, CoversEmpty
<1>6. ASSUME NEW j \in Shards, j # i PROVE Covers(j, e, buf[j], dict)
  <2>1. Covers(j, replica, buf[j], dict)
    BY DEF PInv
  <2>2. Agree(j, replica, e)
    BY <1>3, <1>6 DEF Agree, Apart
  <2>3. QED
    BY <1>2, <1>3, <2>1, <2>2, CoversMoved
<1> HIDE DEF none
<1>7. \A j \in Shards : buf'[j] = IF j = i THEN none ELSE buf[j]
  BY <1>1, <1>2
<1>8. \A j \in Shards : Covers(j, replica', buf'[j], dict')
  BY <1>1, <1>5, <1>6, <1>7
<1>9. QED
  BY <1>1, <1>3, <1>4, <1>8 DEF PInv

LEMMA InitPInv == ASSUME NEW P \in SUBSET Slots PROVE PInit => PInv(P)
<1> SUFFICES ASSUME PInit PROVE PInv(P)
  OBVIOUS
<1>1. IInv
  BY InitIInv DEF PInit
<1>2. dict = replica /\ replica \in Dicts /\ \A s \in Slots : dict[s] = Absent
  BY DEF PInit, Init, Dicts
<1>3. ASSUME NEW i \in Shards PROVE Covers(i, replica, buf[i], dict)
  <2>1. buf[i] = <<>>
    BY DEF PInit, Init
  <2>2. Agree(i, replica, dict)
    BY <1>2 DEF Agree
  <2>3. Covers(i, replica, <<>>, dict)
    BY <1>2, <2>2, CoversEmpty
  <2>4. QED
    BY <2>1, <2>3
<1>4. QED
  BY <1>1, <1>2, <1>3 DEF PInv, Steady

LEMMA NextPInv ==
  ASSUME Propagating, NEW P \in SUBSET Slots, \A c \in Commands : Safe(P, c)
  PROVE  PInv(P) /\ [PNext]_pvars => PInv(P)'
<1> SUFFICES ASSUME PInv(P), [PNext]_pvars PROVE PInv(P)'
  OBVIOUS
<1>1. ASSUME NEW i \in Shards, Drain(i) PROVE PInv(P)'
  BY <1>1, DrainPInv
<1>2. ASSUME NEW a \in Actors, NEW c \in Commands, Execute(a, c), replica' = replica PROVE PInv(P)'
  BY <1>2, ExecutePInv
<1>3. ASSUME NEW a \in Actors, NEW d \in DBs, NEW i \in Shards, SampleRound(a, d, i), replica' = replica
      PROVE  PInv(P)'
  BY <1>3, SamplePInv
<1>4. ASSUME NEW i \in Shards, EvictBatch(i), replica' = replica PROVE PInv(P)'
  BY <1>4, EvictPInv
<1>5. ASSUME [Next]_vars, UNCHANGED <<dict, buf, replica>> PROVE PInv(P)'
  <2>1. IInv'
    BY <1>5, NextIInv DEF PInv
  <2>2. QED
    BY <1>5, <2>1 DEF PInv
<1>6. ASSUME NEW a \in Actors, ReadClock(a), replica' = replica PROVE PInv(P)'
  <2>1. [Next]_vars /\ UNCHANGED <<dict, buf, replica>>
    BY <1>6 DEF Next, ReadClock
  <2>2. QED
    BY <1>5, <2>1
<1>7. CASE Tick /\ replica' = replica
  <2>1. [Next]_vars /\ UNCHANGED <<dict, buf, replica>>
    BY <1>7 DEF Next, Tick
  <2>2. QED
    BY <1>5, <2>1
<1>8. CASE UNCHANGED pvars
  <2>1. [Next]_vars /\ UNCHANGED <<dict, buf, replica>>
    BY <1>8 DEF pvars, vars
  <2>2. QED
    BY <1>5, <2>1
<1>9. QED
  BY <1>1, <1>2, <1>3, <1>4, <1>6, <1>7, <1>8 DEF PNext, Next

LEMMA PInvRebuilds == ASSUME NEW P PROVE PInv(P) => ReplayRebuilds
<1> SUFFICES ASSUME PInv(P), \A i \in Shards : buf[i] = <<>> PROVE replica = dict
  BY DEF ReplayRebuilds
<1>1. replica \in Dicts /\ dict \in Dicts
  BY DEF PInv, IInv, TypeOK, Dicts
<1>2. ASSUME NEW i \in Shards PROVE Agree(i, replica, dict)
  <2> DEFINE w == buf[i]
  <2>1. Covers(i, replica, w, dict) /\ Len(w) = 0
    BY DEF PInv
  <2> HIDE DEF w
  <2>2. PICK g : Chain(g, replica, w) /\ Agree(i, g[Len(w)], dict)
    BY <2>1 DEF Covers
  <2>3. g[0] = replica
    BY <2>2 DEF Chain
  <2>4. QED
    BY <2>1, <2>2, <2>3
<1>3. ASSUME NEW s \in Slots PROVE replica[s] = dict[s]
  <2>1. ShardOf[s[2]] \in Shards
    BY KeyspaceConstants DEF Slots
  <2>2. QED
    BY <1>2, <2>1 DEF Agree
<1>4. QED
  BY <1>1, <1>3 DEF Dicts

(* Once every buffer has been drained and replayed, the loader has rebuilt *)
(* the keyspace, entry by entry and deadline by deadline: whatever the     *)
(* interleaving of commands, lazy and active expiry, eviction and drains,  *)
(* for every number of shards.  The hypothesis leaves out what the code    *)
(* does not carry over: commands over several shards, flushes, and         *)
(* conditional commands whose target may be expired and still there.       *)
THEOREM ReplayRebuildsAll ==
  ASSUME Propagating, ReplaySafe
  PROVE  PSpec => []ReplayRebuilds
<1>1. PICK P \in SUBSET Slots : \A c \in Commands : Safe(P, c)
  BY DEF ReplaySafe
<1>2. PInit => PInv(P)
  BY InitPInv
<1>3. PInv(P) /\ [PNext]_pvars => PInv(P)'
  BY <1>1, NextPInv
<1>4. PInv(P) => ReplayRebuilds
  BY PInvRebuilds
<1>5. QED
  BY <1>2, <1>3, <1>4, PTL DEF PSpec

=============================================================================
