----------------------------- MODULE ShardLocks -----------------------------
(***************************************************************************)
(* How threads take and release the shard mutexes.                         *)
(*                                                                         *)
(*   - a command resolves its shard set (engine.rs shard_set_for), locks   *)
(*     the whole set one mutex at a time (shard/mod.rs lock_set), runs its *)
(*     handler, publishes the statistics mirrors and unlocks               *)
(*     (ShardGuards::release);                                             *)
(*   - the handlers of SCAN and INFO, which run with no guard, lock single *)
(*     shards themselves, one after the other (cmd_scan,                   *)
(*     ShardMap::db_size);                                                 *)
(*   - the expiry tasks and the eviction task visit single shards, and     *)
(*     change them (expire.rs cycle_shard, evict.rs evict_batch).          *)
(*                                                                         *)
(* The contents of a shard are reduced to its modification counter dirty   *)
(* and the copy of it published outside the mutex (ShardHandle.dirty).     *)
(***************************************************************************)
EXTENDS Integers, Sequences, Functions

CONSTANTS
  N,          \* number of shards (ShardMap.len)
  Threads,    \* worker threads running engine::dispatch
  Tasks,      \* background tasks: one expiry task per shard, the eviction task
  NoThread,   \* owner of a free mutex
  Keys,       \* the keys commands name
  ShardOf,    \* ShardMap.shard_index: key -> shard
  Commands,   \* what clients may send
  Sweeps,     \* the visit plans of the background tasks
  MaxDirty    \* bound on the modification counter of a shard

Shards == 0..N-1
Actors == Threads \cup Tasks

(* A command, as its CommandSpec describes it: the ALL_SHARDS flag, the    *)
(* keys at its key_positions in the order of its arguments, and the shards *)
(* its handler locks by itself.  Only handlers of commands that declare no *)
(* key do so: SCAN (generic.rs) and INFO (server.rs).                      *)
Command == [all : BOOLEAN, keys : Seq(Keys), visits : Seq(Shards)]

ASSUME LockConstants ==
  /\ N \in Nat \ {0}
  /\ Threads \cap Tasks = {}
  /\ NoThread \notin Threads \cup Tasks
  /\ ShardOf \in [Keys -> Shards]
  /\ Commands \subseteq Command
  /\ \A c \in Commands : c.visits # <<>> => ~c.all /\ c.keys = <<>>
  /\ Sweeps \subseteq Seq(Shards)
  /\ MaxDirty \in Nat

VARIABLES
  pc,      \* actor -> what it is doing
  set,     \* actor -> its ShardSet, a sequence of shard indices
  pos,     \* actor -> locks of set taken (or, when releasing, dropped)
  plan,    \* actor -> shards its handler has still to lock one by one
  owner,   \* shard -> the actor that holds its mutex
  dirty,   \* shard -> Shard.dirty, guarded by the mutex
  mirror   \* shard -> ShardHandle.dirty, the lock-free copy

vars == <<pc, set, pos, plan, owner, dirty, mirror>>

Phases == {"idle", "lock", "run", "visit", "release"}

TypeOK ==
  /\ pc \in [Actors -> Phases]
  /\ set \in [Actors -> Seq(Shards)]
  /\ pos \in [Actors -> Nat]
  /\ plan \in [Actors -> Seq(Shards)]
  /\ owner \in [Shards -> Actors \cup {NoThread}]
  /\ dirty \in [Shards -> 0..MaxDirty]
  /\ mirror \in [Shards -> 0..MaxDirty]

Init ==
  /\ pc = [a \in Actors |-> "idle"]
  /\ set = [a \in Actors |-> <<>>]
  /\ pos = [a \in Actors |-> 0]
  /\ plan = [a \in Actors |-> <<>>]
  /\ owner = [s \in Shards |-> NoThread]
  /\ dirty = [s \in Shards |-> 0]
  /\ mirror = [s \in Shards |-> 0]

-----------------------------------------------------------------------------
(* Shard-set resolution.                                                   *)

(* ShardSet::is_sorted_and_unique: adjacent elements increase.             *)
IsSortedAndUnique(s) == \A i \in 1..Len(s)-1 : s[i] < s[i+1]

(* Mutant: ShardSet::finish forgets to sort.                               *)
FinishUnsorted(raw) ==
  {s \in UNION {[1..n -> Shards] : n \in 0..N} :
     IsInjective(s) /\ Range(s) = Range(raw)}

(* ShardSet::finish: sort_unstable, then dedup; the only sequence in this  *)
(* set is the sorted enumeration of the elements of raw.                   *)
Finish(raw) ==
  {s \in UNION {[1..n -> Shards] : n \in 0..N} :
     IsSortedAndUnique(s) /\ Range(s) = Range(raw)}

(* engine.rs shard_set_for.                                                *)
ShardSetFor(c) ==
  Finish(IF c.all THEN [i \in 1..N |-> i-1]
                  ELSE [i \in 1..Len(c.keys) |-> ShardOf[c.keys[i]]])

-----------------------------------------------------------------------------
(* The command path.                                                       *)

(* engine.rs dispatch up to lock_set; no lock is held.                     *)
Dispatch(t, c) ==
  /\ pc[t] = "idle"
  /\ pc' = [pc EXCEPT ![t] = "lock"]
  /\ \E s \in ShardSetFor(c) : set' = [set EXCEPT ![t] = s]
  /\ pos' = [pos EXCEPT ![t] = 0]
  /\ plan' = [plan EXCEPT ![t] = c.visits]
  /\ UNCHANGED <<owner, dirty, mirror>>

(* Mutant: the next lock is pushed without waiting for its owner.          *)
LockNextNoWait(t) ==
  /\ pc[t] = "lock"
  /\ pos[t] < Len(set[t])
  /\ owner' = [owner EXCEPT ![set[t][pos[t]+1]] = t]
  /\ pos' = [pos EXCEPT ![t] = @ + 1]
  /\ UNCHANGED <<pc, set, plan, dirty, mirror>>

(* One iteration of the loop of lock_set (and of lock_all).                *)
LockNext(t) ==
  /\ pc[t] = "lock"
  /\ pos[t] < Len(set[t])
  /\ owner[set[t][pos[t]+1]] = NoThread
  /\ owner' = [owner EXCEPT ![set[t][pos[t]+1]] = t]
  /\ pos' = [pos EXCEPT ![t] = @ + 1]
  /\ UNCHANGED <<pc, set, plan, dirty, mirror>>

(* Every lock is taken: the handler starts.                                *)
StartHandler(t) ==
  /\ pc[t] = "lock"
  /\ pos[t] = Len(set[t])
  /\ pc' = [pc EXCEPT ![t] = "run"]
  /\ UNCHANGED <<set, pos, plan, owner, dirty, mirror>>

(* The handler modifies the shard of one of its keys (ShardGuards::for_key *)
(* finds it among the guards).                                             *)
Modify(t) ==
  /\ pc[t] = "run"
  /\ \E i \in 1..Len(set[t]) :
       /\ dirty[set[t][i]] < MaxDirty
       /\ dirty' = [dirty EXCEPT ![set[t][i]] = @ + 1]
  /\ UNCHANGED <<pc, set, pos, plan, owner, mirror>>

(* Mutant: the guards drop before the statistics are published, and the    *)
(* publication is lost.                                                    *)
PublishNothing(t) ==
  /\ pc[t] = "run"
  /\ plan[t] = <<>>
  /\ pc' = [pc EXCEPT ![t] = "release"]
  /\ pos' = [pos EXCEPT ![t] = 0]
  /\ UNCHANGED <<set, plan, owner, dirty, mirror>>

(* Mutant: every handle gets the counter of the last guard.                *)
PublishWrongShard(t) ==
  /\ pc[t] = "run"
  /\ plan[t] = <<>>
  /\ mirror' = [s \in Shards |-> IF s \in Range(set[t])
                               THEN dirty[set[t][Len(set[t])]] ELSE mirror[s]]
  /\ pc' = [pc EXCEPT ![t] = "release"]
  /\ pos' = [pos EXCEPT ![t] = 0]
  /\ UNCHANGED <<set, plan, owner, dirty>>

(* ShardGuards::release, first half: sync_stats on every guard, while all  *)
(* of them are still held.                                                 *)
PublishStats(t) ==
  /\ pc[t] = "run"
  /\ plan[t] = <<>>
  /\ mirror' = [s \in Shards |-> IF s \in Range(set[t]) THEN dirty[s] ELSE mirror[s]]
  /\ pc' = [pc EXCEPT ![t] = "release"]
  /\ pos' = [pos EXCEPT ![t] = 0]
  /\ UNCHANGED <<set, plan, owner, dirty>>

(* ShardGuards::release, second half: the guards drop one by one.  A       *)
(* SmallVec drops its elements front to back.                              *)
DropGuard(t) ==
  /\ pc[t] = "release"
  /\ pos[t] < Len(set[t])
  /\ owner' = [owner EXCEPT ![set[t][pos[t]+1]] = NoThread]
  /\ pos' = [pos EXCEPT ![t] = @ + 1]
  /\ UNCHANGED <<pc, set, plan, dirty, mirror>>

(* Mutant: dispatch returns with guards still in its hands.                *)
ReturnEarly(t) ==
  /\ pc[t] = "release"
  /\ pc' = [pc EXCEPT ![t] = "idle"]
  /\ set' = [set EXCEPT ![t] = <<>>]
  /\ pos' = [pos EXCEPT ![t] = 0]
  /\ UNCHANGED <<plan, owner, dirty, mirror>>

(* dispatch writes the reply and returns.                                  *)
Return(t) ==
  /\ pc[t] = "release"
  /\ pos[t] = Len(set[t])
  /\ pc' = [pc EXCEPT ![t] = "idle"]
  /\ set' = [set EXCEPT ![t] = <<>>]
  /\ pos' = [pos EXCEPT ![t] = 0]
  /\ UNCHANGED <<plan, owner, dirty, mirror>>

-----------------------------------------------------------------------------
(* Single-shard visits: SCAN, INFO, and the background tasks.              *)

(* A background task wakes up.  It runs outside dispatch: no guards.       *)
WakeTask(k, p) ==
  /\ pc[k] = "idle"
  /\ pc' = [pc EXCEPT ![k] = "run"]
  /\ plan' = [plan EXCEPT ![k] = p]
  /\ UNCHANGED <<set, pos, owner, dirty, mirror>>

(* The sweep is over; the task sleeps until its next tick.                 *)
SleepTask(k) ==
  /\ pc[k] = "run"
  /\ plan[k] = <<>>
  /\ pc' = [pc EXCEPT ![k] = "idle"]
  /\ UNCHANGED <<set, pos, plan, owner, dirty, mirror>>

(* handle.lock() inside cmd_scan, db_size, cycle_shard, evict_batch.       *)
VisitLock(a) ==
  /\ pc[a] = "run"
  /\ plan[a] # <<>>
  /\ owner[Head(plan[a])] = NoThread
  /\ owner' = [owner EXCEPT ![Head(plan[a])] = a]
  /\ pc' = [pc EXCEPT ![a] = "visit"]
  /\ UNCHANGED <<set, pos, plan, dirty, mirror>>

(* Mutant: a removal is counted twice.                                     *)
SweepRemoveTwice(k) ==
  /\ pc[k] = "visit"
  /\ dirty[Head(plan[k])] < MaxDirty
  /\ dirty' = [dirty EXCEPT ![Head(plan[k])] = @ + 2]
  /\ UNCHANGED <<pc, set, pos, plan, owner, mirror>>

(* cycle_shard and evict_batch remove keys of the shard they visit; SCAN   *)
(* and INFO only read.                                                     *)
SweepRemove(k) ==
  /\ pc[k] = "visit"
  /\ dirty[Head(plan[k])] < MaxDirty
  /\ dirty' = [dirty EXCEPT ![Head(plan[k])] = @ + 1]
  /\ UNCHANGED <<pc, set, pos, plan, owner, mirror>>

(* Mutant: the walk does not move on to the next shard.                    *)
VisitUnlockStays(a) ==
  /\ pc[a] = "visit"
  /\ mirror' = [mirror EXCEPT ![Head(plan[a])] = dirty[Head(plan[a])]]
  /\ owner' = [owner EXCEPT ![Head(plan[a])] = NoThread]
  /\ pc' = [pc EXCEPT ![a] = "run"]
  /\ UNCHANGED <<set, pos, plan, dirty>>

(* Leaving the visited shard.  A task that removed something publishes the *)
(* statistics before it unlocks.  A visitor may stop early: SCAN when its  *)
(* COUNT budget is spent, a sweep when its time budget is.                 *)
VisitUnlock(a) ==
  /\ pc[a] = "visit"
  /\ mirror' = IF a \in Tasks
                 THEN [mirror EXCEPT ![Head(plan[a])] = dirty[Head(plan[a])]]
                 ELSE mirror
  /\ owner' = [owner EXCEPT ![Head(plan[a])] = NoThread]
  /\ pc' = [pc EXCEPT ![a] = "run"]
  /\ \E rest \in {Tail(plan[a]), <<>>} : plan' = [plan EXCEPT ![a] = rest]
  /\ UNCHANGED <<set, pos, dirty>>

-----------------------------------------------------------------------------
DispatchStep(t) ==
  \/ \E c \in Commands : Dispatch(t, c)
  \/ LockNext(t)
  \/ StartHandler(t)
  \/ Modify(t)
  \/ PublishStats(t)
  \/ DropGuard(t)
  \/ Return(t)

Sweep(k) ==
  \/ \E p \in Sweeps : WakeTask(k, p)
  \/ SweepRemove(k)
  \/ SleepTask(k)

Visit(a) == VisitLock(a) \/ VisitUnlock(a)

Next ==
  \/ \E t \in Threads : DispatchStep(t)
  \/ \E k \in Tasks : Sweep(k)
  \/ \E a \in Actors : Visit(a)

Spec == Init /\ [][Next]_vars

(* A thread inside dispatch keeps running, and parking_lot's mutexes are   *)
(* eventually fair: a waiter that finds the mutex free again and again     *)
(* gets it.  Nothing forces a client to send, or a handler to modify.      *)
Fairness ==
  /\ \A t \in Threads :
       WF_vars(StartHandler(t) \/ PublishStats(t) \/ DropGuard(t) \/ Return(t))
  /\ \A k \in Tasks : WF_vars(SleepTask(k))
  /\ \A a \in Actors :
       /\ WF_vars(VisitUnlock(a))
       /\ SF_vars((a \in Threads /\ LockNext(a)) \/ VisitLock(a))

FairSpec == Spec /\ Fairness

-----------------------------------------------------------------------------
(* Properties.                                                             *)

(* The shards an actor's code may touch: the guards in its hands and the   *)
(* shard it is visiting.                                                   *)
Guards(a) ==
  {set[a][i] : i \in {j \in 1..Len(set[a]) :
                        /\ pc[a] = "lock" => j <= pos[a]
                        /\ pc[a] = "release" => j > pos[a]}}

Holding(a) ==
  Guards(a) \cup (IF pc[a] = "visit" THEN {Head(plan[a])} ELSE {})

(* The shard an actor is about to lock.                                    *)
Wanting(a) ==
  \/ pc[a] = "lock" /\ pos[a] < Len(set[a])
  \/ pc[a] = "run" /\ plan[a] # <<>>

Wanted(a) == IF pc[a] = "lock" THEN set[a][pos[a]+1] ELSE Head(plan[a])

Blocked(a) == Wanting(a) /\ owner[Wanted(a)] # NoThread

(* Two actors never have the same shard in their hands: the data behind a  *)
(* shard mutex is reached by one handler, scan or sweep at a time.         *)
MutualExclusion ==
  \A a, b \in Actors : a # b => Holding(a) \cap Holding(b) = {}

(* Invariant (I) of engine.rs: an actor only ever waits for a shard whose  *)
(* index is greater than every shard index it holds.                       *)
WaitsAbove ==
  \A a \in Actors : Wanting(a) => \A s \in Holding(a) : s < Wanted(a)

(* The claim of engine.rs, "No set of threads ... can deadlock on shard    *)
(* mutexes": in every set of actors somebody waits for nobody of the set.  *)
NoDeadlock ==
  \A S \in SUBSET Actors :
    S # {} => \E a \in S : ~(Blocked(a) /\ owner[Wanted(a)] \in S)

(* A locked mutex is in the hands of the actor that locked it, which will  *)
(* unlock it: no command, scan or sweep returns with a shard still locked  *)
(* (ShardGuards::release drops every guard of lock_set).                   *)
NothingLeaked ==
  \A s \in Shards : owner[s] # NoThread => s \in Holding(owner[s])

(* The lock-free copies INFO, the expiry tasks and check_oom read are      *)
(* exact whenever the shard is not locked (ShardHandle, "mirrored outside  *)
(* the mutex").                                                            *)
MirrorExactWhenFree ==
  \A s \in Shards : owner[s] = NoThread => mirror[s] = dirty[s]

(* A statistic never goes back, although handlers, scans and sweeps        *)
(* publish it independently: no stale counter overwrites a newer one.      *)
MirrorMonotone == [][\A s \in Shards : mirror'[s] >= mirror[s]]_vars

(* Every command that was dispatched and every sweep that started ends,    *)
(* releasing every lock, whatever the others do.                           *)
CommandsComplete == \A a \in Actors : pc[a] # "idle" ~> pc[a] = "idle"
=============================================================================
