------------------------------- MODULE Evict --------------------------------
(***************************************************************************)
(* maxmemory: the estimate of what each shard holds (ShardHandle.mem), the *)
(* gate that refuses commands that may allocate (check_oom), and the       *)
(* eviction task (evict_cycle), one lock acquisition or one update of an   *)
(* atomic per step, while clients write and delete.  used_memory and       *)
(* volatile_keys add up atomics of the shards one after the other, without *)
(* a lock: whoever is not the only writer of them loads one per step.      *)
(*                                                                         *)
(* A shard is reduced to how many keys with and without TTL it holds, of   *)
(* all its databases together.  Every slice is within ESTIMATE_SAMPLE, so  *)
(* that a sample is exact (db_cost).  Nothing on the write path maintains  *)
(* the estimate: only the task writes it.                                  *)
(***************************************************************************)
EXTENDS Integers, FiniteSets

CONSTANTS
  N,             \* number of shards
  Clients,       \* connections
  Limit,         \* maxmemory; 0 is no limit
  Policies,      \* the settings of maxmemory-policy to consider
  PlainCost,     \* entry_cost of a key without TTL
  VolatileCost,  \* entry_cost of a key with TTL
  Batch,         \* MAX_EVICTIONS_PER_LOCK
  MaxRounds,     \* MAX_ROUNDS_PER_CYCLE
  MaxKeys,       \* bound: keys of each kind per shard
  MaxWrites      \* bound: writes of all clients together

Shards == 0..N-1
Kinds == {"plain", "volatile"}

ASSUME EvictConstants ==
  /\ N \in Nat \ {0}
  /\ IsFiniteSet(Clients)
  /\ Policies \subseteq {"noeviction", "allkeys", "volatile"}
  /\ {PlainCost, VolatileCost, Batch, MaxRounds} \subseteq Nat \ {0}
  /\ {Limit, MaxKeys, MaxWrites} \subseteq Nat

VARIABLES
  policy,     \* which keys maxmemory-policy lets the task take
  keys,       \* shard -> kind -> number of keys
  mem,        \* shard -> ShardHandle.mem, the estimate
  pc,         \* what the task is doing
  cur,        \* the shard the task is working on
  amount,     \* what it sampled or freed under the lock, not yet published
  rounds,     \* EvictStats.rounds
  exhausted,  \* EvictStats.exhausted of the latest cycle
  check,      \* client -> how far its command is: see Checking
  writes,     \* writes so far
  known,      \* shards no client has touched since they were sampled (history)
  stores,     \* client -> stores of the task since its first load, up to 2
              \* (history, kept under noeviction)
  late        \* writes since the sum of the estimates is over the limit, but
              \* those whose check saw two stores (history, likewise)

vars == <<policy, keys, mem, pc, cur, amount, rounds, exhausted, check, writes, known, stores, late>>

(* A client is outside a command that may allocate, in check_oom (the next *)
(* shard to load and the sum so far, of estimates or of keys with TTL), or *)
(* past it and not yet in its handler.                                     *)
Checking(where, i, sum) == [at |-> where, next |-> i, sum |-> sum]
Out == Checking("out", 0, 0)
Past == Checking("past", 0, 0)

Init ==
  /\ policy \in Policies
  /\ keys = [s \in Shards |-> [k \in Kinds |-> 0]]
  /\ mem = [s \in Shards |-> 0]
  /\ pc = "idle"
  /\ cur = 0
  /\ amount = 0
  /\ rounds = 0
  /\ exhausted = FALSE
  /\ check = [c \in Clients |-> Out]
  /\ writes = 0
  /\ known = {}
  /\ stores = [c \in Clients |-> 0]
  /\ late = 0

-----------------------------------------------------------------------------
Cost(s) == PlainCost * keys[s]["plain"] + VolatileCost * keys[s]["volatile"]

(* The sum over the shards before the i-th.                                *)
UsedMemoryTo(m) == LET to[i \in 0..N] == IF i = 0 THEN 0 ELSE to[i-1] + m[i-1] IN to

(* used_memory of the estimates m, as the task sees it: it alone stores    *)
(* estimates, so that its loads are of one moment.                         *)
UsedMemory(m) == UsedMemoryTo(m)[N]

OverLimit(m) == Limit # 0 /\ UsedMemory(m) > Limit

(* is_volatile_policy, fill_pool: what the policy lets a batch take.       *)
EvictableKinds == IF policy = "volatile" THEN {"volatile"} ELSE Kinds

(* Mutant: the last of the fattest shards, whatever it holds.              *)
FattestShardLast == {N-1}

(* fattest_shard: the first shard with the largest estimate above zero.    *)
FattestShard ==
  {s \in Shards : /\ mem[s] > 0
                  /\ \A r \in Shards : mem[r] < mem[s] \/ (mem[r] = mem[s] /\ s <= r)}

-----------------------------------------------------------------------------
(* Clients.                                                                *)

(* Bound: a client may begin another command that writes.                  *)
MayBegin == writes + Cardinality({c \in Clients : check[c] # Out}) < MaxWrites

(* Mutant: the sum stops before the last shard.                            *)
LoadMemShort(c) ==
  LET i == check[c].next
      sum == check[c].sum + mem[i]
  IN /\ check[c].at = "mem" \/ (check[c].at = "out" /\ MayBegin)
     /\ check' = [check EXCEPT ![c] =
                    IF Limit # 0 /\ i < N-2 THEN Checking("mem", i + 1, sum)
                    ELSE IF Limit = 0 \/ sum <= Limit \/ policy = "allkeys" THEN Past
                    ELSE IF policy = "noeviction" THEN Out
                    ELSE Checking("expires", 0, 0)]
     /\ stores' = [stores EXCEPT ![c] = IF check'[c].at \in {"mem", "past"} THEN @ ELSE 0]
     /\ UNCHANGED <<keys, mem, pc, cur, amount, rounds, exhausted, writes, known, late>>

(* dispatch of a DENYOOM command: check_oom loads the estimate of one      *)
(* shard, the first one or the next.  After the last one it knows whether  *)
(* it is over the limit, and the policy decides: there is room, the sweep  *)
(* will make some, the command is refused, or that depends on the keys     *)
(* with TTL.  Without a limit it passes at once.                           *)
LoadMem(c) ==
  LET i == check[c].next
      sum == check[c].sum + mem[i]
  IN /\ check[c].at = "mem" \/ (check[c].at = "out" /\ MayBegin)
     /\ check' = [check EXCEPT ![c] =
                    IF Limit # 0 /\ i < N-1 THEN Checking("mem", i + 1, sum)
                    ELSE IF Limit = 0 \/ sum <= Limit \/ policy = "allkeys" THEN Past
                    ELSE IF policy = "noeviction" THEN Out
                    ELSE Checking("expires", 0, 0)]
     /\ stores' = [stores EXCEPT ![c] = IF check'[c].at \in {"mem", "past"} THEN @ ELSE 0]
     /\ UNCHANGED <<keys, mem, pc, cur, amount, rounds, exhausted, writes, known, late>>

(* volatile_keys, the same way; refused if there is none.                  *)
LoadExpires(c) ==
  LET i == check[c].next
      sum == check[c].sum + keys[i]["volatile"]
  IN /\ check[c].at = "expires"
     /\ check' = [check EXCEPT ![c] =
                    IF i < N-1 THEN Checking("expires", i + 1, sum)
                    ELSE IF sum = 0 THEN Out ELSE Past]
     /\ UNCHANGED <<keys, mem, pc, cur, amount, rounds, exhausted, writes, known, stores, late>>

(* Its handler runs, later, and creates a key.                             *)
Write(c, s, k) ==
  /\ check[c] = Past
  /\ keys[s][k] < MaxKeys
  /\ check' = [check EXCEPT ![c] = Out]
  /\ keys' = [keys EXCEPT ![s][k] = @ + 1]
  /\ stores' = [stores EXCEPT ![c] = 0]
  /\ writes' = writes + 1
  /\ known' = known \ {s}
  /\ late' = IF ~OverLimit(mem) THEN 0
             ELSE IF policy = "noeviction" /\ stores[c] < 2 THEN late + 1
             ELSE late
  /\ UNCHANGED <<mem, pc, cur, amount, rounds, exhausted>>

(* DEL, lazy expiry, active expiry, FLUSHDB: no gate.                      *)
Delete(s, k) ==
  /\ keys[s][k] > 0
  /\ keys' = [keys EXCEPT ![s][k] = @ - 1]
  /\ known' = known \ {s}
  /\ UNCHANGED <<mem, pc, cur, amount, rounds, exhausted, check, writes, stores, late>>

-----------------------------------------------------------------------------
(* The eviction task: evict_cycle.                                         *)

Publish(m) ==
  /\ mem' = m
  /\ stores' = [c \in Clients |->
                  IF policy = "noeviction" /\ check[c].at = "mem" /\ stores[c] < 2
                  THEN stores[c] + 1 ELSE stores[c]]
  /\ late' = IF OverLimit(m) THEN late ELSE 0

(* A tick: refresh_all begins, whatever the policy.                        *)
Wake ==
  /\ pc = "idle" /\ Limit # 0
  /\ pc' = "sample" /\ cur' = 0 /\ rounds' = 0 /\ exhausted' = FALSE
  /\ UNCHANGED <<keys, mem, amount, check, writes, known, stores, late>>

(* refresh_shard_estimate, under the lock.                                 *)
Sample ==
  /\ pc \in {"sample", "resample"}
  /\ amount' = Cost(cur)
  /\ known' = known \cup {cur}
  /\ pc' = IF pc = "sample" THEN "store" ELSE "restore"
  /\ UNCHANGED <<keys, mem, cur, rounds, exhausted, check, writes, stores, late>>

(* Mutant: the estimate can only be raised.                                *)
StoreLarger ==
  /\ pc = "store"
  /\ Publish([mem EXCEPT ![cur] = IF @ > amount THEN @ ELSE amount])
  /\ IF cur < N-1
     THEN pc' = "sample" /\ cur' = cur + 1 /\ exhausted' = exhausted
     ELSE IF policy = "noeviction"
     THEN pc' = "idle" /\ cur' = cur /\ exhausted' = OverLimit(mem')
     ELSE pc' = "check" /\ cur' = cur /\ exhausted' = exhausted
  /\ UNCHANGED <<keys, amount, rounds, check, writes, known>>

(* refresh_all: the estimate of one shard is published, the lock is gone.  *)
Store ==
  /\ pc = "store"
  /\ Publish([mem EXCEPT ![cur] = amount])
  /\ IF cur < N-1
     THEN pc' = "sample" /\ cur' = cur + 1 /\ exhausted' = exhausted
     ELSE IF policy = "noeviction"
     THEN pc' = "idle" /\ cur' = cur /\ exhausted' = OverLimit(mem')
     ELSE pc' = "check" /\ cur' = cur /\ exhausted' = exhausted
  /\ UNCHANGED <<keys, amount, rounds, check, writes, known>>

(* The head of the loop: another round on the fattest shard.               *)
Pick ==
  /\ pc = "check" /\ OverLimit(mem) /\ rounds < MaxRounds
  /\ cur' \in FattestShard
  /\ pc' = "evict"
  /\ UNCHANGED <<keys, mem, amount, rounds, exhausted, check, writes, known, stores, late>>

(* The ways out of the loop: enough, no estimate above zero, too many      *)
(* rounds, and at any time the time budget.                                *)
Leave ==
  /\ pc = "check"
  /\ pc' = "idle"
  /\ exhausted' \in {FALSE, OverLimit(mem) /\ rounds < MaxRounds /\ FattestShard = {}}
  /\ UNCHANGED <<keys, mem, cur, amount, rounds, check, writes, known, stores, late>>

(* evict_batch, under the lock: some keys the policy allows, none only if  *)
(* there is none.  (How many depends on the pools of the databases.)       *)
EvictLocked ==
  /\ pc = "evict"
  /\ pc' = "subtract"
  /\ \E p \in 0..keys[cur]["plain"], v \in 0..keys[cur]["volatile"] :
       /\ p + v <= Batch
       /\ p > 0 => "plain" \in EvictableKinds
       /\ (p + v = 0) => \A k \in EvictableKinds : keys[cur][k] = 0
       /\ keys' = [keys EXCEPT ![cur]["plain"] = @ - p, ![cur]["volatile"] = @ - v]
       /\ amount' = PlainCost * p + VolatileCost * v
  /\ UNCHANGED <<mem, cur, rounds, exhausted, check, writes, known, stores, late>>

(* Mutant: what was freed is not taken off the estimate.                   *)
SubtractNothing ==
  /\ pc = "subtract"
  /\ pc' = IF amount = 0 THEN "resample" ELSE "check"
  /\ rounds' = rounds + 1
  /\ UNCHANGED <<keys, mem, cur, amount, exhausted, check, writes, known, stores, late>>

(* Mutant: a plain subtraction.                                            *)
SubtractUnchecked ==
  /\ pc = "subtract"
  /\ Publish([mem EXCEPT ![cur] = @ - amount])
  /\ pc' = IF amount = 0 THEN "resample" ELSE "check"
  /\ rounds' = rounds + 1
  /\ UNCHANGED <<keys, cur, amount, exhausted, check, writes, known>>

(* evict_batch after the unlock: a saturating subtraction.                 *)
Subtract ==
  /\ pc = "subtract"
  /\ Publish([mem EXCEPT ![cur] = IF @ > amount THEN @ - amount ELSE 0])
  /\ pc' = IF amount = 0 THEN "resample" ELSE "check"
  /\ rounds' = rounds + 1
  /\ UNCHANGED <<keys, cur, amount, exhausted, check, writes, known>>

(* An empty batch: the shard is estimated again.  Then the task gives up   *)
(* if nothing is volatile, or if it has made more rounds than there are    *)
(* shards.                                                                 *)
GiveUp(gives) ==
  /\ exhausted' = gives
  /\ pc' = IF gives THEN "idle" ELSE "check"

Restore ==
  /\ pc = "restore"
  /\ Publish([mem EXCEPT ![cur] = amount])
  /\ IF policy = "volatile"
     THEN pc' = "count" /\ cur' = 0 /\ amount' = 0 /\ exhausted' = exhausted
     ELSE GiveUp(rounds > N) /\ cur' = cur /\ amount' = amount
  /\ UNCHANGED <<keys, rounds, check, writes, known>>

(* volatile_keys of the task: clients change the numbers between loads.    *)
Count ==
  LET sum == amount + keys[cur]["volatile"]
  IN /\ pc = "count"
     /\ amount' = sum
     /\ IF cur < N-1 THEN cur' = cur + 1 /\ UNCHANGED <<pc, exhausted>>
        ELSE GiveUp(sum = 0 \/ rounds > N) /\ cur' = cur
     /\ UNCHANGED <<keys, mem, rounds, check, writes, known, stores, late>>

Task ==
  \/ Wake \/ Sample \/ Store \/ Pick \/ Leave \/ EvictLocked \/ Subtract
  \/ Restore \/ Count

(* The setting stays.                                                      *)
Next ==
  /\ policy' = policy
  /\ \/ \E c \in Clients : LoadMem(c) \/ LoadExpires(c)
     \/ \E c \in Clients, s \in Shards, k \in Kinds : Write(c, s, k)
     \/ \E s \in Shards, k \in Kinds : Delete(s, k)
     \/ Task

Spec == Init /\ [][Next]_vars

(* The task's interval ticks for ever, its steps do not block for ever     *)
(* (ShardLocks), and its time budget, ten milliseconds counted from the    *)
(* head of the loop, is not always over before the first round.            *)
Fairness == WF_vars(Task /\ policy' = policy) /\ SF_vars(Pick /\ policy' = policy)

FairSpec == Spec /\ Fairness

-----------------------------------------------------------------------------
(* Properties.                                                             *)

(* The types of the variables.                                             *)
TypeOK ==
  /\ policy \in Policies
  /\ keys \in [Shards -> [Kinds -> 0..MaxKeys]]
  /\ mem \in [Shards -> Nat]
  /\ pc \in {"idle", "sample", "store", "check", "evict", "subtract",
             "resample", "restore", "count"}
  /\ cur \in Shards
  /\ amount \in Nat
  /\ rounds \in 0..MaxRounds
  /\ exhausted \in BOOLEAN
  /\ check \in [Clients -> [at : {"out", "mem", "expires", "past"}, next : Shards, sum : Nat]]
  /\ writes \in Nat
  /\ known \subseteq Shards
  /\ stores \in [Clients -> 0..2]
  /\ late \in Nat

(* Between rounds the estimate of a shard that clients have left alone     *)
(* since it was sampled is what the shard holds, although the task         *)
(* publishes each figure after it has given up the lock: no freed byte is  *)
(* lost or counted twice (evict_batch, refresh_shard_estimate).            *)
EstimateExact ==
  pc \in {"idle", "check", "evict"} =>
    \A s \in known : mem[s] = Cost(s)

(* check_oom adds up the estimates while the task stores them, and its     *)
(* answer may be stale by the time the handler writes.  Under noeviction,  *)
(* from the moment the sum of the estimates is over the limit at most one  *)
(* more write of each client lands, of those whose check saw at most one   *)
(* store: a check that overlaps one store reads the sum before or after    *)
(* it.  (One that overlaps two may add up estimates that were never there  *)
(* together, and pass again.)                                              *)
OvershootBounded ==
  policy = "noeviction" => late <= Cardinality(Clients)

(* Memory is under the limit, or nothing is left that the policy lets the  *)
(* task take.                                                              *)
MadeRoom ==
  \/ policy = "noeviction"
  \/ ~OverLimit(mem)
  \/ \A s \in Shards, k \in EvictableKinds : keys[s][k] = 0

(* As long as there is something the policy lets the task take, memory     *)
(* comes back under the limit and the task knows it (check_oom: "Under a   *)
(* working eviction policy the background sweep is expected to make room", *)
(* evict_cycle: "Bring the keyspace back under maxmemory").                *)
MemoryComesBack == []<>MadeRoom

(* The same of the allkeys policies, under which every shard that is not   *)
(* empty has something to take.                                            *)
AllkeysComesBack == []<>(policy = "allkeys" => MadeRoom)

(* What check_oom answers if nothing is stored or written under way: over  *)
(* the limit with no way back.                                             *)
Oom ==
  /\ OverLimit(mem)
  /\ \/ policy = "noeviction"
     \/ policy = "volatile" /\ \A s \in Shards : keys[s]["volatile"] = 0

(* A server that refuses writes recovers: if no command is under way and   *)
(* what the shards hold stays within the limit, the gate opens again       *)
(* (dispatch: otherwise "an over-limit instance with noeviction becomes    *)
(* unrecoverable").                                                        *)
WithinLimit ==
  /\ \A c \in Clients : check[c] = Out
  /\ ~OverLimit([s \in Shards |-> Cost(s)])

GateReopens == []<>~WithinLimit \/ []<>~Oom
=============================================================================
