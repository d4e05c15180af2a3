--------------------------- MODULE CommandProofs ----------------------------
(***************************************************************************)
(* Theorems about what a client's commands meet, in two sections.          *)
(*                                                                         *)
(* Memory: the estimate, the policy and the gate of maxmemory, for any     *)
(* number of shards, clients and keys, any costs and any limit.            *)
(*                                                                         *)
(* Replies: what each request of a connection is answered, for any         *)
(* requests, passwords, names, databases and other clients.                *)
(***************************************************************************)
EXTENDS Evict, Session, DataLemmas, SequenceTheorems, FiniteSetTheorems

LEMMA NextCases ==
  ASSUME Next
  PROVE  \/ \E c \in Clients : LoadMem(c)
         \/ \E c \in Clients : LoadExpires(c)
         \/ \E c \in Clients, s \in Shards, k \in Kinds : Write(c, s, k)
         \/ \E s \in Shards, k \in Kinds : Delete(s, k)
         \/ Wake \/ Sample \/ Store \/ Pick \/ Leave \/ EvictLocked \/ Subtract \/ Restore
         \/ Count
BY Zenon DEF Next, Task

(* The types of the constants, one by one.                                 *)
LEMMA ConstantTypes ==
  /\ N \in Nat /\ 0 < N /\ 0 \in Shards /\ MaxKeys \in Nat /\ MaxRounds \in Nat
  /\ PlainCost \in Nat /\ VolatileCost \in Nat /\ Limit \in Nat
BY EvictConstants DEF EvictConstants, Shards

(* What a shard holds costs a natural number.                              *)
LEMMA CostType ==
  ASSUME TypeOK, NEW s \in Shards
  PROVE  /\ Cost(s) \in Nat
         /\ keys[s]["plain"] \in Nat /\ keys[s]["volatile"] \in Nat
<1>1. keys[s]["plain"] \in Nat /\ keys[s]["volatile"] \in Nat
  BY ConstantTypes DEF TypeOK, Kinds
<1>2. PlainCost \in Nat /\ VolatileCost \in Nat
  BY ConstantTypes
<1>3. \A x, y \in Nat : x * y \in Nat
  OBVIOUS
<1>4. QED
  BY <1>1, <1>2, <1>3 DEF Cost

(* A round is begun only if there is one left.                             *)
RoundsInv == pc \in {"evict", "subtract"} => rounds < MaxRounds

(* What a client in check_oom may be, and how stores are counted.          *)
CheckTypes ==
  /\ check \in [Clients -> [at : {"out", "mem", "expires", "past"}, next : Shards, sum : Nat]]
  /\ stores \in [Clients -> 0..2]

LEMMA CheckingType ==
  ASSUME NEW w \in {"out", "mem", "expires", "past"}, NEW i \in Shards, NEW n \in Nat
  PROVE  Checking(w, i, n) \in [at : {"out", "mem", "expires", "past"}, next : Shards, sum : Nat]
BY DEF Checking

LEMMA OutPastType ==
  /\ Out \in [at : {"out", "mem", "expires", "past"}, next : Shards, sum : Nat]
  /\ Past \in [at : {"out", "mem", "expires", "past"}, next : Shards, sum : Nat]
BY ConstantTypes DEF Out, Past, Checking

(* The parts of a record of check.                                         *)
LEMMA CheckParts ==
  ASSUME CheckTypes, NEW c \in Clients
  PROVE  /\ check[c].next \in Shards /\ check[c].sum \in Nat
         /\ check[c].at \in {"out", "mem", "expires", "past"}
BY DEF CheckTypes

LEMMA LoadTypes ==
  ASSUME TypeOK, NEW c \in Clients, LoadMem(c) \/ LoadExpires(c)
  PROVE  CheckTypes'
<1>1. CheckTypes
  BY DEF TypeOK, CheckTypes
<1>2. /\ check[c].next \in Shards /\ check[c].sum \in Nat
      /\ mem[check[c].next] \in Nat /\ keys[check[c].next]["volatile"] \in Nat
  BY <1>1, CheckParts, CostType DEF TypeOK
<1>3. check[c].next < N - 1 => check[c].next + 1 \in Shards
  BY <1>2, ConstantTypes DEF Shards
<1>4. /\ check[c].sum + mem[check[c].next] \in Nat
      /\ check[c].sum + keys[check[c].next]["volatile"] \in Nat
  BY <1>2
<1>5. PICK r \in [at : {"out", "mem", "expires", "past"}, next : Shards, sum : Nat] :
        check' = [check EXCEPT ![c] = r]
  <2>1. CASE LoadMem(c)
    BY <2>1, <1>2, <1>3, <1>4, CheckingType, OutPastType, ConstantTypes DEF LoadMem
  <2>2. CASE LoadExpires(c)
    BY <2>2, <1>2, <1>3, <1>4, CheckingType, OutPastType DEF LoadExpires
  <2>3. QED
    BY <2>1, <2>2
<1>6. stores' \in [Clients -> 0..2]
  BY <1>1 DEF LoadMem, LoadExpires, CheckTypes
<1>7. QED
  BY <1>1, <1>5, <1>6 DEF CheckTypes

LEMMA StoresType ==
  ASSUME TypeOK, NEW m, Publish(m)
  PROVE  stores' \in [Clients -> 0..2]
BY DEF TypeOK, Publish

LEMMA TypeStep ==
  ASSUME TypeOK, RoundsInv, [Next]_vars
  PROVE  TypeOK' /\ RoundsInv'
<1> USE ConstantTypes
<1>0. policy' = policy
  BY DEF Next, vars
<1>1. CASE UNCHANGED vars
  BY <1>1 DEF vars, TypeOK, RoundsInv
<1>2. ASSUME NEW c \in Clients, LoadMem(c) \/ LoadExpires(c) PROVE TypeOK' /\ RoundsInv'
  <2>1. CheckTypes'
    BY <1>2, LoadTypes
  <2>2. UNCHANGED <<keys, mem, pc, cur, amount, rounds, exhausted, writes, known, late>>
    BY <1>2 DEF LoadMem, LoadExpires
  <2>3. QED
    BY <1>0, <2>1, <2>2 DEF CheckTypes, TypeOK, RoundsInv
<1>3. ASSUME NEW c \in Clients, NEW s \in Shards, NEW k \in Kinds, Write(c, s, k)
      PROVE TypeOK' /\ RoundsInv'
  <2>1. keys' \in [Shards -> [Kinds -> 0..MaxKeys]]
    <3>1. keys[s] \in [Kinds -> 0..MaxKeys] /\ keys[s][k] + 1 \in 0..MaxKeys
      BY <1>3 DEF Write, TypeOK
    <3>2. QED
      BY <1>3, <3>1 DEF Write, TypeOK
  <2>2. late' \in Nat
    BY <1>3 DEF Write, TypeOK
  <2>3. CheckTypes'
    BY <1>3, OutPastType DEF Write, TypeOK, CheckTypes
  <2>4. QED
    BY <1>0, <1>3, <2>1, <2>2, <2>3 DEF Write, TypeOK, RoundsInv, CheckTypes
<1>4. ASSUME NEW s \in Shards, NEW k \in Kinds, Delete(s, k) PROVE TypeOK' /\ RoundsInv'
  <2>1. keys' \in [Shards -> [Kinds -> 0..MaxKeys]]
    <3>1. keys[s] \in [Kinds -> 0..MaxKeys] /\ keys[s][k] - 1 \in 0..MaxKeys
      BY <1>4 DEF Delete, TypeOK
    <3>2. QED
      BY <1>4, <3>1 DEF Delete, TypeOK
  <2>2. QED
    BY <1>0, <1>4, <2>1 DEF Delete, TypeOK, RoundsInv
<1>5. CASE Wake
  <2>1. exhausted' \in BOOLEAN
    BY <1>5, Zenon DEF Wake
  <2>2. QED
    BY <1>0, <1>5, <2>1 DEF Wake, TypeOK, RoundsInv
<1>6. CASE Sample
  <2>1. Cost(cur) \in Nat
    BY CostType DEF TypeOK
  <2>2. QED
    BY <1>0, <1>6, <2>1 DEF Sample, TypeOK, RoundsInv
<1>7. CASE Store
  <2>1. mem' \in [Shards -> Nat] /\ late' \in Nat /\ stores' \in [Clients -> 0..2]
    BY <1>7, StoresType DEF Store, Publish, TypeOK
  <2>2. exhausted' \in BOOLEAN
    BY <1>7 DEF Store, TypeOK, OverLimit
  <2>3. cur' \in Shards
    BY <1>7 DEF Store, TypeOK, Shards
  <2>4. QED
    BY <1>0, <1>7, <2>1, <2>2, <2>3 DEF Store, TypeOK, RoundsInv
<1>8. CASE Pick
  BY <1>0, <1>8 DEF Pick, FattestShard, TypeOK, RoundsInv
<1>9. CASE Leave
  <2>1. exhausted' \in BOOLEAN
    BY <1>9 DEF Leave
  <2>2. QED
    BY <1>0, <1>9, <2>1 DEF Leave, TypeOK, RoundsInv
<1>10. CASE EvictLocked
  <2>1. PICK p \in 0..keys[cur]["plain"], v \in 0..keys[cur]["volatile"] :
          /\ keys' = [keys EXCEPT ![cur]["plain"] = @ - p, ![cur]["volatile"] = @ - v]
          /\ amount' = PlainCost * p + VolatileCost * v
    BY <1>10 DEF EvictLocked
  <2>2. cur \in Shards /\ keys[cur]["plain"] \in 0..MaxKeys /\ keys[cur]["volatile"] \in 0..MaxKeys
    BY DEF TypeOK, Kinds
  <2>3. keys' \in [Shards -> [Kinds -> 0..MaxKeys]]
    BY <2>1, <2>2 DEF TypeOK, Kinds
  <2>4. p \in Nat /\ v \in Nat
    BY <2>1, <2>2
  <2>5. amount' \in Nat
    <3>1. \A x, y \in Nat : x * y \in Nat
      OBVIOUS
    <3>2. QED
      BY <2>1, <2>4, <3>1
  <2>6. QED
    BY <1>0, <1>10, <2>3, <2>5 DEF EvictLocked, TypeOK, RoundsInv
<1>11. CASE Subtract
  <2>1. mem' \in [Shards -> Nat] /\ late' \in Nat /\ stores' \in [Clients -> 0..2]
    BY <1>11, StoresType DEF Subtract, Publish, TypeOK
  <2>2. QED
    BY <1>0, <1>11, <2>1 DEF Subtract, TypeOK, RoundsInv
<1>12. CASE Restore
  <2>1. mem' \in [Shards -> Nat] /\ late' \in Nat /\ stores' \in [Clients -> 0..2]
    BY <1>12, StoresType DEF Restore, Publish, TypeOK
  <2>2. exhausted' \in BOOLEAN
    <3>1. CASE policy = "volatile"
      BY <1>12, <3>1 DEF Restore, TypeOK
    <3>2. CASE policy # "volatile"
      <4>1. exhausted' = (rounds > N)
        BY <1>12, <3>2 DEF Restore, GiveUp
      <4>2. CASE rounds > N
        BY <4>1, <4>2
      <4>3. CASE ~(rounds > N)
        BY <4>1, <4>3
      <4>4. QED
        BY <4>2, <4>3
    <3>3. QED
      BY <3>1, <3>2
  <2>3. cur' \in Shards /\ amount' \in Nat /\ pc' \in {"idle", "check", "count"}
    BY <1>12 DEF Restore, GiveUp, TypeOK
  <2>4. QED
    BY <1>0, <1>12, <2>1, <2>2, <2>3 DEF Restore, TypeOK, RoundsInv
<1>13. CASE Count
  <2>1. keys[cur]["volatile"] \in Nat
    BY CostType DEF TypeOK
  <2>2. amount' \in Nat
    BY <1>13, <2>1 DEF Count, TypeOK
  <2>3. exhausted' \in BOOLEAN
    BY <1>13 DEF Count, GiveUp, TypeOK
  <2>4. cur' \in Shards /\ pc' \in {"idle", "check", "count"}
    BY <1>13 DEF Count, GiveUp, TypeOK, Shards
  <2>5. QED
    BY <1>0, <1>13, <2>2, <2>3, <2>4 DEF Count, TypeOK, RoundsInv
<1>14. QED
  BY Zenon, NextCases, <1>1, <1>2, <1>3, <1>4, <1>5, <1>6, <1>7, <1>8, <1>9, <1>10, <1>11, <1>12, <1>13

(* The invariant the types need: a cycle makes no more rounds than it may. *)
LEMMA EvictTypes == Spec => [](TypeOK /\ RoundsInv)
<1>1. Init => TypeOK /\ RoundsInv
  <2> SUFFICES ASSUME Init PROVE TypeOK /\ RoundsInv
    OBVIOUS
  <2>1. exhausted \in BOOLEAN
    BY Zenon DEF Init
  <2>2. check \in [Clients -> [at : {"out", "mem", "expires", "past"}, next : Shards, sum : Nat]]
    BY OutPastType DEF Init
  <2>3. QED
    BY <2>1, <2>2, ConstantTypes DEF Init, TypeOK, RoundsInv
<1>2. TypeOK /\ RoundsInv /\ [Next]_vars => (TypeOK /\ RoundsInv)'
  BY TypeStep
<1>3. QED
  BY <1>1, <1>2, PTL DEF Spec

(* The type invariant of the estimate, the gate and the eviction task.     *)
THEOREM EvictTypeCorrect == Spec => []TypeOK
BY EvictTypes, PTL
-----------------------------------------------------------------------------
(* How far the estimate of a shard that clients have left alone is from    *)
(* what it holds: nowhere, but in the shard the task has in its hands by   *)
(* what it has sampled or freed and not yet published.                     *)
FigureInv ==
  \A s \in known :
    IF s = cur /\ pc \in {"store", "restore"} THEN amount = Cost(s)
    ELSE IF s = cur /\ pc = "subtract" THEN mem[s] = Cost(s) + amount
    ELSE mem[s] = Cost(s)

(* What is left costs what there was less what was freed.                  *)
LEMMA FreedCost ==
  ASSUME NEW a \in Nat, NEW b \in Nat, NEW x \in Int, NEW y \in Int, NEW p \in Int, NEW v \in Int
  PROVE  a * x + b * y = (a * (x - p) + b * (y - v)) + (a * p + b * v)
OBVIOUS

LEMMA FigureStep ==
  ASSUME TypeOK, FigureInv, [Next]_vars
  PROVE  FigureInv'
<1> USE ConstantTypes
<1>0. /\ cur \in Shards /\ known \subseteq Shards
      /\ \A s \in Shards : Cost(s) \in Nat /\ mem[s] \in Nat
  BY CostType DEF TypeOK
<1>1. CASE UNCHANGED vars
  BY <1>1 DEF vars, FigureInv, Cost
<1>2. ASSUME NEW c \in Clients, LoadMem(c) \/ LoadExpires(c) PROVE FigureInv'
  BY <1>2 DEF LoadMem, LoadExpires, FigureInv, Cost
<1>3. ASSUME NEW r \in Shards, NEW k \in Kinds, known' = known \ {r},
             \E n \in Nat : keys' = [keys EXCEPT ![r][k] = n],
             UNCHANGED <<mem, pc, cur, amount>>
      PROVE  FigureInv'
  <2>1. \A s \in known' : s \in known /\ keys'[s] = keys[s]
    BY <1>0, <1>3 DEF TypeOK
  <2>2. QED
    BY <1>3, <2>1 DEF FigureInv, Cost
<1>4. ASSUME NEW c \in Clients, NEW s \in Shards, NEW k \in Kinds, Write(c, s, k)
      PROVE FigureInv'
  <2>1. keys[s][k] + 1 \in Nat
    BY DEF TypeOK
  <2>2. QED
    BY <1>3, <1>4, <2>1 DEF Write
<1>5. ASSUME NEW s \in Shards, NEW k \in Kinds, Delete(s, k) PROVE FigureInv'
  <2>1. keys[s][k] - 1 \in Nat
    BY <1>5 DEF Delete, TypeOK
  <2>2. QED
    BY <1>3, <1>5, <2>1 DEF Delete
<1>6. CASE Wake
  BY <1>6 DEF Wake, FigureInv, Cost
<1>7. CASE Sample
  BY <1>7 DEF Sample, FigureInv, Cost
<1>8. CASE Store
  <2>1. /\ keys' = keys /\ known' = known /\ pc = "store" /\ pc' \in {"sample", "idle", "check"}
        /\ mem' = [mem EXCEPT ![cur] = amount]
    BY <1>8 DEF Store, Publish
  <2>2. \A s \in known : mem'[s] = Cost(s)
    BY <1>0, <2>1 DEF FigureInv, TypeOK
  <2>3. QED
    BY <2>1, <2>2 DEF FigureInv, Cost
<1>9. CASE Pick \/ Leave
  BY <1>9 DEF Pick, Leave, FigureInv, Cost
<1>10. CASE EvictLocked
  <2>1. PICK p \in 0..keys[cur]["plain"], v \in 0..keys[cur]["volatile"] :
          /\ keys' = [keys EXCEPT ![cur]["plain"] = @ - p, ![cur]["volatile"] = @ - v]
          /\ amount' = PlainCost * p + VolatileCost * v
    BY <1>10 DEF EvictLocked
  <2>2. keys[cur]["plain"] \in Nat /\ keys[cur]["volatile"] \in Nat
    BY <1>0, CostType
  <2>3. /\ keys'[cur]["plain"] = keys[cur]["plain"] - p
        /\ keys'[cur]["volatile"] = keys[cur]["volatile"] - v
        /\ \A s \in Shards : s # cur => keys'[s] = keys[s]
    BY <1>0, <2>1 DEF TypeOK, Kinds
  <2>4. Cost(cur) = Cost(cur)' + amount'
    <3>1. cur' = cur
      BY <1>10 DEF EvictLocked
    <3>2. Cost(cur)' = PlainCost * (keys[cur]["plain"] - p)
                         + VolatileCost * (keys[cur]["volatile"] - v)
      BY <2>3, <3>1 DEF Cost
    <3>3. Cost(cur) = PlainCost * keys[cur]["plain"] + VolatileCost * keys[cur]["volatile"]
      BY DEF Cost
    <3>4. p \in Int /\ v \in Int
      BY <2>1
    <3>5. PlainCost * keys[cur]["plain"] + VolatileCost * keys[cur]["volatile"]
            = (PlainCost * (keys[cur]["plain"] - p) + VolatileCost * (keys[cur]["volatile"] - v))
                + (PlainCost * p + VolatileCost * v)
      BY <2>2, <3>4, FreedCost
    <3>6. QED
      BY <2>1, <3>2, <3>3, <3>5, Zenon
  <2>5. \A s \in Shards : s # cur => Cost(s)' = Cost(s)
    BY <2>3 DEF Cost
  <2>6. UNCHANGED <<mem, cur, known>> /\ pc = "evict" /\ pc' = "subtract"
    BY <1>10 DEF EvictLocked
  <2>7. ASSUME NEW s \in known
        PROVE  IF s = cur THEN mem[s] = Cost(s)' + amount' ELSE mem[s] = Cost(s)'
    <3>1. mem[s] = Cost(s) /\ s \in Shards
      BY <1>0, <2>6, <2>7 DEF FigureInv
    <3>2. QED
      BY <2>4, <2>5, <2>6, <3>1
  <2>8. QED
    BY <2>6, <2>7 DEF FigureInv
<1>11. CASE Subtract
  <2>1. /\ keys' = keys /\ known' = known /\ cur' = cur /\ pc = "subtract"
        /\ pc' \in {"resample", "check"}
        /\ mem' = [mem EXCEPT ![cur] = IF @ > amount THEN @ - amount ELSE 0]
    BY <1>11 DEF Subtract, Publish
  <2>2. ASSUME NEW s \in known PROVE mem'[s] = Cost(s)
    <3>1. CASE s = cur
      <4>1. mem[s] = Cost(s) + amount /\ amount \in Nat /\ Cost(s) \in Nat
        BY <1>0, <2>1, <2>2, <3>1 DEF FigureInv, TypeOK
      <4>2. QED
        BY <1>0, <2>1, <3>1, <4>1 DEF TypeOK
    <3>2. CASE s # cur
      BY <1>0, <2>1, <2>2, <3>2 DEF FigureInv, TypeOK
    <3>3. QED
      BY <3>1, <3>2
  <2>3. QED
    BY <2>1, <2>2 DEF FigureInv, Cost
<1>12. CASE Restore
  <2>1. /\ keys' = keys /\ known' = known /\ pc = "restore" /\ pc' \in {"idle", "check", "count"}
        /\ mem' = [mem EXCEPT ![cur] = amount]
    BY <1>12 DEF Restore, Publish, GiveUp
  <2>2. \A s \in known : mem'[s] = Cost(s)
    BY <1>0, <2>1 DEF FigureInv, TypeOK
  <2>3. QED
    BY <2>1, <2>2 DEF FigureInv, Cost
<1>13. CASE Count
  <2>1. /\ UNCHANGED <<keys, mem, known>> /\ pc = "count"
        /\ pc' \in {"idle", "check", "count"}
    BY <1>13 DEF Count, GiveUp
  <2>2. QED
    BY <2>1 DEF FigureInv, Cost
<1>14. QED
  BY Zenon, NextCases, <1>1, <1>2, <1>4, <1>5, <1>6, <1>7, <1>8, <1>9, <1>10, <1>11, <1>12, <1>13

(* Between rounds the estimate of a shard that clients have left alone is  *)
(* what the shard holds: no freed byte is lost or counted twice, and the   *)
(* saturating subtraction of evict_batch never saturates on such a shard.  *)
THEOREM EvictEstimateExact == Spec => []EstimateExact
<1>1. Init => FigureInv
  BY DEF Init, FigureInv
<1>2. TypeOK /\ FigureInv /\ [Next]_vars => FigureInv'
  BY FigureStep
<1>3. FigureInv => EstimateExact
  BY DEF FigureInv, EstimateExact
<1>4. QED
  BY <1>1, <1>2, <1>3, EvictTypeCorrect, PTL DEF Spec

-----------------------------------------------------------------------------
(* The sum of the estimates, shard by shard.                               *)
Sums(m, f) ==
  /\ f \in [0..N -> Nat]
  /\ f[0] = 0
  /\ \A i \in Shards : f[i + 1] = f[i] + m[i]

LEMMA SumsExist ==
  ASSUME NEW m \in [Shards -> Nat]
  PROVE  Sums(m, UsedMemoryTo(m))
<1> DEFINE step == [p \in Nat \X Nat |-> p[2] + (IF p[1] \in Shards THEN m[p[1]] ELSE 0)]
<1>1. step \in [Nat \X Nat -> Nat]
  OBVIOUS
<1>2. PICK z \in Nat : z = 0
  OBVIOUS
<1>3. Unrolls(Nat, z, step)
  <2> HIDE DEF step
  <2>1. QED
    BY <1>1, <1>2, Recursion
<1>4. PICK g \in [Nat -> Nat] : g[0] = 0 /\ \A n \in Nat : g[n + 1] = step[<<n, g[n]>>]
  BY <1>2, <1>3 DEF Unrolls
<1> DEFINE R(f) == f = [i \in 0..N |-> IF i = 0 THEN 0 ELSE f[i-1] + m[i-1]]
<1> DEFINE h == [i \in 0..N |-> g[i]]
<1>5. ASSUME NEW n \in Shards PROVE g[n + 1] = g[n] + m[n]
  <2>1. n \in Nat /\ g[n] \in Nat
    BY ConstantTypes DEF Shards
  <2>2. step[<<n, g[n]>>] = g[n] + m[n]
    <3>1. PICK p \in Nat \X Nat : p = <<n, g[n]>>
      <4> HIDE DEF step
      <4>1. <<n, g[n]>> \in Nat \X Nat
        BY <2>1
      <4>2. QED
        BY <4>1
    <3>2. p[1] = n /\ p[2] = g[n]
      BY <3>1
    <3>3. step[p] = p[2] + (IF p[1] \in Shards THEN m[p[1]] ELSE 0)
      OBVIOUS
    <3>4. step[p] = g[n] + m[n]
      <4> HIDE DEF step
      <4>1. QED
        BY <3>2, <3>3
    <3>5. QED
      <4> HIDE DEF step
      <4>1. QED
        BY <3>1, <3>4
  <2>3. QED
    <3> HIDE DEF step
    <3>1. QED
      BY <1>4, <2>1, <2>2
<1>6. R(h)
  <2>1. ASSUME NEW i \in 0..N PROVE h[i] = IF i = 0 THEN 0 ELSE h[i-1] + m[i-1]
    <3>1. CASE i = 0
      BY <1>4, <3>1
    <3>2. CASE i # 0
      <4>1. i - 1 \in Shards /\ (i - 1) + 1 = i /\ i - 1 \in 0..N
        BY <3>2, ConstantTypes DEF Shards
      <4>2. g[i] = g[i - 1] + m[i - 1]
        BY <1>5, <4>1
      <4>3. QED
        BY <3>2, <4>1, <4>2
    <3>3. QED
      BY <3>1, <3>2
  <2>2. QED
    BY <2>1
<1>7. R(UsedMemoryTo(m))
  <2>1. UsedMemoryTo(m) = CHOOSE f : R(f)
    BY DEF UsedMemoryTo
  <2>2. QED
    <3> HIDE DEF R, h
    <3>1. QED
      BY <1>6, <2>1
<1>8. ASSUME NEW f, R(f) PROVE Sums(m, f)
  <2>1. DOMAIN f = 0..N /\ f[0] = 0 /\ \A i \in 0..N : i # 0 => f[i] = f[i-1] + m[i-1]
    <3>1. DOMAIN f = 0..N
      BY <1>8
    <3>2. ASSUME NEW i \in 0..N PROVE f[i] = IF i = 0 THEN 0 ELSE f[i-1] + m[i-1]
      BY <1>8
    <3>3. 0 \in 0..N
      BY ConstantTypes
    <3>4. QED
      BY <3>1, <3>2, <3>3
  <2>2. ASSUME NEW i \in Shards PROVE f[i + 1] = f[i] + m[i]
    <3>1. i + 1 \in 0..N /\ i + 1 # 0 /\ (i + 1) - 1 = i
      BY ConstantTypes DEF Shards
    <3>2. QED
      BY <2>1, <3>1
  <2> DEFINE T == {n \in Nat : n <= N => f[n] \in Nat}
  <2>3. 0 \in T
    BY <2>1
  <2>4. ASSUME NEW n \in Nat, n \in T PROVE n + 1 \in T
    <3>1. SUFFICES ASSUME n + 1 <= N PROVE f[n + 1] \in Nat
      OBVIOUS
    <3>2. n \in Shards /\ f[n] \in Nat
      BY <2>4, <3>1, ConstantTypes DEF Shards
    <3>3. QED
      BY <2>2, <3>2
  <2>5. \A n \in Nat : n \in T
    <3> HIDE DEF T
    <3>1. QED
      BY <2>3, <2>4, Induction
  <2>6. \A i \in 0..N : f[i] \in Nat
    BY <2>5, ConstantTypes
  <2>7. f = [i \in 0..N |-> f[i]]
    BY <1>8, <2>1
  <2>8. f \in [0..N -> Nat]
    BY <2>6, <2>7
  <2>9. QED
    BY <2>1, <2>2, <2>8 DEF Sums
<1>9. QED
  <2> HIDE DEF R
  <2>1. QED
    BY <1>7, <1>8

(* A store changes the sums beyond its shard by what it changes there.     *)
Moves(m, w, r, v) == w[r] = v /\ \A s \in Shards : s # r => w[s] = m[s]
SumsMove(f, g, r, d) == \A i \in 0..N : g[i] = f[i] + (IF r < i THEN d ELSE 0)

LEMMA SumsStore ==
  ASSUME NEW m \in [Shards -> Nat], NEW r \in Shards, NEW v \in Nat,
         NEW w, Moves(m, w, r, v), NEW f, NEW g, Sums(m, f), Sums(w, g)
  PROVE  SumsMove(f, g, r, v - m[r])
<1> DEFINE T == {n \in Nat : n <= N => g[n] = f[n] + (IF r < n THEN v - m[r] ELSE 0)}
<1>0. r \in Nat /\ m[r] \in Nat /\ N \in Nat
  BY ConstantTypes DEF Shards
<1>1. 0 \in T
  BY <1>0 DEF Sums
<1>2. ASSUME NEW n \in Nat, n \in T PROVE n + 1 \in T
  <2>1. SUFFICES ASSUME n + 1 <= N
                 PROVE  g[n + 1] = f[n + 1] + (IF r < n + 1 THEN v - m[r] ELSE 0)
    OBVIOUS
  <2>2. n \in Shards /\ n \in 0..N
    BY <1>0, <2>1 DEF Shards
  <2>3. g[n] = f[n] + (IF r < n THEN v - m[r] ELSE 0)
    BY <1>2, <2>2
  <2>4. /\ f[n + 1] = f[n] + m[n] /\ f[n] \in Nat /\ g[n] \in Nat
        /\ g[n + 1] = g[n] + w[n]
    BY <2>2 DEF Sums
  <2>5. w[n] = IF n = r THEN v ELSE m[n]
    BY <2>2 DEF Moves
  <2>6. m[n] \in Nat
    BY <2>2
  <2>7. QED
    BY <1>0, <2>3, <2>4, <2>5, <2>6
<1>3. \A n \in Nat : n \in T
  <2> HIDE DEF T
  <2>1. QED
    BY <1>1, <1>2, Induction
<1>4. QED
  BY <1>0, <1>3 DEF SumsMove

(* What a check in progress will have read if nothing more is stored.      *)
WouldRead(c) ==
  check[c].sum + UsedMemoryTo(mem)[N] - UsedMemoryTo(mem)[check[c].next]

(* A check that has seen no store will read the sum of the estimates; the  *)
(* others outside are at the beginning.                                    *)
CheckInv ==
  \A c \in Clients :
    /\ check[c].at \in {"out", "expires"} => stores[c] = 0
    /\ check[c].at = "expires" => policy # "noeviction"
    /\ check[c].at = "out" => check[c].next = 0 /\ check[c].sum = 0
    /\ policy = "noeviction" /\ check[c].at = "mem" /\ stores[c] = 0
         => WouldRead(c) = UsedMemory(mem)

(* The clients that will pass, or have passed, after at most one store.    *)
Passing ==
  {c \in Clients : /\ stores[c] < 2
                   /\ \/ check[c].at = "past"
                      \/ check[c].at = "mem" /\ WouldRead(c) <= Limit}

(* The steps of a check, for any client.                                   *)
LEMMA ReadNumbers ==
  ASSUME TypeOK, NEW c \in Clients
  PROVE  /\ Sums(mem, UsedMemoryTo(mem)) /\ N \in 0..N /\ check[c].next \in 0..N
         /\ check[c].next \in Shards /\ check[c].sum \in Nat /\ mem[check[c].next] \in Nat
         /\ UsedMemoryTo(mem)[N] \in Nat /\ UsedMemoryTo(mem)[check[c].next] \in Nat
         /\ stores[c] \in 0..2 /\ Limit \in Nat /\ N \in Nat
<1>1. Sums(mem, UsedMemoryTo(mem))
  BY SumsExist DEF TypeOK
<1>2. check[c].next \in Shards /\ check[c].sum \in Nat
  BY CheckParts DEF TypeOK, CheckTypes
<1>3. check[c].next \in 0..N /\ N \in 0..N /\ N \in Nat
  BY <1>2, ConstantTypes DEF Shards
<1>4. QED
  BY <1>1, <1>2, <1>3, ConstantTypes DEF Sums, TypeOK

(* A load changes nothing of what will have been read, and the last one    *)
(* has read it.                                                            *)
LEMMA LoadReads ==
  ASSUME TypeOK, CheckInv, NEW c \in Clients, LoadMem(c)
  PROVE  /\ check'[c].at = "mem" => WouldRead(c)' = WouldRead(c)
         /\ check[c].at = "out" => WouldRead(c) = UsedMemory(mem)
         /\ Limit # 0 /\ check'[c].at = "past" /\ policy = "noeviction" => WouldRead(c) <= Limit
         /\ stores'[c] = IF check'[c].at \in {"mem", "past"} THEN stores[c] ELSE 0
         /\ \A d \in Clients : d # c => check'[d] = check[d] /\ stores'[d] = stores[d]
         /\ check'[c].at = "out" => check'[c].next = 0 /\ check'[c].sum = 0
<1> DEFINE i == check[c].next
<1> DEFINE sum == check[c].sum + mem[i]
<1>1. /\ Sums(mem, UsedMemoryTo(mem)) /\ N \in 0..N /\ i \in 0..N /\ N \in Nat
      /\ i \in Shards /\ check[c].sum \in Nat /\ mem[i] \in Nat
      /\ UsedMemoryTo(mem)[N] \in Nat /\ UsedMemoryTo(mem)[i] \in Nat
  BY ReadNumbers
<1>2. UsedMemoryTo(mem)[i + 1] = UsedMemoryTo(mem)[i] + mem[i]
  BY <1>1 DEF Sums
<1>3. mem' = mem /\ check \in [Clients -> [at : {"out", "mem", "expires", "past"}, next : Shards, sum : Nat]]
      /\ stores \in [Clients -> 0..2]
  BY DEF LoadMem, TypeOK
<1>4. check'[c] = IF Limit # 0 /\ i < N-1 THEN Checking("mem", i + 1, sum)
                  ELSE IF Limit = 0 \/ sum <= Limit \/ policy = "allkeys" THEN Past
                  ELSE IF policy = "noeviction" THEN Out
                  ELSE Checking("expires", 0, 0)
  BY <1>3 DEF LoadMem
<1> DEFINE G ==
      /\ check'[c].at = "mem" => WouldRead(c)' = WouldRead(c)
      /\ Limit # 0 /\ check'[c].at = "past" /\ policy = "noeviction" => WouldRead(c) <= Limit
      /\ check'[c].at = "out" => check'[c].next = 0 /\ check'[c].sum = 0
<1>5. ASSUME Limit # 0 /\ i < N-1 PROVE G
  <2>1. check'[c].at = "mem" /\ check'[c].next = i + 1 /\ check'[c].sum = sum
    BY <1>4, <1>5 DEF Checking
  <2>2. WouldRead(c)' = sum + UsedMemoryTo(mem)[N] - UsedMemoryTo(mem)[i + 1]
    BY <1>3, <2>1 DEF WouldRead
  <2>3. WouldRead(c)' = WouldRead(c)
    BY <1>1, <1>2, <2>2 DEF WouldRead
  <2>4. QED
    BY <2>1, <2>3
<1>6. ASSUME ~(Limit # 0 /\ i < N-1) PROVE G
  <2>1. check'[c].at # "mem"
    BY <1>4, <1>6 DEF Checking, Out, Past
  <2>2. check'[c].at = "out" => check'[c].next = 0 /\ check'[c].sum = 0
    BY <1>4, <1>6 DEF Checking, Out, Past
  <2>3. check'[c].at = "past" /\ policy = "noeviction" => Limit = 0 \/ sum <= Limit
    BY <1>4, <1>6 DEF Checking, Out, Past
  <2>4. Limit # 0 => i + 1 = N
    BY <1>1, <1>6 DEF Shards
  <2>5. Limit # 0 => WouldRead(c) = sum
    BY <1>1, <1>2, <2>4 DEF WouldRead
  <2>6. Limit # 0 /\ check'[c].at = "past" /\ policy = "noeviction" => WouldRead(c) <= Limit
    BY <2>3, <2>5
  <2>7. QED
    BY <2>1, <2>2, <2>6
<1>7. check[c].at = "out" => WouldRead(c) = UsedMemory(mem)
  <2> SUFFICES ASSUME check[c].at = "out" PROVE WouldRead(c) = UsedMemory(mem)
    OBVIOUS
  <2>1. check[c].next = 0 /\ check[c].sum = 0
    BY DEF CheckInv
  <2>2. UsedMemoryTo(mem)[0] = 0
    BY <1>1 DEF Sums
  <2>3. QED
    BY <1>1, <2>1, <2>2 DEF WouldRead, UsedMemory
<1>8. stores'[c] = IF check'[c].at \in {"mem", "past"} THEN stores[c] ELSE 0
  BY <1>3 DEF LoadMem
<1>9. \A d \in Clients : d # c => check'[d] = check[d] /\ stores'[d] = stores[d]
  BY <1>3 DEF LoadMem
<1>10. G
  <2>1. CASE Limit # 0 /\ i < N-1
    BY <1>5, <2>1
  <2>2. CASE ~(Limit # 0 /\ i < N-1)
    BY <1>6, <2>2
  <2>3. QED
    BY <2>1, <2>2
<1>11. QED
  BY <1>7, <1>8, <1>9, <1>10

(* A client that a step leaves alone reads what it would have read.        *)
LEMMA SameReads ==
  ASSUME NEW d \in Clients, mem' = mem, check'[d] = check[d], stores'[d] = stores[d]
  PROVE  WouldRead(d)' = WouldRead(d) /\ (d \in Passing' <=> d \in Passing)
<1>1. WouldRead(d)' = WouldRead(d)
  BY DEF WouldRead
<1>2. QED
  BY <1>1 DEF Passing

(* A store counts for a check in progress that has its shard ahead.        *)
LEMMA StoreReads ==
  ASSUME TypeOK, NEW c \in Clients, NEW r \in Shards, NEW v \in Nat,
         mem' = [mem EXCEPT ![r] = v], check' = check
  PROVE  /\ WouldRead(c)' = WouldRead(c) + (IF r < check[c].next THEN 0 ELSE v - mem[r])
         /\ UsedMemory(mem') = UsedMemory(mem) + (v - mem[r])
         /\ WouldRead(c) \in Int /\ UsedMemory(mem) \in Nat /\ mem[r] \in Nat
<1> DEFINE f == UsedMemoryTo(mem)
<1> DEFINE g == UsedMemoryTo(mem')
<1> DEFINE i == check[c].next
<1>1. /\ Sums(mem, f) /\ N \in 0..N /\ i \in 0..N /\ N \in Nat /\ i \in Shards
      /\ check[c].sum \in Nat /\ f[N] \in Nat /\ f[i] \in Nat
  BY ReadNumbers
<1>2. mem \in [Shards -> Nat] /\ mem[r] \in Nat
  BY DEF TypeOK
<1>3. mem' \in [Shards -> Nat]
  BY <1>2
<1>4. Sums(mem', g)
  BY <1>3, SumsExist
<1>5. \A j \in 0..N : g[j] = f[j] + (IF r < j THEN v - mem[r] ELSE 0)
  <2>1. Moves(mem, mem', r, v)
    BY <1>2 DEF Moves
  <2>2. SumsMove(f, g, r, v - mem[r])
    <3> HIDE DEF f, g
    <3>1. QED
      BY Zenon, <1>1, <1>2, <1>4, <2>1, SumsStore
  <2>3. QED
    BY <2>2 DEF SumsMove
<1>6. r < N /\ r \in Nat
  BY <1>1 DEF Shards
<1>7. g[N] = f[N] + (v - mem[r])
  BY <1>1, <1>5, <1>6
<1>8. g[i] = f[i] + (IF r < i THEN v - mem[r] ELSE 0)
  BY <1>1, <1>5
<1>9. WouldRead(c) = check[c].sum + f[N] - f[i] /\ WouldRead(c)' = check[c].sum + g[N] - g[i]
  BY DEF WouldRead
<1>10. UsedMemory(mem) = f[N] /\ UsedMemory(mem') = g[N]
  BY DEF UsedMemory
<1>11. QED
  <2> HIDE DEF f, g, i
  <2>1. CASE r < i
    <3>1. WouldRead(c)' = WouldRead(c) + 0
      BY <1>1, <1>2, <1>7, <1>8, <1>9, <2>1
    <3>2. QED
      BY <1>1, <1>2, <1>7, <1>9, <1>10, <2>1, <3>1 DEF i
  <2>2. CASE ~(r < i)
    <3>1. WouldRead(c)' = WouldRead(c) + (v - mem[r])
      BY <1>1, <1>2, <1>7, <1>8, <1>9, <2>2
    <3>2. QED
      BY <1>1, <1>2, <1>7, <1>9, <1>10, <2>2, <3>1 DEF i
  <2>3. QED
    BY <2>1, <2>2

(* What every step that publishes does.                                    *)
Stores(r, v) ==
  /\ r \in Shards /\ v \in Nat
  /\ Publish([mem EXCEPT ![r] = v]) /\ check' = check

LEMMA PublishingSteps ==
  ASSUME TypeOK, Store \/ Subtract \/ Restore
  PROVE  \E r, v : Stores(r, v)
<1>1. cur \in Shards /\ amount \in Nat /\ mem[cur] \in Nat /\ mem \in [Shards -> Nat]
  BY DEF TypeOK
<1>2. CASE Store
  BY <1>1, <1>2 DEF Store, Stores
<1>3. CASE Restore
  BY <1>1, <1>3 DEF Restore, Stores
<1>4. CASE Subtract
  <2>1. (IF mem[cur] > amount THEN mem[cur] - amount ELSE 0) \in Nat
    BY <1>1
  <2>2. Stores(cur, IF mem[cur] > amount THEN mem[cur] - amount ELSE 0)
    BY <1>1, <1>4, <2>1 DEF Subtract, Stores
  <2>3. QED
    BY <2>2
<1>5. QED
  BY <1>2, <1>3, <1>4

LEMMA CheckStep ==
  ASSUME TypeOK, CheckInv, [Next]_vars
  PROVE  CheckInv'
<1>0. policy' = policy
  BY DEF Next, vars
<1>1. CASE UNCHANGED <<mem, check, stores>>
  <2>1. ASSUME NEW d \in Clients PROVE WouldRead(d)' = WouldRead(d)
    BY <1>1, SameReads
  <2>2. UsedMemory(mem') = UsedMemory(mem)
    BY <1>1
  <2>3. QED
    BY <1>0, <1>1, <2>1, <2>2 DEF CheckInv
<1>2. ASSUME NEW c \in Clients, LoadMem(c) PROVE CheckInv'
  <2>1. mem' = mem /\ check[c].at \in {"mem", "out"}
    BY <1>2 DEF LoadMem
  <2>2. UsedMemory(mem') = UsedMemory(mem)
    BY <2>1
  <2> DEFINE Fine(d) ==
        /\ check'[d].at \in {"out", "expires"} => stores'[d] = 0
        /\ check'[d].at = "expires" => policy # "noeviction"
        /\ check'[d].at = "out" => check'[d].next = 0 /\ check'[d].sum = 0
        /\ policy = "noeviction" /\ check'[d].at = "mem" /\ stores'[d] = 0
             => WouldRead(d)' = UsedMemory(mem)
  <2>3. ASSUME NEW d \in Clients, d # c PROVE Fine(d)
    <3>1. check'[d] = check[d] /\ stores'[d] = stores[d]
      BY <1>2, <2>3, LoadReads
    <3>2. WouldRead(d)' = WouldRead(d)
      BY <2>1, <3>1, SameReads
    <3>3. QED
      BY <3>1, <3>2 DEF CheckInv
  <2>4. Fine(c)
    <3>1. /\ check'[c].at = "mem" => WouldRead(c)' = WouldRead(c)
          /\ check[c].at = "out" => WouldRead(c) = UsedMemory(mem)
          /\ stores'[c] = IF check'[c].at \in {"mem", "past"} THEN stores[c] ELSE 0
          /\ check'[c].at = "out" => check'[c].next = 0 /\ check'[c].sum = 0
      BY <1>2, LoadReads
    <3>2. check'[c].at = "expires" => policy # "noeviction"
      BY <1>2 DEF LoadMem, TypeOK, Checking, Out, Past
    <3>3. ASSUME policy = "noeviction", check'[c].at = "mem", stores'[c] = 0
          PROVE  WouldRead(c)' = UsedMemory(mem)
      <4>1. stores[c] = 0
        BY <3>1, <3>3
      <4>2. WouldRead(c) = UsedMemory(mem)
        BY <2>1, <3>1, <3>3, <4>1 DEF CheckInv
      <4>3. QED
        BY <3>1, <3>3, <4>2
    <3>4. check'[c].at \in {"out", "expires"} => stores'[c] = 0
      BY <3>1
    <3>5. QED
      BY <3>1, <3>2, <3>3, <3>4
  <2>5. \A d \in Clients : Fine(d)
    BY <2>3, <2>4
  <2>6. QED
    BY <1>0, <2>2, <2>5 DEF CheckInv
<1>3. ASSUME NEW c \in Clients, LoadExpires(c) PROVE CheckInv'
  <2>1. mem' = mem /\ stores' = stores /\ check[c].at = "expires"
    BY <1>3 DEF LoadExpires
  <2>2. stores[c] = 0 /\ policy # "noeviction"
    BY <2>1 DEF CheckInv
  <2>3. /\ check'[c].at \in {"expires", "out", "past"}
        /\ check'[c].at = "out" => check'[c].next = 0 /\ check'[c].sum = 0
    BY <1>3 DEF LoadExpires, TypeOK, Checking, Out, Past
  <2>4. \A d \in Clients : d # c => check'[d] = check[d]
    BY <1>3 DEF LoadExpires, TypeOK
  <2>5. QED
    BY <1>0, <2>1, <2>2, <2>3, <2>4 DEF CheckInv
<1>4. ASSUME NEW c \in Clients, NEW s \in Shards, NEW k \in Kinds, Write(c, s, k)
      PROVE  CheckInv'
  <2>1. mem' = mem
    BY <1>4 DEF Write
  <2>2. check'[c].at = "out" /\ check'[c].next = 0 /\ check'[c].sum = 0 /\ stores'[c] = 0
    BY <1>4 DEF Write, TypeOK, Out, Checking
  <2>3. ASSUME NEW d \in Clients, d # c
        PROVE  check'[d] = check[d] /\ stores'[d] = stores[d] /\ WouldRead(d)' = WouldRead(d)
    <3>1. check'[d] = check[d] /\ stores'[d] = stores[d]
      BY <1>4, <2>3 DEF Write, TypeOK
    <3>2. QED
      BY <2>1, <3>1, SameReads
  <2>4. UsedMemory(mem') = UsedMemory(mem)
    BY <2>1
  <2>5. QED
    BY <1>0, <2>2, <2>3, <2>4 DEF CheckInv
<1>5. CASE Store \/ Subtract \/ Restore
  <2>1. PICK r, v : Stores(r, v)
    BY <1>5, PublishingSteps
  <2>2. check' = check
    BY <2>1 DEF Stores
  <2>3. ASSUME NEW d \in Clients
        PROVE  stores'[d] = IF policy = "noeviction" /\ check[d].at = "mem" /\ stores[d] < 2
                            THEN stores[d] + 1 ELSE stores[d]
    BY <2>1 DEF Stores, Publish
  <2>4. ASSUME NEW d \in Clients, policy = "noeviction", check[d].at = "mem"
        PROVE  stores'[d] # 0
    <3>1. stores[d] \in 0..2
      BY DEF TypeOK
    <3>2. QED
      BY <2>3, <2>4, <3>1
  <2>5. QED
    BY <1>0, <2>2, <2>3, <2>4 DEF CheckInv
<1>6. CASE Wake \/ Sample \/ Pick \/ Leave \/ EvictLocked \/ Count
  BY <1>1, <1>6 DEF Wake, Sample, Pick, Leave, EvictLocked, Count
<1>7. ASSUME NEW s \in Shards, NEW k \in Kinds, Delete(s, k) PROVE CheckInv'
  BY <1>1, <1>7 DEF Delete
<1>8. CASE UNCHANGED vars
  BY <1>1, <1>8 DEF vars
<1>9. QED
  BY NextCases, <1>2, <1>3, <1>4, <1>5, <1>6, <1>7, <1>8

(* While the sum stays over the limit no client comes to pass it.          *)
LEMMA NobodyPasses ==
  ASSUME TypeOK, CheckInv, policy = "noeviction", OverLimit(mem),
         \/ \E c \in Clients : LoadMem(c)
         \/ (\E r, v : Stores(r, v)) /\ OverLimit(mem')
  PROVE  Passing' \subseteq Passing
<1>0. UsedMemory(mem) > Limit /\ Limit # 0 /\ Limit \in Nat
  BY ConstantTypes DEF OverLimit
<1>1. ASSUME NEW c \in Clients, LoadMem(c), NEW d \in Passing' PROVE d \in Passing
  <2>1. d \in Clients /\ mem' = mem /\ check[c].at \in {"mem", "out"}
    BY <1>1 DEF LoadMem, Passing
  <2>2. CASE d # c
    <3>1. check'[d] = check[d] /\ stores'[d] = stores[d]
      BY <1>1, <2>1, <2>2, LoadReads
    <3>2. QED
      BY <1>1, <2>1, <3>1, SameReads
  <2>3. CASE d = c
    <3>1. /\ check'[c].at = "mem" => WouldRead(c)' = WouldRead(c)
          /\ check[c].at = "out" => WouldRead(c) = UsedMemory(mem)
          /\ check'[c].at = "past" => WouldRead(c) <= Limit
          /\ check'[c].at \in {"mem", "past"} => stores'[c] = stores[c]
      BY <1>0, <1>1, LoadReads
    <3>2. /\ stores'[c] < 2
          /\ check'[c].at = "past" \/ (check'[c].at = "mem" /\ WouldRead(c)' <= Limit)
      BY <1>1, <2>3 DEF Passing
    <3>3. WouldRead(c) <= Limit /\ stores[c] < 2
      BY <3>1, <3>2
    <3>4. UsedMemory(mem) \in Nat
      BY SumsExist, ReadNumbers DEF UsedMemory
    <3>5. check[c].at # "out"
      BY <1>0, <3>1, <3>3, <3>4
    <3>6. QED
      BY <2>1, <2>3, <3>3, <3>5 DEF Passing
  <2>4. QED
    BY <2>2, <2>3
<1>2. ASSUME NEW r, NEW v, Stores(r, v), OverLimit(mem'), NEW d \in Passing' PROVE d \in Passing
  <2>1. /\ r \in Shards /\ v \in Nat /\ mem' = [mem EXCEPT ![r] = v] /\ check' = check
        /\ d \in Clients
    BY <1>2 DEF Stores, Publish, Passing
  <2>2. stores'[d] = IF check[d].at = "mem" /\ stores[d] < 2 THEN stores[d] + 1 ELSE stores[d]
    BY <1>2, <2>1 DEF Stores, Publish
  <2>3. stores'[d] < 2 /\ (check[d].at = "past" \/ (check[d].at = "mem" /\ WouldRead(d)' <= Limit))
    BY <1>2, <2>1 DEF Passing
  <2>4. CASE check[d].at = "past"
    BY <2>1, <2>2, <2>3, <2>4 DEF Passing
  <2>5. CASE check[d].at = "mem"
    <3>1. stores[d] \in 0..2
      BY <2>1 DEF TypeOK
    <3>2. stores[d] = 0
      BY <2>2, <2>3, <2>5, <3>1
    <3>3. WouldRead(d) = UsedMemory(mem)
      BY <2>1, <2>5, <3>2 DEF CheckInv
    <3>4. /\ WouldRead(d)' = WouldRead(d) + (IF r < check[d].next THEN 0 ELSE v - mem[r])
          /\ UsedMemory(mem') = UsedMemory(mem) + (v - mem[r])
          /\ UsedMemory(mem) \in Nat /\ mem[r] \in Nat
      BY <2>1, StoreReads
    <3>5. UsedMemory(mem') > Limit
      BY <1>2 DEF OverLimit
    <3>6. WouldRead(d)' = UsedMemory(mem) \/ WouldRead(d)' = UsedMemory(mem')
      BY <2>1, <3>3, <3>4
    <3>7. WouldRead(d)' > Limit
      BY <1>0, <3>5, <3>6
    <3>8. WouldRead(d)' <= Limit /\ WouldRead(d)' \in Int
      BY <2>1, <2>3, <2>5, <3>4, <3>6
    <3>9. QED
      BY <1>0, <3>7, <3>8
  <2>6. QED
    BY <2>3, <2>4, <2>5
<1>3. QED
  BY <1>1, <1>2

(* A write that lands over the limit uses up a client that will pass or    *)
(* has passed, and nobody comes to pass meanwhile.                         *)
LateInv ==
  policy = "noeviction" =>
    /\ late + Cardinality(Passing) <= Cardinality(Clients)
    /\ ~OverLimit(mem) => late = 0

(* These clients are some of the clients.                                  *)
LEMMA SomeClients ==
  ASSUME NEW P \in SUBSET Clients
  PROVE  /\ IsFiniteSet(P) /\ Cardinality(P) \in Nat
         /\ Cardinality(Clients) \in Nat /\ Cardinality(P) <= Cardinality(Clients)
         /\ \A Q \in SUBSET P : Cardinality(Q) \in Nat /\ Cardinality(Q) <= Cardinality(P)
<1>1. IsFiniteSet(Clients)
  BY EvictConstants DEF EvictConstants
<1>2. IsFiniteSet(P) /\ Cardinality(P) \in Nat /\ Cardinality(Clients) \in Nat
      /\ Cardinality(P) <= Cardinality(Clients)
  BY <1>1, FS_Subset, FS_CardinalityType
<1>3. ASSUME NEW Q \in SUBSET P PROVE Cardinality(Q) \in Nat /\ Cardinality(Q) <= Cardinality(P)
  BY <1>2, FS_Subset, FS_CardinalityType
<1>4. QED
  BY <1>2, <1>3

LEMMA LateStep ==
  ASSUME TypeOK, TypeOK', CheckInv, LateInv, [Next]_vars
  PROVE  LateInv'
<1>0. policy' = policy
  BY DEF Next, vars
<1> DEFINE G == /\ late' + Cardinality(Passing') <= Cardinality(Clients)
                /\ ~OverLimit(mem') => late' = 0
<1> SUFFICES ASSUME policy = "noeviction" PROVE G
  BY <1>0 DEF LateInv
<1>1. /\ late + Cardinality(Passing) <= Cardinality(Clients)
      /\ ~OverLimit(mem) => late = 0
  BY DEF LateInv
<1>2. Passing \in SUBSET Clients /\ Passing' \in SUBSET Clients
  BY DEF Passing
<1>3. late \in Nat /\ late' \in Nat
  BY DEF TypeOK
<1>4. Cardinality(Passing) \in Nat /\ Cardinality(Clients) \in Nat /\ IsFiniteSet(Passing)
  BY <1>2, SomeClients
<1>5. Cardinality(Passing') \in Nat /\ Cardinality(Passing') <= Cardinality(Clients)
  BY <1>2, SomeClients
<1>6. ASSUME late' = 0 PROVE G
  BY <1>5, <1>6
<1>7. ASSUME Passing' \subseteq Passing, late' = late, OverLimit(mem') PROVE G
  <2>1. Cardinality(Passing') <= Cardinality(Passing)
    BY <1>2, <1>7, SomeClients
  <2>2. QED
    BY <1>1, <1>3, <1>4, <1>5, <1>7, <2>1
<1>8. ASSUME UNCHANGED <<mem, check, stores, late>> PROVE G
  <2>1. Passing' = Passing
    BY <1>2, <1>8, SameReads
  <2>2. QED
    BY <1>1, <1>8, <2>1
<1>9. ASSUME NEW c \in Clients, LoadMem(c) PROVE G
  <2>1. mem' = mem /\ late' = late
    BY <1>9 DEF LoadMem
  <2>2. CASE OverLimit(mem)
    <3>1. Passing' \subseteq Passing
      BY <1>9, <2>2, NobodyPasses
    <3>2. QED
      BY <1>7, <2>1, <2>2, <3>1
  <2>3. CASE ~OverLimit(mem)
    BY <1>1, <1>6, <2>1, <2>3
  <2>4. QED
    BY <2>2, <2>3
<1>10. ASSUME NEW c \in Clients, LoadExpires(c) PROVE G
  BY <1>10 DEF LoadExpires, CheckInv
<1>11. ASSUME NEW c \in Clients, NEW s \in Shards, NEW k \in Kinds, Write(c, s, k) PROVE G
  <2>1. mem' = mem /\ check[c].at = "past"
    BY <1>11 DEF Write, Past, Checking
  <2>2. c \notin Passing'
    <3>1. check'[c].at = "out"
      BY <1>11 DEF Write, TypeOK, Out, Checking
    <3>2. QED
      BY <3>1 DEF Passing
  <2>3. ASSUME NEW d \in Clients, d # c PROVE d \in Passing' <=> d \in Passing
    <3>1. check'[d] = check[d] /\ stores'[d] = stores[d]
      BY <1>11, <2>3 DEF Write, TypeOK
    <3>2. QED
      BY <2>1, <3>1, SameReads
  <2>4. Passing' = Passing \ {c}
    BY <1>2, <2>2, <2>3
  <2>5. CASE ~OverLimit(mem)
    <3>1. late' = 0
      BY <1>11, <2>5 DEF Write
    <3>2. QED
      BY <1>6, <3>1
  <2>6. CASE OverLimit(mem) /\ stores[c] < 2
    <3>1. c \in Passing
      BY <2>1, <2>6 DEF Passing
    <3>2. Cardinality(Passing') = Cardinality(Passing) - 1
      BY <1>4, <2>4, <3>1, FS_RemoveElement
    <3>3. late' = late + 1
      BY <1>11, <2>6 DEF Write
    <3>4. QED
      BY <1>1, <1>3, <1>4, <1>5, <2>1, <2>6, <3>2, <3>3
  <2>7. CASE OverLimit(mem) /\ ~(stores[c] < 2)
    <3>1. late' = late
      BY <1>11, <2>7 DEF Write
    <3>2. QED
      BY <1>7, <2>1, <2>4, <2>7, <3>1
  <2>8. QED
    BY <2>5, <2>6, <2>7
<1>12. CASE Store \/ Subtract \/ Restore
  <2>1. PICK r, v : Stores(r, v)
    BY <1>12, PublishingSteps
  <2>2. late' = IF OverLimit(mem') THEN late ELSE 0
    BY <2>1 DEF Stores, Publish
  <2>3. CASE OverLimit(mem) /\ OverLimit(mem')
    <3>1. Passing' \subseteq Passing
      BY <2>1, <2>3, NobodyPasses
    <3>2. QED
      BY <1>7, <2>2, <2>3, <3>1
  <2>4. CASE ~OverLimit(mem) \/ ~OverLimit(mem')
    <3>1. late' = 0
      BY <1>1, <2>2, <2>4
    <3>2. QED
      BY <1>6, <3>1
  <2>5. QED
    BY <2>3, <2>4
<1>13. CASE Wake \/ Sample \/ Pick \/ Leave \/ EvictLocked \/ Count
  BY <1>8, <1>13 DEF Wake, Sample, Pick, Leave, EvictLocked, Count
<1>14. ASSUME NEW s \in Shards, NEW k \in Kinds, Delete(s, k) PROVE G
  BY <1>8, <1>14 DEF Delete
<1>15. CASE UNCHANGED vars
  BY <1>8, <1>15 DEF vars
<1>16. QED
  <2> HIDE DEF G
  <2>1. QED
    BY NextCases, <1>9, <1>10, <1>11, <1>12, <1>13, <1>14, <1>15

(* check_oom adds up the shards one by one while the task stores, and its  *)
(* answer may be stale when the handler writes.  Still, under noeviction,  *)
(* from the moment the sum is over the limit at most one more write of     *)
(* each client lands, of those whose check saw at most one store.          *)
THEOREM EvictOvershootBounded == Spec => []OvershootBounded
<1>1. Init => CheckInv /\ LateInv
  <2> SUFFICES ASSUME Init PROVE CheckInv /\ LateInv
    OBVIOUS
  <2>1. \A c \in Clients : check[c].at = "out" /\ check[c].next = 0 /\ check[c].sum = 0 /\ stores[c] = 0
    BY DEF Init, Out, Checking
  <2>2. Passing = {}
    BY <2>1 DEF Passing
  <2>3. Cardinality({}) = 0 /\ Cardinality(Clients) \in Nat
    BY EvictConstants, FS_EmptySet, FS_CardinalityType DEF EvictConstants
  <2>4. QED
    BY <2>1, <2>2, <2>3 DEF Init, CheckInv, LateInv
<1>2. TypeOK /\ TypeOK' /\ CheckInv /\ LateInv /\ [Next]_vars => CheckInv' /\ LateInv'
  BY CheckStep, LateStep
<1>3. TypeOK /\ LateInv => OvershootBounded
  <2> SUFFICES ASSUME TypeOK, LateInv, policy = "noeviction"
               PROVE  late <= Cardinality(Clients)
    BY DEF OvershootBounded
  <2>1. Cardinality(Passing) \in Nat /\ Cardinality(Clients) \in Nat
    BY SomeClients DEF Passing
  <2>2. late \in Nat
    BY DEF TypeOK
  <2>3. QED
    BY <2>1, <2>2 DEF LateInv
<1>4. QED
  BY <1>1, <1>2, <1>3, EvictTypeCorrect, PTL DEF Spec

-----------------------------------------------------------------------------
(* Replies.  The history of a connection (seen) settles what it is owed;   *)
(* the proof keeps the client's state equal to what the history says, and  *)
(* grows both by one event at a time.                                      *)

(* A request, its options parsed.                                          *)
SessFine(req) ==
  /\ req.cmd \in STRING /\ req.args \in Seq(STRING)
  /\ req.cmd = "hello" =>
       /\ req.opts \in Seq(Seq(STRING))
       /\ \A i \in DOMAIN req.opts :
            /\ req.opts[i] # <<>>
            /\ req.opts[i][1] = "AUTH" => Len(req.opts[i]) = 3
            /\ req.opts[i][1] = "SETNAME" => Len(req.opts[i]) = 2

SessFlags ==
  {"REPLY_OFF", "REPLY_SKIP", "REPLY_SKIP_NEXT", "CLOSE_AFTER_REPLY", "NO_EVICT", "NO_TOUCH"}
Names == STRING \cup {""}
SessStates ==
  [db : Nat, proto : {RESP2, RESP3}, name : Names, lib : [LibFields -> Names],
   authed : BOOLEAN, flags : SUBSET SessFlags]

MalformedReq == [cmd |-> Nil, args |-> <<>>]
SessReqs == UNION {SessRequests[k] : k \in DOMAIN SessRequests}
Events == [req : SessReqs \cup {MalformedReq}, pass : STRING \cup {Nil}, peers : SUBSET SessPeers]

(* What an event does to a client that had authenticated (a) or not.       *)
HelloDoneAs(x, a) ==
  /\ SessIs(x, "hello") /\ HelloVersionFine(x)
  /\ \A i \in DOMAIN x.req.opts : OptionFine(x, x.req.opts[i])
  /\ a \/ GrantsAuth(x)
NamesItselfAs(x, a) ==
  \/ SessIs(x, "hello") /\ OptionsDone(x, "SETNAME") # {}
  \/ /\ SessIs(x, "client") /\ a /\ Len(x.req.args) = 2
     /\ x.req.args[1] = "setname" /\ x.req.args[2] \notin SessBadNames
SelectsAs(x, a) ==
  /\ SessIs(x, "select") /\ a /\ Len(x.req.args) = 1
  /\ IntArg(x.req.args[1]) \in 0 .. SessDatabases - 1
SaysAs(x, a, what) == SessSub(x, <<"reply", what>>) /\ a
UnmutesAs(x, a) == SaysAs(x, a, "on") \/ Resets(x)
ClosesAs(x, a) ==
  \/ SessIs(x, "quit") \/ SessIs(x, Nil)
  \/ /\ SessIs(x, "client") /\ a
     /\ x.req.args # <<>> /\ x.req.args[1] = "kill"
     /\ SessMe \in KillTargets(x.peers, x.req.filter)

AuthedNext(x, a) == GrantsAuth(x) \/ (a /\ ~DropsAuth(x))
ProtoNext(x, a, old) ==
  IF Resets(x) THEN RESP2
  ELSE IF HelloDoneAs(x, a) /\ x.req.ver # Nil THEN IntArg(x.req.ver) ELSE old
NameNext(x, a, old) ==
  IF Resets(x) \/ NamesItselfAs(x, a) THEN NameGiven(x) ELSE old
DbNext(x, a, old) ==
  IF Resets(x) THEN 0 ELSE IF SelectsAs(x, a) THEN IntArg(x.req.args[1]) ELSE old
OffNext(x, a, old) == SaysAs(x, a, "off") \/ (old /\ ~UnmutesAs(x, a))

(* The client's state is what the history says.                            *)
SessMirrors ==
  LET len == Len(seen)
  IN /\ sess.authed <=> AuthedBefore(len + 1)
     /\ sess.proto = ProtoAfter(len)
     /\ sess.name = NameAfter(len)
     /\ sess.db = DbAfter(len)
     /\ "REPLY_OFF" \in sess.flags <=> IsOff(len)
     /\ "REPLY_SKIP" \in sess.flags <=> (len > 0 /\ Says(len, "skip") /\ ~IsOff(len))
     /\ "REPLY_SKIP_NEXT" \notin sess.flags
     /\ "CLOSE_AFTER_REPLY" \notin sess.flags

SessTypeInv ==
  /\ sess \in SessStates
  /\ peers \subseteq SessPeers
  /\ requirepass \in STRING \cup {Nil}
  /\ seen \in Seq(Events)
  /\ sessPc \in {"reading", "batch", "flush", "closing", "closed"}

(* The reply e is the one its request was owed.                            *)
RightReply(e) ==
  LET n == e.n
  IN /\ e.proto = ProtoAfter(n)
     /\ SessIs(seen[n], "hello") => (HelloDone(n) <=> e.r # <<"error">>)
     /\ ~AuthedBefore(n) /\ ~(seen[n].req.cmd \in NoAuthCommands) => e.r = <<"error">>
     /\ AuthedBefore(n) =>
          /\ SessSub(seen[n], <<"info">>) =>
               e.r = <<"info", [db |-> DbAfter(n), resp |-> ProtoAfter(n), name |-> NameAfter(n)]>>
          /\ SessSub(seen[n], <<"getname">>) =>
               e.r = IF NameAfter(n) = "" THEN <<"null">> ELSE <<"bulk", NameAfter(n)>>
          /\ SessIs(seen[n], "ping") /\ seen[n].req.args = <<>> => e.r = <<"PONG">>

Got == sent \o staging
Loud == {n \in DOMAIN seen : ~IsSilent(n)}

(* The replies g are the ones the history earned, in its order.            *)
RepliesFit(g) ==
  /\ Len(g) = Cardinality(Loud)
  /\ {g[k].n : k \in DOMAIN g} = Loud
  /\ \A k \in DOMAIN g : k > 1 => g[k].n > g[k - 1].n
  /\ \A k \in DOMAIN g : RightReply(g[k])

SessReplyInv ==
  /\ \E S : sent \in Seq(S) /\ staging \in Seq(S)
  /\ RepliesFit(Got)

SessCloseInv ==
  \A n \in DOMAIN seen : Closes(n) => n = Len(seen) /\ sessPc \in {"closing", "closed"}

SessInv ==
  /\ SessTypeInv /\ SessReplyInv /\ SessCloseInv
  /\ sessPc \in {"reading", "batch", "flush"} => SessMirrors

-----------------------------------------------------------------------------
LEMMA MaxIn ==
  ASSUME NEW n \in Nat, NEW E \in SUBSET (1 .. n), E # {}
  PROVE  Seqs!Max(E) \in E
<1>1. E \in SUBSET (0 .. n)
  OBVIOUS
<1>2. \E x \in E : \A y \in E : x >= y
  BY <1>1, GreatestNumber
<1>3. QED
  BY <1>2 DEF Seqs!Max

LEMMA MaxTop ==
  ASSUME NEW n \in Nat, NEW E \in SUBSET (1 .. n), n \in E
  PROVE  Seqs!Max(E) = n
<1>1. \A y \in E : n >= y
  OBVIOUS
<1>2. \A x \in E : (\A y \in E : x >= y) => x = n
  OBVIOUS
<1>3. QED
  BY <1>1, <1>2 DEF Seqs!Max

(* The history grows by the event x.                                       *)
Happens(x) ==
  /\ seen \in Seq(Events) /\ x \in Events
  /\ seen' = Append(seen, x) /\ born' = born

LEMMA HappensAt ==
  ASSUME NEW x, Happens(x)
  PROVE  /\ Len(seen) \in Nat /\ Len(seen') = Len(seen) + 1
         /\ DOMAIN seen = 1 .. Len(seen) /\ DOMAIN seen' = 1 .. Len(seen) + 1
         /\ \A m \in 1 .. Len(seen) : seen'[m] = seen[m]
         /\ seen'[Len(seen) + 1] = x
  BY DEF Happens

LEMMA AuthedLocal ==
  ASSUME NEW x, Happens(x), NEW n \in 1 .. Len(seen) + 1
  PROVE  AuthedBefore(n)' <=> AuthedBefore(n)
<1> DEFINE E == {m \in 1 .. n - 1 : GrantsAuth(seen[m]) \/ DropsAuth(seen[m])}
<1>1. {m \in 1 .. n - 1 : GrantsAuth(seen'[m]) \/ DropsAuth(seen'[m])} = E
  BY HappensAt
<1>2. n - 1 \in Nat /\ \A i \in 1 .. n - 1 : i \in 1 .. Len(seen)
  BY HappensAt
<1>3. E # {} => Seqs!Max(E) \in 1 .. Len(seen)
  <2> HIDE DEF E
  <2>1. E \in SUBSET (1 .. n - 1)
    BY DEF E
  <2>2. E # {} => Seqs!Max(E) \in E
    BY <1>2, <2>1, MaxIn
  <2>3. QED
    BY <1>2, <2>1, <2>2
<1>4. AuthedBefore(n)' <=> IF E = {} THEN born' = Nil ELSE GrantsAuth(seen'[Seqs!Max(E)])
  BY <1>1 DEF AuthedBefore, LatestOf
<1>5. AuthedBefore(n) <=> IF E = {} THEN born = Nil ELSE GrantsAuth(seen[Seqs!Max(E)])
  BY DEF AuthedBefore, LatestOf
<1>6. E # {} => seen'[Seqs!Max(E)] = seen[Seqs!Max(E)]
  BY <1>3, HappensAt
<1>7. QED
  <2> HIDE DEF E
  <2>1. QED
    BY <1>4, <1>5, <1>6 DEF Happens

LEMMA AuthedStep ==
  ASSUME NEW x, Happens(x), NEW len \in Nat, len = Len(seen)
  PROVE  AuthedBefore(len + 2)' <=> AuthedNext(x, AuthedBefore(len + 1))
<1> DEFINE E == {m \in 1 .. len : GrantsAuth(seen[m]) \/ DropsAuth(seen[m])}
           F == {m \in 1 .. len + 1 : GrantsAuth(seen'[m]) \/ DropsAuth(seen'[m])}
<1>1. len \in Nat /\ len + 2 - 1 = len + 1 /\ len + 1 - 1 = len
  BY HappensAt
<1>2. AuthedBefore(len + 2)' <=> IF F = {} THEN born' = Nil ELSE GrantsAuth(seen'[Seqs!Max(F)])
  <2>1. AuthedBefore(len + 2)' <=>
          IF {m \in 1 .. len + 2 - 1 : GrantsAuth(seen'[m]) \/ DropsAuth(seen'[m])} = {} THEN born' = Nil
          ELSE GrantsAuth(seen'[Seqs!Max({m \in 1 .. len + 2 - 1 : GrantsAuth(seen'[m]) \/ DropsAuth(seen'[m])})])
    BY DEF AuthedBefore, LatestOf
  <2>2. QED
    BY <1>1, <2>1
<1>3. AuthedBefore(len + 1) <=> IF E = {} THEN born = Nil ELSE GrantsAuth(seen[Seqs!Max(E)])
  <2>1. AuthedBefore(len + 1) <=>
          IF {m \in 1 .. len + 1 - 1 : GrantsAuth(seen[m]) \/ DropsAuth(seen[m])} = {} THEN born = Nil
          ELSE GrantsAuth(seen[Seqs!Max({m \in 1 .. len + 1 - 1 : GrantsAuth(seen[m]) \/ DropsAuth(seen[m])})])
    BY DEF AuthedBefore, LatestOf
  <2>2. QED
    BY <1>1, <2>1
<1>4. E \in SUBSET (1 .. len) /\ F \in SUBSET (1 .. len + 1)
  OBVIOUS
<1>5. F \ {len + 1} = E /\ (len + 1 \in F <=> GrantsAuth(x) \/ DropsAuth(x))
  BY <1>1, HappensAt
<1>6. E # {} => seen'[Seqs!Max(E)] = seen[Seqs!Max(E)]
  <2> HIDE DEF E, F
  <2>1. E # {} => Seqs!Max(E) \in 1 .. len
    BY <1>1, <1>4, MaxIn
  <2>2. QED
    BY <2>1, HappensAt
<1>7. CASE len + 1 \in F
  <2>1. Seqs!Max(F) = len + 1
    <3> HIDE DEF E, F
    <3>1. len + 1 \in Nat
      BY <1>1
    <3>2. QED
      BY <1>4, <1>7, <3>1, MaxTop
  <2>2. AuthedBefore(len + 2)' <=> GrantsAuth(x)
    BY <1>2, <1>7, <2>1, HappensAt
  <2>3. GrantsAuth(x) \/ DropsAuth(x)
    BY <1>5, <1>7
  <2>4. QED
    BY <2>2, <2>3 DEF AuthedNext
<1>8. CASE len + 1 \notin F
  <2>1. F = E
    BY <1>5, <1>8
  <2>2. born' = born
    BY DEF Happens
  <2>3. AuthedBefore(len + 2)' <=> AuthedBefore(len + 1)
    <3> HIDE DEF E, F
    <3>1. QED
      BY <1>2, <1>3, <1>6, <2>1, <2>2
  <2>4. ~GrantsAuth(x) /\ ~DropsAuth(x)
    BY <1>5, <1>8
  <2>5. QED
    BY <2>3, <2>4 DEF AuthedNext
<1>9. QED
  BY <1>7, <1>8

OneMore(len, E, D) == E \in SUBSET (1 .. len + 1) /\ D \in SUBSET (1 .. len) /\ E \ {len + 1} = D

LEMMA LatestGrows ==
  ASSUME NEW len \in Nat, NEW E, NEW D, OneMore(len, E, D)
  PROVE  /\ len + 1 \in E => E # {} /\ Seqs!Max(E) = len + 1
         /\ len + 1 \notin E => E = D
         /\ D # {} => Seqs!Max(D) \in 1 .. len
<1>1. len + 1 \in Nat /\ E \in SUBSET (1 .. len + 1) /\ D \in SUBSET (1 .. len) /\ E \ {len + 1} = D
  BY DEF OneMore
<1>2. len + 1 \in E => Seqs!Max(E) = len + 1
  BY <1>1, MaxTop
<1>3. D # {} => Seqs!Max(D) \in 1 .. len
  BY <1>1, MaxIn
<1>4. QED
  BY <1>1, <1>2, <1>3

LEMMA HelloDoneGrows ==
  ASSUME NEW x, Happens(x), NEW len \in Nat, len = Len(seen)
  PROVE  /\ \A n \in 1 .. len : HelloDone(n)' <=> HelloDone(n)
         /\ HelloDone(len + 1)' <=> HelloDoneAs(x, AuthedBefore(len + 1))
<1>1. ASSUME NEW n \in 1 .. len PROVE HelloDone(n)' <=> HelloDone(n)
  <2>1. seen'[n] = seen[n]
    BY HappensAt
  <2>2. AuthedBefore(n)' <=> AuthedBefore(n)
    BY AuthedLocal
  <2>3. HelloDone(n)' <=>
          /\ SessIs(seen'[n], "hello") /\ HelloVersionFine(seen'[n])
          /\ \A i \in DOMAIN seen'[n].req.opts : OptionFine(seen'[n], seen'[n].req.opts[i])
          /\ AuthedBefore(n)' \/ GrantsAuth(seen'[n])
    BY DEF HelloDone
  <2>4. QED
    BY <2>1, <2>2, <2>3 DEF HelloDone
<1>2. HelloDone(len + 1)' <=> HelloDoneAs(x, AuthedBefore(len + 1))
  <2>1. seen'[len + 1] = x
    BY HappensAt
  <2>2. AuthedBefore(len + 1)' <=> AuthedBefore(len + 1)
    BY AuthedLocal
  <2>3. HelloDone(len + 1)' <=>
          /\ SessIs(seen'[len + 1], "hello") /\ HelloVersionFine(seen'[len + 1])
          /\ \A i \in DOMAIN seen'[len + 1].req.opts : OptionFine(seen'[len + 1], seen'[len + 1].req.opts[i])
          /\ AuthedBefore(len + 1)' \/ GrantsAuth(seen'[len + 1])
    BY DEF HelloDone
  <2>4. QED
    BY <2>1, <2>2, <2>3 DEF HelloDoneAs
<1>3. QED
  BY <1>1, <1>2

LEMMA NamesItselfGrows ==
  ASSUME NEW x, Happens(x), NEW len \in Nat, len = Len(seen)
  PROVE  /\ \A n \in 1 .. len : NamesItself(n)' <=> NamesItself(n)
         /\ NamesItself(len + 1)' <=> NamesItselfAs(x, AuthedBefore(len + 1))
<1>1. ASSUME NEW n \in 1 .. len PROVE NamesItself(n)' <=> NamesItself(n)
  <2>1. seen'[n] = seen[n]
    BY HappensAt
  <2>2. AuthedBefore(n)' <=> AuthedBefore(n)
    BY AuthedLocal
  <2>3. QED
    BY <2>1, <2>2 DEF NamesItself
<1>2. NamesItself(len + 1)' <=> NamesItselfAs(x, AuthedBefore(len + 1))
  <2>1. seen'[len + 1] = x
    BY HappensAt
  <2>2. AuthedBefore(len + 1)' <=> AuthedBefore(len + 1)
    BY AuthedLocal
  <2>3. QED
    BY <2>1, <2>2 DEF NamesItself, NamesItselfAs
<1>3. QED
  BY <1>1, <1>2

LEMMA SelectsGrows ==
  ASSUME NEW x, Happens(x), NEW len \in Nat, len = Len(seen)
  PROVE  /\ \A n \in 1 .. len : Selects(n)' <=> Selects(n)
         /\ Selects(len + 1)' <=> SelectsAs(x, AuthedBefore(len + 1))
<1>1. ASSUME NEW n \in 1 .. len PROVE Selects(n)' <=> Selects(n)
  <2>1. seen'[n] = seen[n]
    BY HappensAt
  <2>2. AuthedBefore(n)' <=> AuthedBefore(n)
    BY AuthedLocal
  <2>3. QED
    BY <2>1, <2>2 DEF Selects
<1>2. Selects(len + 1)' <=> SelectsAs(x, AuthedBefore(len + 1))
  <2>1. seen'[len + 1] = x
    BY HappensAt
  <2>2. AuthedBefore(len + 1)' <=> AuthedBefore(len + 1)
    BY AuthedLocal
  <2>3. QED
    BY <2>1, <2>2 DEF Selects, SelectsAs
<1>3. QED
  BY <1>1, <1>2

LEMMA SaysGrows ==
  ASSUME NEW x, Happens(x), NEW len \in Nat, len = Len(seen), NEW w
  PROVE  /\ \A n \in 1 .. len : Says(n, w)' <=> Says(n, w)
         /\ Says(len + 1, w)' <=> SaysAs(x, AuthedBefore(len + 1), w)
<1>1. ASSUME NEW n \in 1 .. len PROVE Says(n, w)' <=> Says(n, w)
  <2>1. seen'[n] = seen[n]
    BY HappensAt
  <2>2. AuthedBefore(n)' <=> AuthedBefore(n)
    BY AuthedLocal
  <2>3. QED
    BY <2>1, <2>2 DEF Says
<1>2. Says(len + 1, w)' <=> SaysAs(x, AuthedBefore(len + 1), w)
  <2>1. seen'[len + 1] = x
    BY HappensAt
  <2>2. AuthedBefore(len + 1)' <=> AuthedBefore(len + 1)
    BY AuthedLocal
  <2>3. QED
    BY <2>1, <2>2 DEF Says, SaysAs
<1>3. QED
  BY <1>1, <1>2

LEMMA UnmutesGrows ==
  ASSUME NEW x, Happens(x), NEW len \in Nat, len = Len(seen)
  PROVE  /\ \A n \in 1 .. len : Unmutes(n)' <=> Unmutes(n)
         /\ Unmutes(len + 1)' <=> UnmutesAs(x, AuthedBefore(len + 1))
<1>1. ASSUME NEW n \in 1 .. len PROVE Unmutes(n)' <=> Unmutes(n)
  <2>1. seen'[n] = seen[n]
    BY HappensAt
  <2>2. Says(n, "on")' <=> Says(n, "on")
    BY SaysGrows
  <2>3. QED
    BY <2>1, <2>2 DEF Unmutes
<1>2. Unmutes(len + 1)' <=> UnmutesAs(x, AuthedBefore(len + 1))
  <2>1. seen'[len + 1] = x
    BY HappensAt
  <2>2. Says(len + 1, "on")' <=> SaysAs(x, AuthedBefore(len + 1), "on")
    BY SaysGrows
  <2>3. QED
    BY <2>1, <2>2 DEF Unmutes, UnmutesAs
<1>3. QED
  BY <1>1, <1>2

LEMMA ClosesGrows ==
  ASSUME NEW x, Happens(x), NEW len \in Nat, len = Len(seen)
  PROVE  /\ \A n \in 1 .. len : Closes(n)' <=> Closes(n)
         /\ Closes(len + 1)' <=> ClosesAs(x, AuthedBefore(len + 1))
<1>1. ASSUME NEW n \in 1 .. len PROVE Closes(n)' <=> Closes(n)
  <2>1. seen'[n] = seen[n]
    BY HappensAt
  <2>2. AuthedBefore(n)' <=> AuthedBefore(n)
    BY AuthedLocal
  <2>3. QED
    BY <2>1, <2>2 DEF Closes
<1>2. Closes(len + 1)' <=> ClosesAs(x, AuthedBefore(len + 1))
  <2>1. seen'[len + 1] = x
    BY HappensAt
  <2>2. AuthedBefore(len + 1)' <=> AuthedBefore(len + 1)
    BY AuthedLocal
  <2>3. QED
    BY <2>1, <2>2 DEF Closes, ClosesAs
<1>3. QED
  BY <1>1, <1>2

LEMMA OffIsNotOn ==
  ASSUME NEW x, NEW a, UnmutesAs(x, a) \/ SaysAs(x, a, "off")
  PROVE  SessSub(x, <<"reply", "off">>) <=> SaysAs(x, a, "off")
  BY DEF UnmutesAs, SaysAs, SessSub, SessIs, Resets

LEMMA ProtoGrows ==
  ASSUME NEW x, Happens(x), NEW len \in Nat, len = Len(seen)
  PROVE  /\ \A n \in 0 .. len : ProtoAfter(n)' = ProtoAfter(n)
         /\ ProtoAfter(len + 1)' = ProtoNext(x, AuthedBefore(len + 1), ProtoAfter(len))
<1>1. ASSUME NEW n \in 0 .. len PROVE ProtoAfter(n)' = ProtoAfter(n)
  <2> DEFINE D == {m \in 1 .. n : Resets(seen[m]) \/ (HelloDone(m) /\ seen[m].req.ver # Nil)}
  <2>1. {m \in 1 .. n : Resets(seen'[m]) \/ (HelloDone(m)' /\ seen'[m].req.ver # Nil)} = D
    BY HappensAt, HelloDoneGrows
  <2>2. D # {} => Seqs!Max(D) \in 1 .. len
    <3>1. D \in SUBSET (1 .. n) /\ n \in Nat
      OBVIOUS
    <3>2. D # {} => Seqs!Max(D) \in D
      <4> HIDE DEF D
      <4>1. QED
        BY <3>1, MaxIn
    <3>3. QED
      BY <3>1, <3>2
  <2>3. ProtoAfter(n)' = IF D = {} THEN RESP2
                         ELSE (IF Resets(seen'[Seqs!Max(D)]) THEN RESP2 ELSE IntArg(seen'[Seqs!Max(D)].req.ver))
    BY <2>1 DEF ProtoAfter, LatestOf
  <2>4. ProtoAfter(n) = IF D = {} THEN RESP2
                        ELSE (IF Resets(seen[Seqs!Max(D)]) THEN RESP2 ELSE IntArg(seen[Seqs!Max(D)].req.ver))
    BY DEF ProtoAfter, LatestOf
  <2>5. QED
    <3> HIDE DEF D
    <3>1. D # {} => seen'[Seqs!Max(D)] = seen[Seqs!Max(D)]
      BY <2>2, HappensAt
    <3>2. QED
      BY <2>2, <2>3, <2>4, <3>1
<1>2. ProtoAfter(len + 1)' = ProtoNext(x, AuthedBefore(len + 1), ProtoAfter(len))
  <2> DEFINE D == {m \in 1 .. len : Resets(seen[m]) \/ (HelloDone(m) /\ seen[m].req.ver # Nil)}
             E == {m \in 1 .. len + 1 : Resets(seen'[m]) \/ (HelloDone(m)' /\ seen'[m].req.ver # Nil)}
  <2>1. D \in SUBSET (1 .. len) /\ E \in SUBSET (1 .. len + 1)
    OBVIOUS
  <2>2. E \ {len + 1} = D
    BY HappensAt, HelloDoneGrows
  <2>3. /\ len + 1 \in E => E # {} /\ Seqs!Max(E) = len + 1
        /\ len + 1 \notin E => E = D
        /\ D # {} => Seqs!Max(D) \in 1 .. len
    <3>1. OneMore(len, E, D)
      BY <2>1, <2>2 DEF OneMore
    <3> HIDE DEF D, E
    <3>2. QED
      BY <3>1, LatestGrows
  <2>4. ProtoAfter(len + 1)' = IF E = {} THEN RESP2
                               ELSE (IF Resets(seen'[Seqs!Max(E)]) THEN RESP2 ELSE IntArg(seen'[Seqs!Max(E)].req.ver))
    BY DEF ProtoAfter, LatestOf
  <2>5. ProtoAfter(len) = IF D = {} THEN RESP2
                          ELSE (IF Resets(seen[Seqs!Max(D)]) THEN RESP2 ELSE IntArg(seen[Seqs!Max(D)].req.ver))
    BY DEF ProtoAfter, LatestOf
  <2>6. len + 1 \in E <=> (Resets(x) \/ (HelloDoneAs(x, AuthedBefore(len + 1)) /\ x.req.ver # Nil))
    BY HappensAt, HelloDoneGrows
  <2>7. CASE len + 1 \in E
    <3>1. ProtoAfter(len + 1)' = (IF Resets(seen'[len + 1]) THEN RESP2 ELSE IntArg(seen'[len + 1].req.ver))
      <4> HIDE DEF D, E
      <4>1. QED
        BY <2>3, <2>4, <2>7
    <3>2. QED
      BY <2>6, <2>7, <3>1, HappensAt DEF ProtoNext
  <2>8. CASE len + 1 \notin E
    <3>1. ProtoAfter(len + 1)' = ProtoAfter(len)
      <4> HIDE DEF D, E
      <4>1. QED
        BY <2>3, <2>4, <2>5, <2>8, HappensAt
    <3>2. QED
      BY <2>6, <2>8, <3>1 DEF ProtoNext
  <2>9. QED
    BY <2>7, <2>8
<1>3. QED
  BY <1>1, <1>2

LEMMA NameGrows ==
  ASSUME NEW x, Happens(x), NEW len \in Nat, len = Len(seen)
  PROVE  /\ \A n \in 0 .. len : NameAfter(n)' = NameAfter(n)
         /\ NameAfter(len + 1)' = NameNext(x, AuthedBefore(len + 1), NameAfter(len))
<1>1. ASSUME NEW n \in 0 .. len PROVE NameAfter(n)' = NameAfter(n)
  <2> DEFINE D == {m \in 1 .. n : Resets(seen[m]) \/ NamesItself(m)}
  <2>1. {m \in 1 .. n : Resets(seen'[m]) \/ NamesItself(m)'} = D
    BY HappensAt, NamesItselfGrows
  <2>2. D # {} => Seqs!Max(D) \in 1 .. len
    <3>1. D \in SUBSET (1 .. n) /\ n \in Nat
      OBVIOUS
    <3>2. D # {} => Seqs!Max(D) \in D
      <4> HIDE DEF D
      <4>1. QED
        BY <3>1, MaxIn
    <3>3. QED
      BY <3>1, <3>2
  <2>3. NameAfter(n)' = IF D = {} THEN "" ELSE NameGiven(seen'[Seqs!Max(D)])
    BY <2>1 DEF NameAfter, LatestOf
  <2>4. NameAfter(n) = IF D = {} THEN "" ELSE NameGiven(seen[Seqs!Max(D)])
    BY DEF NameAfter, LatestOf
  <2>5. QED
    <3> HIDE DEF D
    <3>1. D # {} => seen'[Seqs!Max(D)] = seen[Seqs!Max(D)]
      BY <2>2, HappensAt
    <3>2. QED
      BY <2>2, <2>3, <2>4, <3>1
<1>2. NameAfter(len + 1)' = NameNext(x, AuthedBefore(len + 1), NameAfter(len))
  <2> DEFINE D == {m \in 1 .. len : Resets(seen[m]) \/ NamesItself(m)}
             E == {m \in 1 .. len + 1 : Resets(seen'[m]) \/ NamesItself(m)'}
  <2>1. D \in SUBSET (1 .. len) /\ E \in SUBSET (1 .. len + 1)
    OBVIOUS
  <2>2. E \ {len + 1} = D
    BY HappensAt, NamesItselfGrows
  <2>3. /\ len + 1 \in E => E # {} /\ Seqs!Max(E) = len + 1
        /\ len + 1 \notin E => E = D
        /\ D # {} => Seqs!Max(D) \in 1 .. len
    <3>1. OneMore(len, E, D)
      BY <2>1, <2>2 DEF OneMore
    <3> HIDE DEF D, E
    <3>2. QED
      BY <3>1, LatestGrows
  <2>4. NameAfter(len + 1)' = IF E = {} THEN "" ELSE NameGiven(seen'[Seqs!Max(E)])
    BY DEF NameAfter, LatestOf
  <2>5. NameAfter(len) = IF D = {} THEN "" ELSE NameGiven(seen[Seqs!Max(D)])
    BY DEF NameAfter, LatestOf
  <2>6. len + 1 \in E <=> (Resets(x) \/ NamesItselfAs(x, AuthedBefore(len + 1)))
    BY HappensAt, NamesItselfGrows
  <2>7. CASE len + 1 \in E
    <3>1. NameAfter(len + 1)' = NameGiven(seen'[len + 1])
      <4> HIDE DEF D, E
      <4>1. QED
        BY <2>3, <2>4, <2>7
    <3>2. QED
      BY <2>6, <2>7, <3>1, HappensAt DEF NameNext
  <2>8. CASE len + 1 \notin E
    <3>1. NameAfter(len + 1)' = NameAfter(len)
      <4> HIDE DEF D, E
      <4>1. QED
        BY <2>3, <2>4, <2>5, <2>8, HappensAt
    <3>2. QED
      BY <2>6, <2>8, <3>1 DEF NameNext
  <2>9. QED
    BY <2>7, <2>8
<1>3. QED
  BY <1>1, <1>2

LEMMA DbGrows ==
  ASSUME NEW x, Happens(x), NEW len \in Nat, len = Len(seen)
  PROVE  /\ \A n \in 0 .. len : DbAfter(n)' = DbAfter(n)
         /\ DbAfter(len + 1)' = DbNext(x, AuthedBefore(len + 1), DbAfter(len))
<1>1. ASSUME NEW n \in 0 .. len PROVE DbAfter(n)' = DbAfter(n)
  <2> DEFINE D == {m \in 1 .. n : Resets(seen[m]) \/ Selects(m)}
  <2>1. {m \in 1 .. n : Resets(seen'[m]) \/ Selects(m)'} = D
    BY HappensAt, SelectsGrows
  <2>2. D # {} => Seqs!Max(D) \in 1 .. len
    <3>1. D \in SUBSET (1 .. n) /\ n \in Nat
      OBVIOUS
    <3>2. D # {} => Seqs!Max(D) \in D
      <4> HIDE DEF D
      <4>1. QED
        BY <3>1, MaxIn
    <3>3. QED
      BY <3>1, <3>2
  <2>3. DbAfter(n)' = IF D = {} THEN 0
                      ELSE (IF Resets(seen'[Seqs!Max(D)]) THEN 0 ELSE IntArg(seen'[Seqs!Max(D)].req.args[1]))
    BY <2>1 DEF DbAfter, LatestOf
  <2>4. DbAfter(n) = IF D = {} THEN 0
                     ELSE (IF Resets(seen[Seqs!Max(D)]) THEN 0 ELSE IntArg(seen[Seqs!Max(D)].req.args[1]))
    BY DEF DbAfter, LatestOf
  <2>5. QED
    <3> HIDE DEF D
    <3>1. D # {} => seen'[Seqs!Max(D)] = seen[Seqs!Max(D)]
      BY <2>2, HappensAt
    <3>2. QED
      BY <2>2, <2>3, <2>4, <3>1
<1>2. DbAfter(len + 1)' = DbNext(x, AuthedBefore(len + 1), DbAfter(len))
  <2> DEFINE D == {m \in 1 .. len : Resets(seen[m]) \/ Selects(m)}
             E == {m \in 1 .. len + 1 : Resets(seen'[m]) \/ Selects(m)'}
  <2>1. D \in SUBSET (1 .. len) /\ E \in SUBSET (1 .. len + 1)
    OBVIOUS
  <2>2. E \ {len + 1} = D
    BY HappensAt, SelectsGrows
  <2>3. /\ len + 1 \in E => E # {} /\ Seqs!Max(E) = len + 1
        /\ len + 1 \notin E => E = D
        /\ D # {} => Seqs!Max(D) \in 1 .. len
    <3>1. OneMore(len, E, D)
      BY <2>1, <2>2 DEF OneMore
    <3> HIDE DEF D, E
    <3>2. QED
      BY <3>1, LatestGrows
  <2>4. DbAfter(len + 1)' = IF E = {} THEN 0
                            ELSE (IF Resets(seen'[Seqs!Max(E)]) THEN 0 ELSE IntArg(seen'[Seqs!Max(E)].req.args[1]))
    BY DEF DbAfter, LatestOf
  <2>5. DbAfter(len) = IF D = {} THEN 0
                       ELSE (IF Resets(seen[Seqs!Max(D)]) THEN 0 ELSE IntArg(seen[Seqs!Max(D)].req.args[1]))
    BY DEF DbAfter, LatestOf
  <2>6. len + 1 \in E <=> (Resets(x) \/ SelectsAs(x, AuthedBefore(len + 1)))
    BY HappensAt, SelectsGrows
  <2>7. CASE len + 1 \in E
    <3>1. DbAfter(len + 1)' = (IF Resets(seen'[len + 1]) THEN 0 ELSE IntArg(seen'[len + 1].req.args[1]))
      <4> HIDE DEF D, E
      <4>1. QED
        BY <2>3, <2>4, <2>7
    <3>2. QED
      BY <2>6, <2>7, <3>1, HappensAt DEF DbNext
  <2>8. CASE len + 1 \notin E
    <3>1. DbAfter(len + 1)' = DbAfter(len)
      <4> HIDE DEF D, E
      <4>1. QED
        BY <2>3, <2>4, <2>5, <2>8, HappensAt
    <3>2. QED
      BY <2>6, <2>8, <3>1 DEF DbNext
  <2>9. QED
    BY <2>7, <2>8
<1>3. QED
  BY <1>1, <1>2

LEMMA OffGrows ==
  ASSUME NEW x, Happens(x), NEW len \in Nat, len = Len(seen)
  PROVE  /\ \A n \in 0 .. len : IsOff(n)' <=> IsOff(n)
         /\ IsOff(len + 1)' <=> OffNext(x, AuthedBefore(len + 1), IsOff(len))
<1>1. ASSUME NEW n \in 0 .. len PROVE IsOff(n)' <=> IsOff(n)
  <2>0. /\ \A m \in 1 .. len : (Says(m, "off")' <=> Says(m, "off")) /\ (Unmutes(m)' <=> Unmutes(m))
        /\ Says(len + 1, "off")' <=> SaysAs(x, AuthedBefore(len + 1), "off")
        /\ Unmutes(len + 1)' <=> UnmutesAs(x, AuthedBefore(len + 1))
    BY UnmutesGrows, SaysGrows
  <2> DEFINE D == {m \in 1 .. n : Unmutes(m) \/ Says(m, "off")}
  <2>1. {m \in 1 .. n : Unmutes(m)' \/ Says(m, "off")'} = D
    BY <2>0
  <2>2. D # {} => Seqs!Max(D) \in 1 .. len
    <3>1. D \in SUBSET (1 .. n) /\ n \in Nat
      OBVIOUS
    <3>2. D # {} => Seqs!Max(D) \in D
      <4> HIDE DEF D
      <4>1. QED
        BY <3>1, MaxIn
    <3>3. QED
      BY <3>1, <3>2
  <2>3. IsOff(n)' <=> IF D = {} THEN FALSE ELSE SessSub(seen'[Seqs!Max(D)], <<"reply", "off">>)
    BY <2>1 DEF IsOff, LatestOf
  <2>4. IsOff(n) <=> IF D = {} THEN FALSE ELSE SessSub(seen[Seqs!Max(D)], <<"reply", "off">>)
    BY DEF IsOff, LatestOf
  <2>5. QED
    <3> HIDE DEF D
    <3>1. D # {} => seen'[Seqs!Max(D)] = seen[Seqs!Max(D)]
      BY <2>2, HappensAt
    <3>2. QED
      BY <2>2, <2>3, <2>4, <3>1, <2>0
<1>2. IsOff(len + 1)' <=> OffNext(x, AuthedBefore(len + 1), IsOff(len))
  <2>0. /\ \A m \in 1 .. len : (Says(m, "off")' <=> Says(m, "off")) /\ (Unmutes(m)' <=> Unmutes(m))
        /\ Says(len + 1, "off")' <=> SaysAs(x, AuthedBefore(len + 1), "off")
        /\ Unmutes(len + 1)' <=> UnmutesAs(x, AuthedBefore(len + 1))
    BY UnmutesGrows, SaysGrows
  <2> DEFINE D == {m \in 1 .. len : Unmutes(m) \/ Says(m, "off")}
             E == {m \in 1 .. len + 1 : IF m = len + 1
                                       THEN \/ UnmutesAs(x, AuthedBefore(len + 1))
                                            \/ SaysAs(x, AuthedBefore(len + 1), "off")
                                       ELSE Unmutes(m) \/ Says(m, "off")}
  <2>1. D \in SUBSET (1 .. len) /\ E \in SUBSET (1 .. len + 1)
    OBVIOUS
  <2>2. E \ {len + 1} = D
    BY <2>0
  <2>3. /\ len + 1 \in E => E # {} /\ Seqs!Max(E) = len + 1
        /\ len + 1 \notin E => E = D
        /\ D # {} => Seqs!Max(D) \in 1 .. len
    <3>1. OneMore(len, E, D)
      BY <2>1, <2>2 DEF OneMore
    <3> HIDE DEF D, E
    <3>2. QED
      BY <3>1, LatestGrows
  <2>4. IsOff(len + 1)' <=> IF E = {} THEN FALSE ELSE SessSub(seen'[Seqs!Max(E)], <<"reply", "off">>)
    <3>1. {m \in 1 .. len + 1 : Unmutes(m)' \/ Says(m, "off")'} = E
      BY <2>0
    <3>2. QED
      BY <3>1 DEF IsOff, LatestOf
  <2>5. IsOff(len) <=> IF D = {} THEN FALSE ELSE SessSub(seen[Seqs!Max(D)], <<"reply", "off">>)
    BY DEF IsOff, LatestOf
  <2>6. len + 1 \in E <=> (UnmutesAs(x, AuthedBefore(len + 1)) \/ SaysAs(x, AuthedBefore(len + 1), "off"))
    BY <2>0
  <2>7. CASE len + 1 \in E
    <3>1. IsOff(len + 1)' <=> SessSub(seen'[len + 1], <<"reply", "off">>)
      <4> HIDE DEF D, E
      <4>1. QED
        BY <2>3, <2>4, <2>7
    <3>2. seen'[len + 1] = x
      BY HappensAt
    <3>3. UnmutesAs(x, AuthedBefore(len + 1)) \/ SaysAs(x, AuthedBefore(len + 1), "off")
      BY <2>6, <2>7
    <3>4. SessSub(x, <<"reply", "off">>) <=> SaysAs(x, AuthedBefore(len + 1), "off")
      BY <3>3, OffIsNotOn
    <3>5. QED
      BY <3>1, <3>2, <3>3, <3>4 DEF OffNext
  <2>8. CASE len + 1 \notin E
    <3>1. IsOff(len + 1)' <=> IsOff(len)
      <4> HIDE DEF D, E
      <4>1. QED
        BY <2>3, <2>4, <2>5, <2>8, HappensAt, <2>0
    <3>2. QED
      BY <2>6, <2>8, <3>1 DEF OffNext
  <2>9. QED
    BY <2>7, <2>8
<1>3. QED
  BY <1>1, <1>2

SkipNext == Len(seen) > 0 /\ Says(Len(seen), "skip") /\ ~IsOff(Len(seen))
SilentAs(x, a, off, skip) ==
  \/ SaysAs(x, a, "off") \/ SaysAs(x, a, "skip")
  \/ ~ClosesAs(x, a) /\ (OffNext(x, a, off) \/ (skip /\ ~UnmutesAs(x, a)))

LEMMA SkippedGrows ==
  ASSUME NEW x, Happens(x), NEW len \in Nat, len = Len(seen)
  PROVE  /\ \A n \in 1 .. len : IsSkipped(n)' <=> IsSkipped(n)
         /\ IsSkipped(len + 1)' <=> SkipNext /\ ~UnmutesAs(x, AuthedBefore(len + 1))
<1>1. /\ \A m \in 1 .. len : Says(m, "skip")' <=> Says(m, "skip")
      /\ \A m \in 0 .. len : IsOff(m)' <=> IsOff(m)
  BY SaysGrows, OffGrows
<1>2. ASSUME NEW n \in 1 .. len PROVE IsSkipped(n)' <=> IsSkipped(n)
  <2>1. Unmutes(n)' <=> Unmutes(n)
    BY UnmutesGrows
  <2>2. CASE n = 1
    BY <2>2 DEF IsSkipped
  <2>3. CASE n # 1
    <3>1. PICK m \in 1 .. len : m = n - 1
      BY <2>3
    <3>2. IsSkipped(n)' <=> Says(m, "skip")' /\ ~IsOff(m)' /\ ~Unmutes(n)'
      BY <3>1, <2>3 DEF IsSkipped
    <3>3. IsSkipped(n) <=> Says(m, "skip") /\ ~IsOff(m) /\ ~Unmutes(n)
      BY <3>1, <2>3 DEF IsSkipped
    <3>4. m \in 0 .. len
      OBVIOUS
    <3>5. QED
      BY <1>1, <2>1, <3>2, <3>3, <3>4
  <2>4. QED
    BY <2>2, <2>3
<1>3. IsSkipped(len + 1)' <=> SkipNext /\ ~UnmutesAs(x, AuthedBefore(len + 1))
  <2>1. Unmutes(len + 1)' <=> UnmutesAs(x, AuthedBefore(len + 1))
    BY UnmutesGrows
  <2>2. CASE len = 0
    BY <2>2 DEF IsSkipped, SkipNext
  <2>3. CASE len # 0
    <3>1. len + 1 - 1 = len /\ len + 1 > 1 /\ len > 0 /\ len \in 1 .. len /\ len \in 0 .. len
      BY <2>3
    <3>2. IsSkipped(len + 1)' <=> Says(len, "skip")' /\ ~IsOff(len)' /\ ~Unmutes(len + 1)'
      <4>1. IsSkipped(len + 1)' <=>
              len + 1 > 1 /\ Says(len + 1 - 1, "skip")' /\ ~IsOff(len + 1 - 1)' /\ ~Unmutes(len + 1)'
        BY DEF IsSkipped
      <4>2. QED
        BY <3>1, <4>1
    <3>3. SkipNext <=> Says(len, "skip") /\ ~IsOff(len)
      BY <3>1 DEF SkipNext
    <3>4. QED
      BY <1>1, <2>1, <3>1, <3>2, <3>3
  <2>4. QED
    BY <2>2, <2>3
<1>4. QED
  BY <1>2, <1>3

LEMMA SilentGrows ==
  ASSUME NEW x, Happens(x), NEW len \in Nat, len = Len(seen)
  PROVE  /\ \A n \in 1 .. len : IsSilent(n)' <=> IsSilent(n)
         /\ IsSilent(len + 1)' <=> SilentAs(x, AuthedBefore(len + 1), IsOff(len), SkipNext)
<1>1. ASSUME NEW n \in 1 .. len PROVE IsSilent(n)' <=> IsSilent(n)
  <2>1. (Says(n, "off")' <=> Says(n, "off")) /\ (Says(n, "skip")' <=> Says(n, "skip"))
    BY SaysGrows
  <2>2. n \in 0 .. len
    OBVIOUS
  <2>3. (Closes(n)' <=> Closes(n)) /\ (IsOff(n)' <=> IsOff(n)) /\ (IsSkipped(n)' <=> IsSkipped(n))
    BY <2>2, ClosesGrows, OffGrows, SkippedGrows
  <2>4. QED
    BY <2>1, <2>3 DEF IsSilent
<1>2. IsSilent(len + 1)' <=> SilentAs(x, AuthedBefore(len + 1), IsOff(len), SkipNext)
  <2>1. /\ Says(len + 1, "off")' <=> SaysAs(x, AuthedBefore(len + 1), "off")
        /\ Says(len + 1, "skip")' <=> SaysAs(x, AuthedBefore(len + 1), "skip")
    BY SaysGrows
  <2>2. Closes(len + 1)' <=> ClosesAs(x, AuthedBefore(len + 1))
    BY ClosesGrows
  <2>3. IsOff(len + 1)' <=> OffNext(x, AuthedBefore(len + 1), IsOff(len))
    BY OffGrows
  <2>4. IsSkipped(len + 1)' <=> SkipNext /\ ~UnmutesAs(x, AuthedBefore(len + 1))
    BY SkippedGrows
  <2>5. QED
    BY <2>1, <2>2, <2>3, <2>4 DEF IsSilent, SilentAs
<1>3. QED
  BY <1>1, <1>2

LEMMA RightReplyStays ==
  ASSUME NEW x, Happens(x), NEW len \in Nat, len = Len(seen), NEW e, e.n \in 1 .. len, RightReply(e)
  PROVE  RightReply(e)'
<1> DEFINE n == e.n
<1>1. n \in 1 .. len /\ n \in 0 .. len
  OBVIOUS
<1> HIDE DEF n
<1>2. seen'[n] = seen[n]
  BY <1>1, HappensAt
<1>3. AuthedBefore(n)' <=> AuthedBefore(n)
  BY <1>1, AuthedLocal
<1>4. ProtoAfter(n)' = ProtoAfter(n)
  BY <1>1, ProtoGrows
<1>5. NameAfter(n)' = NameAfter(n)
  BY <1>1, NameGrows
<1>6. DbAfter(n)' = DbAfter(n)
  BY <1>1, DbGrows
<1>7. HelloDone(n)' <=> HelloDone(n)
  BY <1>1, HelloDoneGrows
<1>8. QED
  BY <1>2, <1>3, <1>4, <1>5, <1>6, <1>7 DEF RightReply, n

-----------------------------------------------------------------------------
(* What a handler does to a client, against what the event should do.      *)
Quiet(x, a) == SaysAs(x, a, "off") \/ SaysAs(x, a, "skip")

FlagsFollow(s, x, t) ==
  /\ "REPLY_OFF" \in t.flags <=> OffNext(x, s.authed, "REPLY_OFF" \in s.flags)
  /\ "REPLY_SKIP" \in t.flags <=> "REPLY_SKIP" \in s.flags /\ ~UnmutesAs(x, s.authed)
  /\ "REPLY_SKIP_NEXT" \in t.flags <=> SaysAs(x, s.authed, "skip") /\ "REPLY_OFF" \notin s.flags
  /\ "CLOSE_AFTER_REPLY" \in t.flags <=> ClosesAs(x, s.authed)

Follows(s, x, t) ==
  /\ t \in SessStates
  /\ t.authed <=> AuthedNext(x, s.authed)
  /\ t.proto = ProtoNext(x, s.authed, s.proto)
  /\ t.name = NameNext(x, s.authed, s.name)
  /\ t.db = DbNext(x, s.authed, s.db)
  /\ FlagsFollow(s, x, t)

(* r is the reply an event earns from a client in state s.                 *)
Earned(s, x, r) ==
  /\ SessIs(x, "hello") => (HelloDoneAs(x, s.authed) <=> r # <<"error">>)
  /\ ~s.authed /\ ~(x.req.cmd \in NoAuthCommands) => r = <<"error">>
  /\ s.authed =>
       /\ SessSub(x, <<"info">>) => r = <<"info", [db |-> s.db, resp |-> s.proto, name |-> s.name]>>
       /\ SessSub(x, <<"getname">>) => r = IF s.name = "" THEN <<"null">> ELSE <<"bulk", s.name>>
       /\ SessIs(x, "ping") /\ x.req.args = <<>> => r = <<"PONG">>

Fits(s, x, ran) ==
  /\ Follows(s, x, ran.s)
  /\ ran.err # Nil => /\ ran.s.proto = s.proto
                      /\ ~ClosesAs(x, s.authed) /\ ~Quiet(x, s.authed)
                      /\ Earned(s, x, <<"error">>)
  /\ ran.err = Nil => IF Quiet(x, s.authed) THEN ran.out = <<>>
                      ELSE \E r : ran.out = <<r>> /\ Earned(s, x, r)

(* An event that changes nothing.                                          *)
Idle(x, a) ==
  /\ ~GrantsAuth(x) /\ ~Resets(x) /\ ~HelloDoneAs(x, a) /\ ~NamesItselfAs(x, a)
  /\ ~SelectsAs(x, a) /\ ~SaysAs(x, a, "on") /\ ~SaysAs(x, a, "off") /\ ~SaysAs(x, a, "skip")
  /\ ~ClosesAs(x, a)

Fresh(s) == s \in SessStates /\ "REPLY_SKIP_NEXT" \notin s.flags /\ "CLOSE_AFTER_REPLY" \notin s.flags
Asked(x) == SessFine(x.req) /\ x.pass \in STRING \cup {Nil} /\ x.peers \subseteq SessPeers

LEMMA IdleFollows ==
  ASSUME NEW s, Fresh(s), NEW x, Idle(x, s.authed)
  PROVE  Follows(s, x, s)
<1>1. FlagsFollow(s, x, s)
  BY DEF FlagsFollow, Fresh, Idle, OffNext, UnmutesAs
<1>2. s.authed <=> AuthedNext(x, s.authed)
  BY DEF Idle, AuthedNext, DropsAuth
<1>3. /\ s.proto = ProtoNext(x, s.authed, s.proto)
      /\ s.name = NameNext(x, s.authed, s.name)
      /\ s.db = DbNext(x, s.authed, s.db)
  BY DEF Idle, ProtoNext, NameNext, DbNext
<1>4. QED
  BY <1>1, <1>2, <1>3 DEF Follows, Fresh

LEMMA IdleFails ==
  ASSUME NEW s, Fresh(s), NEW x, Idle(x, s.authed), NEW e \in SessErrors, Earned(s, x, <<"error">>)
  PROVE  Fits(s, x, Fails(s, e))
<1> DEFINE ran == Fails(s, e)
<1>1. ran.s = s /\ ran.err = e /\ e # Nil
  BY SessConstants DEF Fails
<1> HIDE DEF ran
<1>2. Follows(s, x, ran.s)
  BY <1>1, IdleFollows
<1>3. ~ClosesAs(x, s.authed) /\ ~Quiet(x, s.authed)
  BY DEF Idle, Quiet
<1>4. Fits(s, x, ran)
  BY <1>1, <1>2, <1>3 DEF Fits
<1>5. QED
  BY <1>4 DEF ran

LEMMA FollowsReplies ==
  ASSUME NEW s, NEW x, NEW t, Follows(s, x, t), ~Quiet(x, s.authed), NEW r, Earned(s, x, r)
  PROVE  Fits(s, x, Replies(t, r))
<1> DEFINE ran == Replies(t, r)
<1>1. ran.s = t /\ ran.err = Nil /\ ran.out = <<r>>
  BY DEF Replies
<1> HIDE DEF ran
<1>2. Fits(s, x, ran)
  BY <1>1 DEF Fits
<1>3. QED
  BY <1>2 DEF ran

LEMMA IdleReplies ==
  ASSUME NEW s, Fresh(s), NEW x, Idle(x, s.authed), NEW r, Earned(s, x, r)
  PROVE  Fits(s, x, Replies(s, r))
<1>1. Follows(s, x, s)
  BY IdleFollows
<1>2. ~Quiet(x, s.authed)
  BY DEF Idle, Quiet
<1>3. QED
  BY <1>1, <1>2, FollowsReplies

LEMMA FollowsNoReply ==
  ASSUME NEW s, NEW x, NEW t, Follows(s, x, t), Quiet(x, s.authed)
  PROVE  Fits(s, x, NoReply(t))
<1> DEFINE ran == NoReply(t)
<1>1. ran.s = t /\ ran.err = Nil /\ ran.out = <<>>
  BY DEF NoReply
<1> HIDE DEF ran
<1>2. Fits(s, x, ran)
  BY <1>1 DEF Fits
<1>3. QED
  BY <1>2 DEF ran

(* Events of a command that no definition of the history speaks of.        *)
LEMMA PlainIdle ==
  ASSUME NEW x, NEW a, x.req.cmd \notin {"auth", "hello", "reset", "select", "quit", "client", Nil}
  PROVE  Idle(x, a)
  BY DEF Idle, GrantsAuth, Resets, HelloDoneAs, NamesItselfAs, SelectsAs, SaysAs, SessSub, SessIs, ClosesAs

LEMMA ServedKnown ==
  /\ DOMAIN CommandArity = {"ping", "echo", "select", "quit", "auth", "hello", "reset", "client"}
  /\ CommandArity["ping"] = Nat /\ CommandArity["quit"] = Nat /\ CommandArity["hello"] = Nat
  /\ CommandArity["echo"] = {1} /\ CommandArity["select"] = {1} /\ CommandArity["reset"] = {0}
  /\ CommandArity["auth"] = Nat \ {0} /\ CommandArity["client"] = Nat \ {0}
  BY DEF CommandArity

LEMMA UnknownFits ==
  ASSUME NEW s, Fresh(s), NEW x, Asked(x), x.req.cmd \notin DOMAIN CommandArity
  PROVE  Fits(s, x, Fails(s, "UnknownCommand"))
<1>1. x.req.cmd \notin {"ping", "auth", "hello", "reset", "select", "quit", "client", Nil}
  BY SessConstants, ServedKnown DEF Asked, SessFine
<1>2. Idle(x, s.authed)
  BY <1>1, PlainIdle
<1>3. Earned(s, x, <<"error">>)
  BY <1>1 DEF Earned, SessIs, SessSub
<1>4. QED
  BY <1>2, <1>3, IdleFails DEF SessErrors

LEMMA ArityFits ==
  ASSUME NEW s, Fresh(s), NEW x, Asked(x), x.req.cmd \in DOMAIN CommandArity,
         Len(x.req.args) \notin CommandArity[x.req.cmd]
  PROVE  Fits(s, x, Fails(s, "WrongArity"))
<1> DEFINE n == Len(x.req.args)
           c == x.req.cmd
<1>1. n \in Nat /\ x.req.args \in Seq(STRING) /\ c \in STRING
  BY DEF Asked, SessFine
<1>2. \/ c = "echo"
      \/ c = "select" /\ n # 1
      \/ c \in {"auth", "client"} /\ n = 0
      \/ c = "reset" /\ n # 0
  BY <1>1, ServedKnown
<1>3. x.req.args = <<>> <=> n = 0
  BY <1>1
<1>4. \A p, q : Len(<<p>>) = 1 /\ Len(<<p, q>>) = 2
  OBVIOUS
<1>5. c = "echo" => Idle(x, s.authed)
  <2>1. c = "echo" => c \notin {"auth", "hello", "reset", "select", "quit", "client", Nil}
    BY SessConstants, ServedKnown
  <2>2. QED
    BY <2>1, PlainIdle
<1>6. c # "echo" => Idle(x, s.authed)
  <2>1. c # "echo" => c # Nil /\ c # "hello" /\ c # "quit"
    BY <1>1, <1>2, SessConstants, ServedKnown
  <2>2. c # "echo" => ~GrantsAuth(x)
    BY <1>2, <1>3, <1>4 DEF GrantsAuth, SessIs
  <2>3. c # "echo" => ~Resets(x) /\ ~SelectsAs(x, s.authed) /\ ~HelloDoneAs(x, s.authed)
    BY <1>2, <1>3, <2>1 DEF Resets, SelectsAs, HelloDoneAs, SessIs
  <2>4. c # "echo" => ~NamesItselfAs(x, s.authed) /\ ~ClosesAs(x, s.authed)
    BY <1>2, <1>3, <2>1 DEF NamesItselfAs, ClosesAs, SessIs
  <2>5. c # "echo" => \A w : ~SaysAs(x, s.authed, w)
    BY <1>2, <1>4 DEF SaysAs, SessSub, SessIs
  <2>6. QED
    BY <2>2, <2>3, <2>4, <2>5 DEF Idle
<1>7. Earned(s, x, <<"error">>)
  <2>1. ~SessIs(x, "hello") /\ ~SessIs(x, "ping") /\ ~SessSub(x, <<"info">>) /\ ~SessSub(x, <<"getname">>)
    BY <1>2, <1>4 DEF SessIs, SessSub
  <2>2. QED
    BY <2>1 DEF Earned
<1>8. QED
  BY <1>5, <1>6, <1>7, IdleFails DEF SessErrors

LEMMA NoAuthFits ==
  ASSUME NEW s, Fresh(s), NEW x, Asked(x), ~s.authed, x.req.cmd \notin NoAuthCommands
  PROVE  Fits(s, x, Fails(s, "NoAuth"))
<1>1. x.req.cmd \notin {"auth", "hello", "reset", "quit", Nil}
  BY SessConstants DEF NoAuthCommands, Asked, SessFine
<1>2. Idle(x, s.authed)
  BY <1>1 DEF Idle, GrantsAuth, Resets, HelloDoneAs, NamesItselfAs, SelectsAs, SaysAs, SessSub, SessIs, ClosesAs
<1>3. Earned(s, x, <<"error">>)
  BY <1>1 DEF Earned, SessIs
<1>4. QED
  BY <1>2, <1>3, IdleFails DEF SessErrors

(* A reply that only has to come from a client that may have it.           *)
LEMMA PlainEarned ==
  ASSUME NEW s, NEW x, NEW r, s.authed \/ x.req.cmd \in NoAuthCommands,
         x.req.cmd # "hello", x.req.cmd # "client", x.req.cmd # "ping"
  PROVE  Earned(s, x, r)
  BY DEF Earned, SessIs, SessSub

LEMMA PingFits ==
  ASSUME NEW s, Fresh(s), NEW x, Asked(x), x.req.cmd = "ping", s.authed
  PROVE  Fits(s, x, cmd_ping(s, x.req.args))
<1> DEFINE g == x.req.args
<1>1. Idle(x, s.authed)
  <2>1. x.req.cmd \notin {"auth", "hello", "reset", "select", "quit", "client", Nil}
    BY SessConstants, ServedKnown
  <2>2. QED
    BY <2>1, PlainIdle
<1>2. \A r : (g = <<>> => r = <<"PONG">>) => Earned(s, x, r)
  BY DEF Earned, SessIs, SessSub
<1>3. CASE g = <<>>
  <2>1. Len(g) # 1
    BY <1>3
  <2>2. cmd_ping(s, g) = Replies(s, <<"PONG">>)
    BY <1>3, <2>1 DEF cmd_ping
  <2>3. QED
    BY <1>1, <1>2, <2>2, IdleReplies
<1>4. CASE g # <<>> /\ Len(g) = 1
  <2>1. cmd_ping(s, g) = Replies(s, <<"bulk", g[1]>>)
    BY <1>4 DEF cmd_ping
  <2>2. Earned(s, x, <<"bulk", g[1]>>)
    BY <1>2, <1>4
  <2>3. QED
    BY <1>1, <2>1, <2>2, IdleReplies
<1>5. CASE g # <<>> /\ Len(g) # 1
  <2>1. cmd_ping(s, g) = Fails(s, "WrongArity")
    BY <1>5 DEF cmd_ping
  <2>2. Earned(s, x, <<"error">>)
    BY <1>2, <1>5
  <2>3. QED
    BY <1>1, <2>1, <2>2, IdleFails DEF SessErrors
<1>6. QED
  BY <1>3, <1>4, <1>5

LEMMA EchoFits ==
  ASSUME NEW s, Fresh(s), NEW x, Asked(x), x.req.cmd = "echo", s.authed
  PROVE  Fits(s, x, cmd_echo(s, x.req.args))
<1>1. Idle(x, s.authed)
  <2>1. x.req.cmd \notin {"auth", "hello", "reset", "select", "quit", "client", Nil}
    BY SessConstants, ServedKnown
  <2>2. QED
    BY <2>1, PlainIdle
<1>2. Earned(s, x, <<"bulk", x.req.args[1]>>)
  BY PlainEarned
<1>3. QED
  BY <1>1, <1>2, IdleReplies DEF cmd_echo

LEMMA SelectFits ==
  ASSUME NEW s, Fresh(s), NEW x, Asked(x), x.req.cmd = "select", s.authed, Len(x.req.args) = 1
  PROVE  Fits(s, x, cmd_select(s, x.req.args))
<1> DEFINE v == IntArg(x.req.args[1])
<1>1. \A r : Earned(s, x, r)
  BY PlainEarned
<1>2. "select" # Nil
  BY SessConstants, ServedKnown
<1>3. ~GrantsAuth(x) /\ ~Resets(x) /\ ~HelloDoneAs(x, s.authed) /\ ~NamesItselfAs(x, s.authed)
      /\ (\A w : ~SaysAs(x, s.authed, w)) /\ ~ClosesAs(x, s.authed)
  BY <1>2 DEF GrantsAuth, Resets, HelloDoneAs, NamesItselfAs, SaysAs, SessSub, SessIs, ClosesAs
<1>4. SelectsAs(x, s.authed) <=> v \in 0 .. SessDatabases - 1
  BY DEF SelectsAs, SessIs
<1>5. CASE v \notin 0 .. SessDatabases - 1
  <2>1. Idle(x, s.authed)
    BY <1>3, <1>4, <1>5 DEF Idle
  <2>2. Fits(s, x, Fails(s, "NotAnInteger")) /\ Fits(s, x, Fails(s, "OutOfRange"))
    BY <1>1, <2>1, IdleFails DEF SessErrors
  <2>3. cmd_select(s, x.req.args) \in {Fails(s, "NotAnInteger"), Fails(s, "OutOfRange")}
    BY <1>5 DEF cmd_select
  <2>4. QED
    BY <2>2, <2>3
<1>6. CASE v \in 0 .. SessDatabases - 1
  <2> DEFINE t == [s EXCEPT !.db = v]
  <2>1. v # Nil /\ v \in Nat
    BY <1>6, SessConstants
  <2>2. cmd_select(s, x.req.args) = Replies(t, <<"OK">>)
    BY <1>6, <2>1 DEF cmd_select
  <2>3. t \in SessStates /\ t.db = v /\ t.authed = s.authed /\ t.proto = s.proto /\ t.name = s.name
        /\ t.flags = s.flags
    BY <2>1 DEF Fresh, SessStates
  <2> HIDE DEF t
  <2>4. FlagsFollow(s, x, t)
    BY <1>3, <2>3 DEF FlagsFollow, Fresh, OffNext, UnmutesAs
  <2>5. t.authed <=> AuthedNext(x, s.authed)
    BY <1>3, <2>3 DEF AuthedNext, DropsAuth
  <2>6. t.proto = ProtoNext(x, s.authed, s.proto) /\ t.name = NameNext(x, s.authed, s.name)
        /\ t.db = DbNext(x, s.authed, s.db)
    BY <1>3, <1>4, <1>6, <2>3 DEF ProtoNext, NameNext, DbNext
  <2>7. Follows(s, x, t)
    BY <2>3, <2>4, <2>5, <2>6 DEF Follows
  <2>8. ~Quiet(x, s.authed)
    BY <1>3 DEF Quiet
  <2>9. QED
    BY <1>1, <2>2, <2>7, <2>8, FollowsReplies
<1>7. QED
  BY <1>5, <1>6

LEMMA QuitFits ==
  ASSUME NEW s, Fresh(s), NEW x, Asked(x), x.req.cmd = "quit"
  PROVE  Fits(s, x, cmd_quit(s))
<1> DEFINE t == close_after_reply(s)
<1>1. t \in SessStates /\ t.db = s.db /\ t.authed = s.authed /\ t.proto = s.proto /\ t.name = s.name
      /\ t.flags = s.flags \cup {"CLOSE_AFTER_REPLY"}
  BY DEF Fresh, SessStates, SessFlags, close_after_reply
<1> HIDE DEF t
<1>2. Earned(s, x, <<"OK">>)
  BY PlainEarned DEF NoAuthCommands
<1>3. ~GrantsAuth(x) /\ ~Resets(x) /\ ~HelloDoneAs(x, s.authed) /\ ~NamesItselfAs(x, s.authed)
      /\ (\A w : ~SaysAs(x, s.authed, w)) /\ ~SelectsAs(x, s.authed) /\ ClosesAs(x, s.authed)
  BY DEF GrantsAuth, Resets, HelloDoneAs, NamesItselfAs, SaysAs, SessSub, SessIs, ClosesAs, SelectsAs
<1>4. FlagsFollow(s, x, t)
  BY <1>1, <1>3 DEF FlagsFollow, Fresh, OffNext, UnmutesAs
<1>5. t.authed <=> AuthedNext(x, s.authed)
  BY <1>1, <1>3 DEF AuthedNext, DropsAuth
<1>6. t.proto = ProtoNext(x, s.authed, s.proto) /\ t.name = NameNext(x, s.authed, s.name)
      /\ t.db = DbNext(x, s.authed, s.db)
  BY <1>1, <1>3 DEF ProtoNext, NameNext, DbNext
<1>7. Follows(s, x, t)
  BY <1>1, <1>4, <1>5, <1>6 DEF Follows
<1>8. ~Quiet(x, s.authed)
  BY <1>3 DEF Quiet
<1>9. QED
  BY <1>2, <1>7, <1>8, FollowsReplies DEF cmd_quit, t

LEMMA SingleIs ==
  ASSUME NEW g \in Seq(STRING), NEW p
  PROVE  g = <<p>> <=> Len(g) = 1 /\ g[1] = p
<1>1. g = <<p>> => Len(g) = 1 /\ g[1] = p
  OBVIOUS
<1>2. ASSUME Len(g) = 1, g[1] = p PROVE g = <<p>>
  BY <1>2
<1>3. QED
  BY <1>1, <1>2

LEMMA PairIs ==
  ASSUME NEW g \in Seq(STRING), NEW p, NEW q
  PROVE  g = <<p, q>> <=> Len(g) = 2 /\ g[1] = p /\ g[2] = q
<1>1. g = <<p, q>> => Len(g) = 2 /\ g[1] = p /\ g[2] = q
  OBVIOUS
<1>2. ASSUME Len(g) = 2, g[1] = p, g[2] = q PROVE g = <<p, q>>
  BY <1>2
<1>3. QED
  BY <1>1, <1>2

LEMMA TextsNotNil == \A w \in STRING : w # Nil
  BY SessConstants

LEMMA AuthFits ==
  ASSUME NEW s, Fresh(s), NEW x, Asked(x), x.req.cmd = "auth", Len(x.req.args) # 0
  PROVE  Fits(s, x, cmd_auth(s, x.req.args, x.pass))
<1> DEFINE g == x.req.args
           user == IF Len(g) = 2 THEN g[1] ELSE Nil
           e == check_auth(x.pass, user, g[Len(g)])
<1>1. \A r : Earned(s, x, r)
  BY PlainEarned DEF NoAuthCommands
<1>2. "auth" # Nil
  BY SessConstants, ServedKnown
<1>3. ~Resets(x) /\ ~HelloDoneAs(x, s.authed) /\ ~NamesItselfAs(x, s.authed) /\ ~SelectsAs(x, s.authed)
      /\ (\A w : ~SaysAs(x, s.authed, w)) /\ ~ClosesAs(x, s.authed)
  BY <1>2 DEF Resets, HelloDoneAs, NamesItselfAs, SaysAs, SessSub, SessIs, ClosesAs, SelectsAs
<1>4. g \in Seq(STRING) /\ Len(g) \in Nat /\ Len(g) # 0
  BY DEF Asked, SessFine
<1>5. GrantsAuth(x) <=> /\ x.pass # Nil
                        /\ \/ Len(g) = 1 /\ g[1] = x.pass
                           \/ Len(g) = 2 /\ g[1] = "default" /\ g[2] = x.pass
  <2>1. GrantsAuth(x) <=> x.pass # Nil /\ (g = <<x.pass>> \/ g = <<"default", x.pass>>)
    BY DEF GrantsAuth, SessIs
  <2> HIDE DEF g
  <2>2. g = <<x.pass>> <=> Len(g) = 1 /\ g[1] = x.pass
    BY <1>4, SingleIs
  <2>3. g = <<"default", x.pass>> <=> Len(g) = 2 /\ g[1] = "default" /\ g[2] = x.pass
    BY <1>4, PairIs
  <2>4. QED
    BY <2>1, <2>2, <2>3
<1>6. GrantsAuth(x) <=> ~(Len(g) > 2) /\ e = Nil
  <2>1. "NoPasswordSet" # Nil /\ "WrongPass" # Nil
    BY SessConstants DEF SessErrors
  <2>2. e = Nil <=> x.pass # Nil /\ user \in {Nil, "default"} /\ g[Len(g)] = x.pass
    BY <2>1 DEF check_auth
  <2>3. Len(g) = 2 => g[1] # Nil
    <3>1. Len(g) = 2 => g[1] \in STRING
      BY <1>4
    <3>2. QED
      BY <3>1, TextsNotNil
  <2>4. (Len(g) = 2 => user = g[1]) /\ (Len(g) # 2 => user = Nil)
    OBVIOUS
  <2> HIDE DEF g, e, user
  <2>5. CASE Len(g) = 1
    BY <1>5, <2>2, <2>4, <2>5
  <2>6. CASE Len(g) = 2
    <3>1. ~(Len(g) > 2) /\ Len(g) # 1 /\ g[Len(g)] = g[2] /\ user = g[1] /\ g[1] # Nil
      BY <2>3, <2>4, <2>6
    <3>2. e = Nil <=> x.pass # Nil /\ g[1] = "default" /\ g[2] = x.pass
      BY <2>2, <3>1
    <3>3. QED
      BY <1>5, <2>6, <3>1, <3>2
  <2>7. CASE Len(g) > 2
    <3>1. \A k \in Nat : k > 2 => k # 1 /\ k # 2
      OBVIOUS
    <3>2. Len(g) # 1 /\ Len(g) # 2
      BY <1>4, <2>7, <3>1
    <3>3. QED
      BY <1>5, <2>7, <3>2
  <2>8. Len(g) = 1 \/ Len(g) = 2 \/ Len(g) > 2
    <3>1. \A k \in Nat : k # 0 => k = 1 \/ k = 2 \/ k > 2
      OBVIOUS
    <3>2. QED
      BY <1>4, <3>1
  <2>9. QED
    BY <1>4, <2>5, <2>6, <2>7, <2>8
<1>7. CASE ~GrantsAuth(x)
  <2>1. Idle(x, s.authed)
    BY <1>3, <1>7 DEF Idle
  <2>2. e \in SessErrors \cup {Nil}
    BY DEF check_auth, SessErrors
  <2>3. Fits(s, x, Fails(s, "WrongArity"))
    BY <1>1, <2>1, IdleFails DEF SessErrors
  <2>4. e # Nil => Fits(s, x, Fails(s, e))
    <3> HIDE DEF e
    <3>1. QED
      BY <1>1, <2>1, <2>2, IdleFails
  <2>5. cmd_auth(s, g, x.pass) = IF Len(g) > 2 THEN Fails(s, "WrongArity") ELSE Fails(s, e)
    BY <1>6, <1>7 DEF cmd_auth
  <2>6. QED
    <3> HIDE DEF e
    <3>1. QED
      BY <1>6, <1>7, <2>3, <2>4, <2>5
<1>8. CASE GrantsAuth(x)
  <2> DEFINE t == [s EXCEPT !.authed = TRUE]
  <2>1. cmd_auth(s, g, x.pass) = Replies(t, <<"OK">>)
    BY <1>6, <1>8 DEF cmd_auth
  <2>2. t \in SessStates /\ t.db = s.db /\ t.proto = s.proto /\ t.name = s.name /\ t.flags = s.flags
    BY DEF Fresh, SessStates
  <2>3. t.authed
    BY DEF Fresh, SessStates
  <2> HIDE DEF t
  <2>4. FlagsFollow(s, x, t)
    BY <1>3, <2>2 DEF FlagsFollow, Fresh, OffNext, UnmutesAs
  <2>5. t.authed <=> AuthedNext(x, s.authed)
    BY <1>8, <2>3 DEF AuthedNext
  <2>6. t.proto = ProtoNext(x, s.authed, s.proto) /\ t.name = NameNext(x, s.authed, s.name)
        /\ t.db = DbNext(x, s.authed, s.db)
    BY <1>3, <2>2 DEF ProtoNext, NameNext, DbNext
  <2>7. Follows(s, x, t)
    BY <2>2, <2>4, <2>5, <2>6 DEF Follows
  <2>8. ~Quiet(x, s.authed)
    BY <1>3 DEF Quiet
  <2>9. QED
    BY <1>1, <2>1, <2>7, <2>8, FollowsReplies
<1>9. QED
  BY <1>7, <1>8

LEMMA ResetFits ==
  ASSUME NEW s, Fresh(s), NEW x, Asked(x), x.req.cmd = "reset", Len(x.req.args) = 0
  PROVE  Fits(s, x, cmd_reset(s, x.pass))
<1> DEFINE t == [s EXCEPT !.db = 0, !.proto = RESP2, !.name = "",
                          !.flags = @ \ {"MULTI", "DIRTY_CAS", "DIRTY_EXEC", "MONITOR",
                                         "REPLY_OFF", "REPLY_SKIP", "REPLY_SKIP_NEXT"},
                          !.authed = @ /\ x.pass = Nil]
<1>1. Earned(s, x, <<"RESET">>)
  BY PlainEarned DEF NoAuthCommands
<1>2. Resets(x)
  <2>1. x.req.args = <<>>
    BY DEF Asked, SessFine
  <2>2. QED
    BY <2>1 DEF Resets, SessIs
<1>3. "reset" # Nil
  BY SessConstants, ServedKnown
<1>4. ~GrantsAuth(x) /\ ~HelloDoneAs(x, s.authed) /\ ~NamesItselfAs(x, s.authed) /\ ~SelectsAs(x, s.authed)
      /\ (\A w : ~SaysAs(x, s.authed, w)) /\ ~ClosesAs(x, s.authed)
  BY <1>3 DEF GrantsAuth, HelloDoneAs, NamesItselfAs, SaysAs, SessSub, SessIs, ClosesAs, SelectsAs
<1>5. t \in SessStates
  BY DEF Fresh, SessStates, SessFlags, Names
<1>6. t.db = 0 /\ t.proto = RESP2 /\ t.name = ""
      /\ t.flags = s.flags \ {"MULTI", "DIRTY_CAS", "DIRTY_EXEC", "MONITOR",
                              "REPLY_OFF", "REPLY_SKIP", "REPLY_SKIP_NEXT"}
  BY DEF Fresh, SessStates
<1>7. t.authed = (s.authed /\ x.pass = Nil)
  BY DEF Fresh, SessStates
<1>8. cmd_reset(s, x.pass) = Replies(t, <<"RESET">>)
  BY DEF cmd_reset
<1> HIDE DEF t
<1>9. FlagsFollow(s, x, t)
  BY <1>2, <1>4, <1>6 DEF FlagsFollow, Fresh, OffNext, UnmutesAs
<1>10. t.authed <=> AuthedNext(x, s.authed)
  BY <1>2, <1>4, <1>7 DEF AuthedNext, DropsAuth
<1>11. t.proto = ProtoNext(x, s.authed, s.proto) /\ t.name = NameNext(x, s.authed, s.name)
       /\ t.db = DbNext(x, s.authed, s.db)
  BY <1>2, <1>6 DEF ProtoNext, NameNext, NameGiven, DbNext
<1>12. Follows(s, x, t)
  BY <1>5, <1>9, <1>10, <1>11 DEF Follows
<1>13. ~Quiet(x, s.authed)
  BY <1>4 DEF Quiet
<1>14. QED
  BY <1>1, <1>8, <1>12, <1>13, FollowsReplies

ReplyFlags == {"REPLY_OFF", "REPLY_SKIP", "REPLY_SKIP_NEXT", "CLOSE_AFTER_REPLY"}

LEMMA IdleFollowsAside ==
  ASSUME NEW s, Fresh(s), NEW x, Idle(x, s.authed), NEW t \in SessStates,
         t.authed = s.authed, t.proto = s.proto, t.name = s.name, t.db = s.db,
         t.flags \cap ReplyFlags = s.flags \cap ReplyFlags
  PROVE  Follows(s, x, t)
<1>1. Follows(s, x, s)
  BY IdleFollows
<1>2. \A f \in ReplyFlags : f \in t.flags <=> f \in s.flags
  OBVIOUS
<1>3. FlagsFollow(s, x, t)
  BY <1>1, <1>2 DEF Follows, FlagsFollow, ReplyFlags
<1>4. QED
  BY <1>1, <1>3 DEF Follows

LEMMA ClientArities ==
  /\ DOMAIN ClientArity = {"id", "getname", "setname", "setinfo", "info", "noevict", "notouch",
                           "unpause", "reply"}
  /\ ClientArity["id"] = 1 /\ ClientArity["getname"] = 1 /\ ClientArity["setname"] = 2
  /\ ClientArity["setinfo"] = 3 /\ ClientArity["info"] = 1 /\ ClientArity["noevict"] = 2
  /\ ClientArity["notouch"] = 2 /\ ClientArity["unpause"] = 1 /\ ClientArity["reply"] = 2
  BY DEF ClientArity

(* What a CLIENT command is to the history, by its subcommand.             *)
ClientEvent(x, a) ==
  LET g == x.req.args
  IN /\ ~GrantsAuth(x) /\ ~Resets(x) /\ ~HelloDoneAs(x, a) /\ ~SelectsAs(x, a)
     /\ NamesItselfAs(x, a) <=> Len(g) = 2 /\ g[1] = "setname" /\ g[2] \notin SessBadNames
     /\ \A w : SaysAs(x, a, w) <=> Len(g) = 2 /\ g[1] = "reply" /\ g[2] = w
     /\ ClosesAs(x, a) <=> g[1] = "kill" /\ SessMe \in KillTargets(x.peers, x.req.filter)
     /\ SessSub(x, <<"info">>) <=> Len(g) = 1 /\ g[1] = "info"
     /\ SessSub(x, <<"getname">>) <=> Len(g) = 1 /\ g[1] = "getname"

Client(s, x) ==
  Fresh(s) /\ Asked(x) /\ x.req.cmd = "client" /\ s.authed /\ Len(x.req.args) # 0

LEMMA ClientIs ==
  ASSUME NEW s, NEW x, Client(s, x)
  PROVE  ClientEvent(x, s.authed)
<1> DEFINE g == x.req.args
<1>1. g \in Seq(STRING) /\ Len(g) # 0 /\ g # <<>> /\ s.authed /\ x.req.cmd = "client" /\ "client" # Nil
  BY SessConstants, ServedKnown DEF Client, Asked, SessFine
<1>2. ~GrantsAuth(x) /\ ~Resets(x) /\ ~HelloDoneAs(x, s.authed) /\ ~SelectsAs(x, s.authed)
  BY <1>1 DEF GrantsAuth, Resets, HelloDoneAs, SelectsAs, SessIs
<1>3. NamesItselfAs(x, s.authed) <=> Len(g) = 2 /\ g[1] = "setname" /\ g[2] \notin SessBadNames
  BY <1>1 DEF NamesItselfAs, SessIs
<1>4. ASSUME NEW w PROVE SaysAs(x, s.authed, w) <=> Len(g) = 2 /\ g[1] = "reply" /\ g[2] = w
  <2>1. SaysAs(x, s.authed, w) <=> g = <<"reply", w>>
    BY <1>1 DEF SaysAs, SessSub, SessIs
  <2> HIDE DEF g
  <2>2. g = <<"reply", w>> <=> Len(g) = 2 /\ g[1] = "reply" /\ g[2] = w
    BY <1>1, PairIs
  <2>3. QED
    BY <2>1, <2>2
<1>5. ClosesAs(x, s.authed) <=> g[1] = "kill" /\ SessMe \in KillTargets(x.peers, x.req.filter)
  BY <1>1 DEF ClosesAs, SessIs
<1>6. ASSUME NEW w PROVE SessSub(x, <<w>>) <=> Len(g) = 1 /\ g[1] = w
  <2>1. SessSub(x, <<w>>) <=> g = <<w>>
    BY <1>1 DEF SessSub, SessIs
  <2> HIDE DEF g
  <2>2. QED
    BY <1>1, <2>1, SingleIs
<1>7. QED
  BY <1>2, <1>3, <1>4, <1>5, <1>6 DEF ClientEvent

LEMMA ClientIdle ==
  ASSUME NEW s, NEW x, Client(s, x),
         x.req.args[1] \notin {"setname", "reply", "kill"}
         \/ (x.req.args[1] \in {"setname", "reply"} /\ Len(x.req.args) # 2)
  PROVE  Idle(x, s.authed)
<1>1. ClientEvent(x, s.authed)
  BY ClientIs
<1>2. QED
  BY <1>1 DEF Idle, ClientEvent

LEMMA ClientEarned ==
  ASSUME NEW s, NEW x, Client(s, x), NEW r,
         x.req.args[1] \notin {"info", "getname"} \/ Len(x.req.args) # 1
  PROVE  Earned(s, x, r)
<1>1. ClientEvent(x, s.authed)
  BY ClientIs
<1>2. x.req.cmd = "client" /\ s.authed
  BY DEF Client
<1>3. ~SessSub(x, <<"info">>) /\ ~SessSub(x, <<"getname">>)
  BY <1>1 DEF ClientEvent
<1>4. QED
  BY <1>2, <1>3 DEF Earned, SessIs

LEMMA ClientWrongArity ==
  ASSUME NEW s, NEW x, Client(s, x),
         x.req.args[1] \in DOMAIN ClientArity, Len(x.req.args) # ClientArity[x.req.args[1]]
  PROVE  Fits(s, x, Fails(s, "WrongArity"))
<1>1. Idle(x, s.authed)
  BY ClientArities, ClientIdle
<1>2. Earned(s, x, <<"error">>)
  BY ClientArities, ClientEarned
<1>3. QED
  BY <1>1, <1>2, IdleFails DEF SessErrors, Client

LEMMA ClientSetNameFits ==
  ASSUME NEW s, NEW x, Client(s, x), x.req.args[1] = "setname", Len(x.req.args) = 2
  PROVE  Fits(s, x, IF ValidName(x.req.args[2])
                    THEN Replies([s EXCEPT !.name = x.req.args[2]], <<"OK">>)
                    ELSE Fails(s, "BadName"))
<1>0. ClientEvent(x, s.authed) /\ Fresh(s)
  BY ClientIs DEF Client
<1>1. \A r : Earned(s, x, r)
  BY ClientEarned
<1>2. CASE ~ValidName(x.req.args[2])
  <2>1. Idle(x, s.authed)
    BY <1>0, <1>2 DEF Idle, ClientEvent, ValidName
  <2>2. Fits(s, x, Fails(s, "BadName"))
    BY <1>0, <1>1, <2>1, IdleFails DEF SessErrors
  <2>3. QED
    BY <1>2, <2>2
<1>3. CASE ValidName(x.req.args[2])
  <2> DEFINE t == [s EXCEPT !.name = x.req.args[2]]
  <2>1. x.req.args[2] \in STRING
    BY DEF Client, Asked, SessFine
  <2>2. t \in SessStates /\ t.db = s.db /\ t.authed = s.authed /\ t.proto = s.proto
        /\ t.name = x.req.args[2] /\ t.flags = s.flags
    BY <1>0, <2>1 DEF Fresh, SessStates, Names
  <2> HIDE DEF t
  <2>3. NamesItselfAs(x, s.authed) /\ ~Resets(x) /\ NameGiven(x) = x.req.args[2]
    BY <1>0, <1>3 DEF ClientEvent, ValidName, NameGiven, Client, SessIs
  <2>4. FlagsFollow(s, x, t)
    BY <1>0, <2>2 DEF FlagsFollow, Fresh, OffNext, UnmutesAs, ClientEvent
  <2>5. t.authed <=> AuthedNext(x, s.authed)
    BY <1>0, <2>2 DEF AuthedNext, DropsAuth, ClientEvent
  <2>6. t.proto = ProtoNext(x, s.authed, s.proto) /\ t.name = NameNext(x, s.authed, s.name)
        /\ t.db = DbNext(x, s.authed, s.db)
    BY <1>0, <2>2, <2>3 DEF ProtoNext, NameNext, DbNext, ClientEvent
  <2>7. Follows(s, x, t)
    BY <2>2, <2>4, <2>5, <2>6 DEF Follows
  <2>8. ~Quiet(x, s.authed)
    BY <1>0 DEF Quiet, ClientEvent
  <2>9. Fits(s, x, Replies(t, <<"OK">>))
    BY <1>1, <2>7, <2>8, FollowsReplies
  <2>10. QED
    BY <1>3, <2>9 DEF t
<1>4. QED
  BY <1>2, <1>3

LEMMA ClientSetInfoFits ==
  ASSUME NEW s, NEW x, Client(s, x), x.req.args[1] = "setinfo", Len(x.req.args) = 3
  PROVE  Fits(s, x, IF ~ValidName(x.req.args[3]) THEN Fails(s, "BadName")
                    ELSE IF x.req.args[2] \notin LibFields THEN Fails(s, "BadOption")
                    ELSE Replies([s EXCEPT !.lib[x.req.args[2]] = x.req.args[3]], <<"OK">>))
<1>0. Fresh(s)
  BY DEF Client
<1>1. \A r : Earned(s, x, r)
  BY ClientEarned
<1>2. Idle(x, s.authed)
  BY ClientIdle
<1>3. Fits(s, x, Fails(s, "BadName")) /\ Fits(s, x, Fails(s, "BadOption"))
  BY <1>0, <1>1, <1>2, IdleFails DEF SessErrors
<1>4. ASSUME x.req.args[2] \in LibFields
      PROVE  Fits(s, x, Replies([s EXCEPT !.lib[x.req.args[2]] = x.req.args[3]], <<"OK">>))
  <2> DEFINE t == [s EXCEPT !.lib[x.req.args[2]] = x.req.args[3]]
  <2>1. x.req.args[3] \in STRING
    BY DEF Client, Asked, SessFine
  <2>2. t \in SessStates
    BY <1>0, <1>4, <2>1 DEF Fresh, SessStates, Names
  <2>3. t.db = s.db /\ t.authed = s.authed /\ t.proto = s.proto /\ t.name = s.name /\ t.flags = s.flags
    BY <1>0 DEF Fresh, SessStates
  <2> HIDE DEF t
  <2>4. Follows(s, x, t)
    BY <1>0, <1>2, <2>2, <2>3, IdleFollowsAside
  <2>5. ~Quiet(x, s.authed)
    BY <1>2 DEF Idle, Quiet
  <2>6. Fits(s, x, Replies(t, <<"OK">>))
    BY <1>1, <2>4, <2>5, FollowsReplies
  <2>7. QED
    BY <2>6 DEF t
<1>5. QED
  BY <1>3, <1>4

LEMMA ClientFlagFits ==
  ASSUME NEW s, NEW x, Client(s, x), x.req.args[1] \in {"noevict", "notouch"},
         NEW f \in {"NO_EVICT", "NO_TOUCH"}, NEW w
  PROVE  Fits(s, x, set_flag(s, w, f))
<1>0. Fresh(s) /\ s \in SessStates
  BY DEF Client, Fresh
<1>1. \A r : Earned(s, x, r)
  BY ClientEarned
<1>2. Idle(x, s.authed)
  BY ClientIdle
<1>3. ~Quiet(x, s.authed)
  BY <1>2 DEF Idle, Quiet
<1>4. ASSUME NEW F \in SUBSET SessFlags, F \cap ReplyFlags = s.flags \cap ReplyFlags
      PROVE  Fits(s, x, Replies([s EXCEPT !.flags = F], <<"OK">>))
  <2> DEFINE t == [s EXCEPT !.flags = F]
  <2>1. t \in SessStates /\ t.db = s.db /\ t.authed = s.authed /\ t.proto = s.proto /\ t.name = s.name
        /\ t.flags = F
    BY <1>0 DEF SessStates
  <2> HIDE DEF t
  <2>2. Follows(s, x, t)
    BY <1>0, <1>2, <1>4, <2>1, IdleFollowsAside
  <2>3. Fits(s, x, Replies(t, <<"OK">>))
    BY <1>1, <1>3, <2>2, FollowsReplies
  <2>4. QED
    BY <2>3 DEF t
<1>5. s.flags \in SUBSET SessFlags
  BY <1>0 DEF SessStates
<1>6. CASE w = "on"
  <2>1. s.flags \cup {f} \in SUBSET SessFlags /\ (s.flags \cup {f}) \cap ReplyFlags = s.flags \cap ReplyFlags
    BY <1>5 DEF SessFlags, ReplyFlags
  <2>2. set_flag(s, w, f) = Replies([s EXCEPT !.flags = s.flags \cup {f}], <<"OK">>)
    BY <1>6 DEF set_flag
  <2>3. QED
    BY <1>4, <2>1, <2>2
<1>7. CASE w = "off"
  <2>1. s.flags \ {f} \in SUBSET SessFlags /\ (s.flags \ {f}) \cap ReplyFlags = s.flags \cap ReplyFlags
    BY <1>5 DEF SessFlags, ReplyFlags
  <2>2. set_flag(s, w, f) = Replies([s EXCEPT !.flags = s.flags \ {f}], <<"OK">>)
    BY <1>7 DEF set_flag
  <2>3. QED
    BY <1>4, <2>1, <2>2
<1>8. CASE w \notin {"on", "off"}
  <2>1. set_flag(s, w, f) = Fails(s, "Syntax")
    BY <1>8 DEF set_flag
  <2>2. QED
    BY <1>0, <1>1, <1>2, <2>1, IdleFails DEF SessErrors
<1>9. QED
  BY <1>6, <1>7, <1>8

LEMMA ClientReplyFits ==
  ASSUME NEW s, NEW x, Client(s, x), x.req.args[1] = "reply", Len(x.req.args) = 2
  PROVE  Fits(s, x, client_reply(s, x.req.args[2]))
<1> DEFINE w == x.req.args[2]
<1>0. Fresh(s) /\ s \in SessStates /\ ClientEvent(x, s.authed)
  BY ClientIs DEF Client, Fresh
<1>1. \A r : Earned(s, x, r)
  BY ClientEarned
<1>2. ~NamesItselfAs(x, s.authed) /\ ~ClosesAs(x, s.authed) /\ (\A v : SaysAs(x, s.authed, v) <=> w = v)
      /\ ~GrantsAuth(x) /\ ~Resets(x) /\ ~HelloDoneAs(x, s.authed) /\ ~SelectsAs(x, s.authed)
  BY <1>0 DEF ClientEvent
<1> HIDE DEF w
<1>3. s.flags \in SUBSET SessFlags
  BY <1>0 DEF SessStates
<1>4. ASSUME NEW F \in SUBSET SessFlags, \A t : t.flags = F => FlagsFollow(s, x, t)
      PROVE  Follows(s, x, [s EXCEPT !.flags = F])
  <2> DEFINE t == [s EXCEPT !.flags = F]
  <2>1. t \in SessStates /\ t.db = s.db /\ t.authed = s.authed /\ t.proto = s.proto /\ t.name = s.name
        /\ t.flags = F
    BY <1>0 DEF SessStates
  <2> HIDE DEF t
  <2>2. t.authed <=> AuthedNext(x, s.authed)
    BY <1>2, <2>1 DEF AuthedNext, DropsAuth
  <2>3. t.proto = ProtoNext(x, s.authed, s.proto) /\ t.name = NameNext(x, s.authed, s.name)
        /\ t.db = DbNext(x, s.authed, s.db)
    BY <1>2, <2>1 DEF ProtoNext, NameNext, DbNext
  <2>4. FlagsFollow(s, x, t)
    BY <1>4, <2>1
  <2>5. Follows(s, x, t)
    BY <2>1, <2>2, <2>3, <2>4 DEF Follows
  <2>6. QED
    BY <2>5 DEF t
<1>5. CASE w = "on"
  <2> DEFINE F == s.flags \ {"REPLY_OFF", "REPLY_SKIP", "REPLY_SKIP_NEXT"}
  <2>1. \A t : t.flags = F => FlagsFollow(s, x, t)
    BY <1>0, <1>2, <1>5 DEF FlagsFollow, Fresh, OffNext, UnmutesAs
  <2>2. F \in SUBSET SessFlags
    BY <1>3
  <2>3. client_reply(s, w) = Replies([s EXCEPT !.flags = F], <<"OK">>)
    BY <1>5 DEF client_reply
  <2> HIDE DEF F
  <2>4. Follows(s, x, [s EXCEPT !.flags = F])
    BY <1>4, <2>1, <2>2
  <2>5. ~Quiet(x, s.authed)
    BY <1>2, <1>5 DEF Quiet
  <2>6. QED
    BY <1>1, <2>3, <2>4, <2>5, FollowsReplies DEF w
<1>6. CASE w = "off"
  <2> DEFINE F == s.flags \cup {"REPLY_OFF"}
  <2>1. \A t : t.flags = F => FlagsFollow(s, x, t)
    BY <1>0, <1>2, <1>6 DEF FlagsFollow, Fresh, OffNext, UnmutesAs
  <2>2. F \in SUBSET SessFlags
    BY <1>3 DEF SessFlags
  <2>3. client_reply(s, w) = NoReply([s EXCEPT !.flags = F])
    BY <1>6 DEF client_reply
  <2> HIDE DEF F
  <2>4. Follows(s, x, [s EXCEPT !.flags = F])
    BY <1>4, <2>1, <2>2
  <2>5. Quiet(x, s.authed)
    BY <1>2, <1>6 DEF Quiet
  <2>6. QED
    BY <2>3, <2>4, <2>5, FollowsNoReply DEF w
<1>7. CASE w = "skip"
  <2> DEFINE F == IF "REPLY_OFF" \in s.flags THEN s.flags ELSE s.flags \cup {"REPLY_SKIP_NEXT"}
  <2>1. \A t : t.flags = F => FlagsFollow(s, x, t)
    BY <1>0, <1>2, <1>7 DEF FlagsFollow, Fresh, OffNext, UnmutesAs
  <2>2. F \in SUBSET SessFlags
    BY <1>3 DEF SessFlags
  <2>3. client_reply(s, w) = NoReply([s EXCEPT !.flags = F])
    <3>1. "REPLY_OFF" \in s.flags => [s EXCEPT !.flags = F] = s
      BY <1>0 DEF SessStates
    <3>2. QED
      BY <1>7, <3>1 DEF client_reply
  <2> HIDE DEF F
  <2>4. Follows(s, x, [s EXCEPT !.flags = F])
    BY <1>4, <2>1, <2>2
  <2>5. Quiet(x, s.authed)
    BY <1>2, <1>7 DEF Quiet
  <2>6. QED
    BY <2>3, <2>4, <2>5, FollowsNoReply DEF w
<1>8. CASE w \notin {"on", "off", "skip"}
  <2>1. Idle(x, s.authed)
    BY <1>2, <1>8 DEF Idle
  <2>2. client_reply(s, w) = Fails(s, "Syntax")
    BY <1>8 DEF client_reply
  <2>3. QED
    BY <1>0, <1>1, <2>1, <2>2, IdleFails DEF SessErrors, w
<1>9. QED
  BY <1>5, <1>6, <1>7, <1>8

LEMMA ClientKillFits ==
  ASSUME NEW s, NEW x, Client(s, x), x.req.args[1] = "kill"
  PROVE  Fits(s, x, client_kill(s, x.peers, x.req.filter))
<1> DEFINE f == x.req.filter
           hit == KillTargets(x.peers, f)
           after == IF \E c \in hit : c.id = SessMe.id THEN close_after_reply(s) ELSE s
<1>0. Fresh(s) /\ s \in SessStates /\ ClientEvent(x, s.authed)
  BY ClientIs DEF Client, Fresh
<1>1. \A r : Earned(s, x, r)
  BY ClientEarned
<1>2. ~NamesItselfAs(x, s.authed) /\ (\A v : ~SaysAs(x, s.authed, v))
      /\ ~GrantsAuth(x) /\ ~Resets(x) /\ ~HelloDoneAs(x, s.authed) /\ ~SelectsAs(x, s.authed)
      /\ (ClosesAs(x, s.authed) <=> SessMe \in hit)
  BY <1>0 DEF ClientEvent
<1>3. SessMe \in hit <=> \E c \in hit : c.id = SessMe.id
  <2>1. hit \subseteq x.peers \cup {SessMe}
    BY DEF KillTargets
  <2>2. \A p \in x.peers : p.id # SessMe.id
    BY SessConstants DEF Client, Asked
  <2> HIDE DEF hit
  <2>3. QED
    BY <2>1, <2>2
<1>4. Follows(s, x, after)
  <2>1. after \in SessStates /\ after.db = s.db /\ after.authed = s.authed /\ after.proto = s.proto
        /\ after.name = s.name
        /\ after.flags = s.flags \cup (IF SessMe \in hit THEN {"CLOSE_AFTER_REPLY"} ELSE {})
    <3> DEFINE t == close_after_reply(s)
    <3>1. t \in SessStates /\ t.db = s.db /\ t.authed = s.authed /\ t.proto = s.proto /\ t.name = s.name
          /\ t.flags = s.flags \cup {"CLOSE_AFTER_REPLY"}
      BY <1>0 DEF SessStates, SessFlags, close_after_reply
    <3>2. after = IF SessMe \in hit THEN t ELSE s
      BY <1>3
    <3> HIDE DEF t, hit, after
    <3>3. QED
      BY <1>0, <3>1, <3>2
  <2> HIDE DEF hit, after
  <2>2. after.authed <=> AuthedNext(x, s.authed)
    BY <1>2, <2>1 DEF AuthedNext, DropsAuth
  <2>3. after.proto = ProtoNext(x, s.authed, s.proto) /\ after.name = NameNext(x, s.authed, s.name)
        /\ after.db = DbNext(x, s.authed, s.db)
    BY <1>2, <2>1 DEF ProtoNext, NameNext, DbNext
  <2>4. FlagsFollow(s, x, after)
    BY <1>0, <1>2, <2>1 DEF FlagsFollow, Fresh, OffNext, UnmutesAs
  <2>5. QED
    BY <2>1, <2>2, <2>3, <2>4 DEF Follows
<1>5. ~Quiet(x, s.authed)
  BY <1>2 DEF Quiet
<1>6. \A r : Fits(s, x, Replies(after, r))
  <2> HIDE DEF after
  <2>1. QED
    BY <1>1, <1>4, <1>5, FollowsReplies
<1>7. hit = {} => Fits(s, x, Fails(s, "NoSuchClient"))
  <2> HIDE DEF hit
  <2>1. hit = {} => Idle(x, s.authed)
    BY <1>2 DEF Idle
  <2>2. QED
    BY <1>0, <1>1, <2>1, IdleFails DEF SessErrors
<1>8. client_kill(s, x.peers, f) =
        IF ~f.old THEN Replies(after, <<"int", Cardinality(hit)>>)
        ELSE IF hit = {} THEN Fails(s, "NoSuchClient")
        ELSE Replies(after, <<"OK">>)
  BY DEF client_kill
<1>9. QED
  <2> HIDE DEF hit, after
  <2>1. QED
    BY <1>6, <1>7, <1>8

LEMMA ClientFits ==
  ASSUME NEW s, NEW x, Client(s, x)
  PROVE  Fits(s, x, cmd_client(s, x.req, x.peers))
<1> DEFINE g == x.req.args
           sub == g[1]
           ran == cmd_client(s, x.req, x.peers)
<1>1. CASE sub \in DOMAIN ClientArity /\ Len(g) # ClientArity[sub]
  <2>1. ran = Fails(s, "WrongArity")
    BY <1>1 DEF cmd_client
  <2>2. QED
    BY <1>1, <2>1, ClientWrongArity
<1>2. CASE ~(sub \in DOMAIN ClientArity /\ Len(g) # ClientArity[sub])
  <2>0. Fresh(s) /\ s.authed
    BY DEF Client
  <2>1. CASE sub \in {"id", "unpause", "help", "list"}
    <3>1. \A r : Earned(s, x, r)
      BY <2>1, ClientEarned
    <3>2. Idle(x, s.authed)
      BY <2>1, ClientIdle
    <3>3. \A r : Fits(s, x, Replies(s, r))
      BY <2>0, <3>1, <3>2, IdleReplies
    <3>4. sub = "id" => ran = Replies(s, <<"int", SessMe.id>>)
      BY <1>2 DEF cmd_client
    <3>5. sub = "unpause" => ran = Replies(s, <<"OK">>)
      BY <1>2 DEF cmd_client
    <3>6. sub = "help" => ran = Replies(s, <<"help">>)
      BY <1>2 DEF cmd_client
    <3>7. sub = "list" => ran = client_list(s, x.peers, x.req.filter)
      BY <1>2 DEF cmd_client
    <3>8. QED
      BY <2>1, <3>3, <3>4, <3>5, <3>6, <3>7 DEF client_list
  <2>2. CASE sub \in {"info", "getname"}
    <3>1. Len(g) = 1
      BY <1>2, <2>2, ClientArities
    <3>2. Idle(x, s.authed)
      BY <2>2, ClientIdle
    <3>3. ClientEvent(x, s.authed) /\ x.req.cmd = "client"
      BY ClientIs DEF Client
    <3>4. CASE sub = "info"
      <4> DEFINE r == <<"info", [db |-> s.db, resp |-> s.proto, name |-> s.name]>>
      <4>1. ran = Replies(s, r)
        BY <1>2, <3>4 DEF cmd_client, self_snapshot, refresh_from
      <4> HIDE DEF ran
      <4>2. Earned(s, x, r)
        BY <2>0, <3>3, <3>4 DEF Earned, ClientEvent, SessIs
      <4> HIDE DEF r
      <4>3. Fits(s, x, ran)
        BY <2>0, <3>2, <4>1, <4>2, IdleReplies
      <4>4. QED
        BY <4>3 DEF ran
    <3>5. CASE sub = "getname"
      <4> DEFINE r == IF s.name = "" THEN <<"null">> ELSE <<"bulk", s.name>>
      <4>1. ran = Replies(s, r)
        BY <1>2, <3>5 DEF cmd_client
      <4> HIDE DEF ran
      <4>2. Earned(s, x, r)
        BY <2>0, <3>3, <3>5 DEF Earned, ClientEvent, SessIs
      <4> HIDE DEF r
      <4>3. Fits(s, x, ran)
        BY <2>0, <3>2, <4>1, <4>2, IdleReplies
      <4>4. QED
        BY <4>3 DEF ran
    <3>6. QED
      BY <2>2, <3>4, <3>5
  <2>3. CASE sub = "setname"
    <3>1. Len(g) = 2
      BY <1>2, <2>3, ClientArities
    <3>2. ran = IF ValidName(g[2]) THEN Replies([s EXCEPT !.name = g[2]], <<"OK">>)
                ELSE Fails(s, "BadName")
      BY <1>2, <2>3 DEF cmd_client
    <3> HIDE DEF ran
    <3>3. Fits(s, x, ran)
      BY <2>3, <3>1, <3>2, ClientSetNameFits
    <3>4. QED
      BY <3>3 DEF ran
  <2>4. CASE sub = "setinfo"
    <3>1. Len(g) = 3
      BY <1>2, <2>4, ClientArities
    <3>2. ran = IF ~ValidName(g[3]) THEN Fails(s, "BadName")
                ELSE IF g[2] \notin LibFields THEN Fails(s, "BadOption")
                ELSE Replies([s EXCEPT !.lib[g[2]] = g[3]], <<"OK">>)
      BY <1>2, <2>4 DEF cmd_client
    <3> HIDE DEF ran
    <3>3. Fits(s, x, ran)
      BY <2>4, <3>1, <3>2, ClientSetInfoFits
    <3>4. QED
      BY <3>3 DEF ran
  <2>5. CASE sub \in {"noevict", "notouch"}
    <3>1. sub = "noevict" => ran = set_flag(s, g[2], "NO_EVICT")
      BY <1>2 DEF cmd_client
    <3>2. sub = "notouch" => ran = set_flag(s, g[2], "NO_TOUCH")
      BY <1>2 DEF cmd_client
    <3>3. QED
      BY <2>5, <3>1, <3>2, ClientFlagFits
  <2>6. CASE sub = "reply"
    <3>1. Len(g) = 2
      BY <1>2, <2>6, ClientArities
    <3>2. ran = client_reply(s, g[2])
      BY <1>2, <2>6 DEF cmd_client
    <3>3. QED
      BY <2>6, <3>1, <3>2, ClientReplyFits
  <2>7. CASE sub = "kill"
    <3>1. ran = client_kill(s, x.peers, x.req.filter)
      BY <1>2, <2>7 DEF cmd_client
    <3>2. QED
      BY <2>7, <3>1, ClientKillFits
  <2>8. CASE sub \notin {"id", "unpause", "help", "list", "info", "getname", "setname", "setinfo",
                         "noevict", "notouch", "reply", "kill"}
    <3>1. ran = Fails(s, "UnknownSubcommand")
      BY <1>2, <2>8 DEF cmd_client
    <3>2. Idle(x, s.authed) /\ Earned(s, x, <<"error">>)
      BY <2>8, ClientIdle, ClientEarned
    <3>3. QED
      BY <2>0, <3>1, <3>2, IdleFails DEF SessErrors
  <2>9. QED
    BY <2>1, <2>2, <2>3, <2>4, <2>5, <2>6, <2>7, <2>8
<1>3. QED
  BY <1>1, <1>2

(* HELLO, option by option.                                                *)
HelloRuns == [s : SessStates, out : {<<>>}, err : SessErrors \cup {Nil}]
HelloShape(o) ==
  /\ o \in Seq(STRING) /\ o # <<>>
  /\ o[1] = "AUTH" => Len(o) = 3
  /\ o[1] = "SETNAME" => Len(o) = 2

LEMMA CheckAuthIs ==
  ASSUME NEW pass, NEW user, NEW given
  PROVE  /\ check_auth(pass, user, given) \in SessErrors \cup {Nil}
         /\ check_auth(pass, user, given) = Nil <=>
              pass # Nil /\ user \in {Nil, "default"} /\ given = pass
<1>1. "NoPasswordSet" # Nil /\ "WrongPass" # Nil
  BY SessConstants DEF SessErrors
<1>2. QED
  BY <1>1 DEF check_auth, SessErrors

LEMMA HelloOptionRuns ==
  ASSUME NEW acc \in HelloRuns, NEW o, HelloShape(o), NEW pass
  PROVE  HelloOption(acc, o, pass) \in HelloRuns
<1> DEFINE e == check_auth(pass, o[2], o[3])
<1>1. e \in SessErrors \cup {Nil}
  BY CheckAuthIs
<1>2. acc.s \in SessStates
  BY DEF HelloRuns
<1>3. \A t \in SessStates, f \in SessErrors : Fails(t, f) \in HelloRuns
  BY DEF Fails, HelloRuns
<1>4. \A t \in SessStates : NoReply(t) \in HelloRuns
  BY DEF NoReply, HelloRuns
<1>5. [acc.s EXCEPT !.authed = TRUE] \in SessStates
  BY <1>2 DEF SessStates
<1>6. o[1] = "SETNAME" => [acc.s EXCEPT !.name = o[2]] \in SessStates
  <2>1. ASSUME o[1] = "SETNAME" PROVE o[2] \in STRING
    <3>1. o \in Seq(STRING) /\ Len(o) = 2
      BY <2>1 DEF HelloShape
    <3>2. QED
      BY <3>1
  <2>2. QED
    BY <1>2, <2>1 DEF SessStates, Names
<1>7. HelloOption(acc, o, pass) =
        IF acc.err # Nil THEN acc
        ELSE IF o[1] = "AUTH" THEN IF e # Nil THEN Fails(acc.s, e)
                                   ELSE NoReply([acc.s EXCEPT !.authed = TRUE])
        ELSE IF o[1] # "SETNAME" THEN Fails(acc.s, "UnknownArgument")
        ELSE IF ValidName(o[2]) THEN NoReply([acc.s EXCEPT !.name = o[2]])
        ELSE Fails(acc.s, "BadName")
  BY DEF HelloOption
<1> HIDE DEF e
<1>8. "UnknownArgument" \in SessErrors /\ "BadName" \in SessErrors
  BY DEF SessErrors
<1>9. QED
  BY <1>1, <1>2, <1>3, <1>4, <1>5, <1>6, <1>7, <1>8

HelloRun(s, opts, pass, g) ==
  /\ g[0] = NoReply(s)
  /\ \A k \in 0 .. Len(opts) : g[k] \in HelloRuns
  /\ \A k \in 0 .. Len(opts) - 1 : g[k + 1] = HelloOption(g[k], opts[k + 1], pass)

LEMMA HelloOptionsRun ==
  ASSUME NEW s \in SessStates, NEW opts \in Seq(Seq(STRING)), NEW pass,
         \A i \in DOMAIN opts : HelloShape(opts[i])
  PROVE  HelloRun(s, opts, pass, HelloOptions(s, opts, pass))
<1> DEFINE len == Len(opts)
           A == HelloRuns
           a == NoReply(s)
           step == [p \in Nat \X A |-> IF p[1] < len THEN HelloOption(p[2], opts[p[1] + 1], pass) ELSE p[2]]
<1>0. len \in Nat /\ \A i \in 1 .. len : HelloShape(opts[i])
  OBVIOUS
<1>1. a \in A
  BY DEF NoReply, HelloRuns
<1> HIDE DEF a, len, A
<1>2. step \in [Nat \X A -> A]
      /\ \A n \in Nat, v \in A : n < len => step[<<n, v>>] = HelloOption(v, opts[n + 1], pass)
  <2>1. \A n \in Nat, v \in A : (IF n < len THEN HelloOption(v, opts[n + 1], pass) ELSE v) \in A
    <3>1. \A n \in Nat : n < len => n + 1 \in 1 .. len
      BY <1>0
    <3>2. QED
      BY <1>0, <3>1, HelloOptionRuns DEF A
  <2>2. QED
    BY <2>1
<1> HIDE DEF step
<1>3. PICK g \in [Nat -> A] : g[0] = a /\ \A n \in Nat : g[n + 1] = step[<<n, g[n]>>]
  <2>1. Unrolls(A, a, step)
    BY <1>1, <1>2, Recursion
  <2>2. QED
    BY <2>1 DEF Unrolls
<1>4. \A n \in Nat : g[n] \in A /\ (n < len => g[n + 1] = HelloOption(g[n], opts[n + 1], pass))
  BY <1>2, <1>3
<1> DEFINE Q(h) == h = [k \in 0 .. Len(opts) |->
                          IF k = 0 THEN NoReply(s) ELSE HelloOption(h[k - 1], opts[k], pass)]
           h0 == CHOOSE h : Q(h)
           f == [n \in 0 .. len |-> g[n]]
<1>5. Q(f)
  <2>1. ASSUME NEW n \in 0 .. len
        PROVE  g[n] = IF n = 0 THEN NoReply(s) ELSE HelloOption(f[n - 1], opts[n], pass)
    <3>1. CASE n = 0
      BY <1>3, <3>1 DEF a
    <3>2. CASE n # 0
      <4>1. n - 1 \in Nat /\ (n - 1) + 1 = n /\ n - 1 \in 0 .. len /\ n - 1 < len
        BY <1>0, <3>2
      <4>2. g[n] = HelloOption(g[n - 1], opts[n], pass)
        <5>1. g[(n - 1) + 1] = HelloOption(g[n - 1], opts[(n - 1) + 1], pass)
          BY <1>4, <4>1
        <5>2. QED
          BY <4>1, <5>1
      <4>3. f[n - 1] = g[n - 1]
        BY <4>1
      <4> HIDE DEF f
      <4>4. QED
        BY <3>2, <4>2, <4>3
    <3>3. QED
      BY <3>1, <3>2
  <2>2. f = [n \in 0 .. len |-> IF n = 0 THEN NoReply(s) ELSE HelloOption(f[n - 1], opts[n], pass)]
    BY <2>1
  <2>3. QED
    <3> HIDE DEF f
    <3>1. QED
      BY <2>2 DEF len
<1>6. Q(h0)
  <2> HIDE DEF f, Q
  <2>1. QED
    BY <1>5
<1>7. HelloOptions(s, opts, pass) = h0
  BY DEF HelloOptions
<1> HIDE DEF h0
<1>8. /\ \A k \in 0 .. len : h0[k] = IF k = 0 THEN NoReply(s) ELSE HelloOption(h0[k - 1], opts[k], pass)
  BY <1>6 DEF len
<1>9. h0[0] = NoReply(s)
  BY <1>0, <1>8
<1>10. ASSUME NEW k \in 0 .. len - 1 PROVE h0[k + 1] = HelloOption(h0[k], opts[k + 1], pass)
  <2>1. k + 1 \in 0 .. len /\ k + 1 # 0 /\ (k + 1) - 1 = k
    BY <1>0
  <2>2. QED
    BY <1>8, <2>1
<1>11. \A k \in 0 .. len : h0[k] \in HelloRuns
  <2> DEFINE S == {k \in Nat : k <= len => h0[k] \in HelloRuns}
  <2>1. 0 \in S
    BY <1>1, <1>9 DEF a, A
  <2>2. ASSUME NEW k \in Nat, k \in S PROVE k + 1 \in S
    <3>1. CASE k + 1 <= len
      <4>1. k \in 0 .. len - 1 /\ k <= len /\ k + 1 \in 1 .. len
        BY <1>0, <3>1
      <4>2. h0[k] \in HelloRuns
        BY <2>2, <4>1
      <4>3. h0[k + 1] \in HelloRuns
        BY <1>0, <1>10, <4>1, <4>2, HelloOptionRuns
      <4>4. QED
        BY <4>3
    <3>2. CASE ~(k + 1 <= len)
      BY <3>2
    <3>3. QED
      BY <3>1, <3>2
  <2> HIDE DEF S
  <2>3. \A k \in Nat : k \in S
    BY <2>1, <2>2, Induction
  <2>4. QED
    BY <1>0, <2>3 DEF S
<1>12. HelloRun(s, opts, pass, h0)
  BY <1>9, <1>10, <1>11 DEF HelloRun, len
<1>13. QED
  BY <1>7, <1>12

(* The first k options are fine; those among them that name the client.    *)
FineTo(x, k) == \A i \in 1 .. k : OptionFine(x, x.req.opts[i])
DoneTo(x, k, kind) == {i \in 1 .. k : x.req.opts[i][1] = kind /\ FineTo(x, i)}

HelloUpTo(s, x, k, acc) ==
  /\ acc.err = Nil <=> FineTo(x, k)
  /\ acc.s.authed <=> s.authed \/ DoneTo(x, k, "AUTH") # {}
  /\ acc.s.name = IF DoneTo(x, k, "SETNAME") = {} THEN s.name
                  ELSE x.req.opts[Seqs!Max(DoneTo(x, k, "SETNAME"))][2]
  /\ acc.s.db = s.db /\ acc.s.proto = s.proto /\ acc.s.flags = s.flags

Hello(s, x) == Fresh(s) /\ Asked(x) /\ x.req.cmd = "hello"

LEMMA HelloIs ==
  ASSUME NEW s, NEW x, Hello(s, x)
  PROVE  /\ x.req.opts \in Seq(Seq(STRING)) /\ \A i \in DOMAIN x.req.opts : HelloShape(x.req.opts[i])
         /\ s \in SessStates
<1>1. x.req.opts \in Seq(Seq(STRING))
  BY DEF Hello, Asked, SessFine
<1>2. \A i \in DOMAIN x.req.opts : x.req.opts[i] \in Seq(STRING)
  BY <1>1
<1>3. QED
  BY <1>1, <1>2 DEF Hello, Asked, SessFine, HelloShape, Fresh

LEMMA DoneToGrows ==
  ASSUME NEW x, NEW k \in Nat, NEW kind
  PROVE  /\ FineTo(x, k + 1) <=> FineTo(x, k) /\ OptionFine(x, x.req.opts[k + 1])
         /\ DoneTo(x, k + 1, kind) = DoneTo(x, k, kind) \cup
              (IF x.req.opts[k + 1][1] = kind /\ FineTo(x, k + 1) THEN {k + 1} ELSE {})
         /\ DoneTo(x, k, kind) \in SUBSET (1 .. k)
         /\ x.req.opts[k + 1][1] = kind /\ FineTo(x, k + 1) => Seqs!Max(DoneTo(x, k + 1, kind)) = k + 1
<1>1. 1 .. k + 1 = (1 .. k) \cup {k + 1}
  OBVIOUS
<1>2. FineTo(x, k + 1) <=> FineTo(x, k) /\ OptionFine(x, x.req.opts[k + 1])
  BY <1>1 DEF FineTo
<1>3. DoneTo(x, k + 1, kind) = DoneTo(x, k, kind) \cup
        (IF x.req.opts[k + 1][1] = kind /\ FineTo(x, k + 1) THEN {k + 1} ELSE {})
  BY <1>1 DEF DoneTo
<1>4. DoneTo(x, k, kind) \in SUBSET (1 .. k)
  BY DEF DoneTo
<1>5. ASSUME x.req.opts[k + 1][1] = kind, FineTo(x, k + 1)
      PROVE  Seqs!Max(DoneTo(x, k + 1, kind)) = k + 1
  <2>1. k + 1 \in DoneTo(x, k + 1, kind)
    BY <1>3, <1>5
  <2>2. DoneTo(x, k + 1, kind) \in SUBSET (1 .. k + 1) /\ k + 1 \in Nat
    BY DEF DoneTo
  <2>3. QED
    BY <2>1, <2>2, MaxTop
<1>6. QED
  BY <1>2, <1>3, <1>4, <1>5

LEMMA HelloOptionUpTo ==
  ASSUME NEW s, NEW x, Hello(s, x), NEW k \in 0 .. Len(x.req.opts) - 1,
         NEW acc \in HelloRuns, HelloUpTo(s, x, k, acc)
  PROVE  HelloUpTo(s, x, k + 1, HelloOption(acc, x.req.opts[k + 1], x.pass))
<1> DEFINE o == x.req.opts[k + 1]
           e == check_auth(x.pass, o[2], o[3])
           next == HelloOption(acc, o, x.pass)
<1>0. k \in Nat /\ HelloShape(o) /\ acc.s \in SessStates
  <2>1. x.req.opts \in Seq(Seq(STRING)) /\ \A i \in DOMAIN x.req.opts : HelloShape(x.req.opts[i])
    BY HelloIs
  <2>2. k \in Nat /\ k + 1 \in DOMAIN x.req.opts
    BY <2>1
  <2>3. QED
    BY <2>1, <2>2 DEF HelloRuns
<1>1. FineTo(x, k + 1) <=> FineTo(x, k) /\ OptionFine(x, o)
  BY <1>0, DoneToGrows
<1>2. next = IF acc.err # Nil THEN acc
             ELSE IF o[1] = "AUTH" THEN IF e # Nil THEN Fails(acc.s, e)
                                        ELSE NoReply([acc.s EXCEPT !.authed = TRUE])
             ELSE IF o[1] # "SETNAME" THEN Fails(acc.s, "UnknownArgument")
             ELSE IF ValidName(o[2]) THEN NoReply([acc.s EXCEPT !.name = o[2]])
             ELSE Fails(acc.s, "BadName")
  BY DEF HelloOption
<1>3. o[1] = "AUTH" => (e = Nil <=> OptionFine(x, o))
  <2>1. ASSUME o[1] = "AUTH" PROVE o[2] # Nil
    <3>1. o \in Seq(STRING) /\ Len(o) = 3
      BY <1>0, <2>1 DEF HelloShape
    <3>2. o[2] \in STRING
      BY <3>1
    <3>3. QED
      BY <3>2, TextsNotNil
  <2>2. e = Nil <=> x.pass # Nil /\ o[2] \in {Nil, "default"} /\ o[3] = x.pass
    BY CheckAuthIs
  <2> HIDE DEF o, e
  <2>3. QED
    BY <2>1, <2>2 DEF OptionFine
<1>4. DoneTo(x, k + 1, "AUTH") = DoneTo(x, k, "AUTH") \cup
        (IF o[1] = "AUTH" /\ FineTo(x, k + 1) THEN {k + 1} ELSE {})
  BY <1>0, DoneToGrows
<1>5. DoneTo(x, k + 1, "SETNAME") = DoneTo(x, k, "SETNAME") \cup
        (IF o[1] = "SETNAME" /\ FineTo(x, k + 1) THEN {k + 1} ELSE {})
  BY <1>0, DoneToGrows
<1> HIDE DEF o, e, next
(* Refused: nothing changes, and nothing counts from here on.              *)
<1>6. ASSUME ~FineTo(x, k + 1), next.s = acc.s, next.err # Nil
      PROVE  HelloUpTo(s, x, k + 1, next)
  <2>1. DoneTo(x, k + 1, "AUTH") = DoneTo(x, k, "AUTH")
        /\ DoneTo(x, k + 1, "SETNAME") = DoneTo(x, k, "SETNAME")
    BY <1>4, <1>5, <1>6
  <2>2. QED
    BY <1>6, <2>1 DEF HelloUpTo
<1>7. \A t, f : Fails(t, f).s = t /\ Fails(t, f).err = f
  BY DEF Fails
<1>8. \A t : NoReply(t).s = t /\ NoReply(t).err = Nil
  BY DEF NoReply
<1>9. CASE acc.err # Nil
  <2>1. next = acc
    BY <1>2, <1>9
  <2>2. ~FineTo(x, k + 1)
    BY <1>1, <1>9 DEF HelloUpTo
  <2>3. QED
    BY <1>6, <1>9, <2>1, <2>2 DEF next, o
<1>10. CASE acc.err = Nil /\ o[1] = "AUTH" /\ e # Nil
  <2>1. next = Fails(acc.s, e)
    BY <1>2, <1>10
  <2>2. ~FineTo(x, k + 1)
    BY <1>1, <1>3, <1>10
  <2>3. QED
    BY <1>6, <1>7, <1>10, <2>1, <2>2 DEF next, o
<1>11. CASE acc.err = Nil /\ o[1] = "AUTH" /\ e = Nil
  <2> DEFINE t == [acc.s EXCEPT !.authed = TRUE]
  <2>1. next = NoReply(t)
    BY <1>2, <1>11
  <2>2. t.authed
    BY <1>0 DEF SessStates
  <2>3. t.name = acc.s.name /\ t.db = acc.s.db /\ t.proto = acc.s.proto /\ t.flags = acc.s.flags
    BY <1>0 DEF SessStates
  <2> HIDE DEF t
  <2>4. next.s = t /\ next.err = Nil
    BY <1>8, <2>1
  <2>5. FineTo(x, k + 1)
    BY <1>1, <1>3, <1>11 DEF HelloUpTo
  <2>6. DoneTo(x, k + 1, "AUTH") # {} /\ DoneTo(x, k + 1, "SETNAME") = DoneTo(x, k, "SETNAME")
    BY <1>4, <1>5, <1>11, <2>5
  <2>7. HelloUpTo(s, x, k + 1, next)
    <3>1. next.s.authed
      BY <2>2, <2>4
    <3>2. next.s.name = acc.s.name /\ next.s.db = acc.s.db /\ next.s.proto = acc.s.proto
          /\ next.s.flags = acc.s.flags
      BY <2>3, <2>4
    <3>3. QED
      BY <2>4, <2>5, <2>6, <3>1, <3>2 DEF HelloUpTo
  <2>8. QED
    BY <2>7 DEF next, o
<1>12. CASE acc.err = Nil /\ o[1] \notin {"AUTH", "SETNAME"}
  <2>1. next = Fails(acc.s, "UnknownArgument") /\ "UnknownArgument" # Nil
    BY <1>2, <1>12, SessConstants DEF SessErrors
  <2>2. ~FineTo(x, k + 1)
    BY <1>1, <1>12 DEF OptionFine
  <2>3. next.s = acc.s /\ next.err # Nil
    BY <2>1 DEF Fails
  <2>4. QED
    BY <1>6, <2>2, <2>3 DEF next, o
<1>13. CASE acc.err = Nil /\ o[1] = "SETNAME" /\ ~ValidName(o[2])
  <2>1. next = Fails(acc.s, "BadName") /\ "BadName" # Nil
    BY <1>2, <1>13, SessConstants DEF SessErrors
  <2>2. ~FineTo(x, k + 1)
    BY <1>1, <1>13 DEF OptionFine, ValidName
  <2>3. next.s = acc.s /\ next.err # Nil
    BY <2>1 DEF Fails
  <2>4. QED
    BY <1>6, <2>2, <2>3 DEF next, o
<1>14. CASE acc.err = Nil /\ o[1] = "SETNAME" /\ ValidName(o[2])
  <2> DEFINE t == [acc.s EXCEPT !.name = o[2]]
  <2>1. next = NoReply(t)
    BY <1>2, <1>14
  <2>2. t.authed = acc.s.authed
    BY <1>0 DEF SessStates
  <2>3. t.name = o[2] /\ t.db = acc.s.db /\ t.proto = acc.s.proto /\ t.flags = acc.s.flags
    BY <1>0 DEF SessStates
  <2> HIDE DEF t
  <2>4. next.s = t /\ next.err = Nil
    BY <1>8, <2>1
  <2>5. FineTo(x, k + 1)
    BY <1>1, <1>14 DEF HelloUpTo, OptionFine, ValidName
  <2>6. DoneTo(x, k + 1, "AUTH") = DoneTo(x, k, "AUTH") /\ DoneTo(x, k + 1, "SETNAME") # {}
    BY <1>4, <1>5, <1>14, <2>5
  <2>7. Seqs!Max(DoneTo(x, k + 1, "SETNAME")) = k + 1
    BY <1>0, <1>14, <2>5, DoneToGrows DEF o
  <2>8. HelloUpTo(s, x, k + 1, next)
    <3>1. next.s.authed = acc.s.authed
      BY <2>2, <2>4
    <3>2. next.s.name = x.req.opts[k + 1][2] /\ next.s.db = acc.s.db /\ next.s.proto = acc.s.proto
          /\ next.s.flags = acc.s.flags
      BY <2>3, <2>4 DEF o
    <3>3. QED
      BY <2>4, <2>5, <2>6, <2>7, <3>1, <3>2 DEF HelloUpTo
  <2>9. QED
    BY <2>8 DEF next, o
<1>15. QED
  BY <1>9, <1>10, <1>11, <1>12, <1>13, <1>14

LEMMA HelloOptionsUpTo ==
  ASSUME NEW s, NEW x, Hello(s, x)
  PROVE  LET len == Len(x.req.opts)
             done == HelloOptions(s, x.req.opts, x.pass)[len]
         IN len \in Nat /\ done \in HelloRuns /\ HelloUpTo(s, x, len, done)
<1> DEFINE len == Len(x.req.opts)
           g == HelloOptions(s, x.req.opts, x.pass)
<1>1. HelloRun(s, x.req.opts, x.pass, g)
  BY HelloIs, HelloOptionsRun
<1>2. len \in Nat
  BY HelloIs
<1> HIDE DEF g, len
<1>3. g[0] = NoReply(s) /\ (\A k \in 0 .. len : g[k] \in HelloRuns)
      /\ \A k \in 0 .. len - 1 : g[k + 1] = HelloOption(g[k], x.req.opts[k + 1], x.pass)
  BY <1>1 DEF HelloRun, len
<1> DEFINE S == {k \in Nat : k <= len => HelloUpTo(s, x, k, g[k])}
<1>4. 0 \in S
  <2>1. FineTo(x, 0) /\ DoneTo(x, 0, "AUTH") = {} /\ DoneTo(x, 0, "SETNAME") = {}
    BY DEF FineTo, DoneTo
  <2>2. g[0].s = s /\ g[0].err = Nil
    BY <1>3 DEF NoReply
  <2>3. HelloUpTo(s, x, 0, g[0])
    BY <2>1, <2>2 DEF HelloUpTo
  <2>4. QED
    BY <2>3
<1>5. ASSUME NEW k \in Nat, k \in S PROVE k + 1 \in S
  <2>1. CASE k + 1 <= len
    <3>1. k \in 0 .. len - 1 /\ k <= len /\ k \in 0 .. len
      BY <1>2, <2>1
    <3>2. HelloUpTo(s, x, k, g[k]) /\ g[k] \in HelloRuns
      BY <1>3, <1>5, <3>1
    <3>3. HelloUpTo(s, x, k + 1, HelloOption(g[k], x.req.opts[k + 1], x.pass))
      BY <3>1, <3>2, HelloOptionUpTo DEF len
    <3>4. HelloUpTo(s, x, k + 1, g[k + 1])
      BY <1>3, <3>1, <3>3
    <3>5. QED
      BY <3>4
  <2>2. CASE ~(k + 1 <= len)
    BY <2>2
  <2>3. QED
    BY <2>1, <2>2
<1> HIDE DEF S
<1>6. \A k \in Nat : k \in S
  BY <1>4, <1>5, Induction
<1>7. HelloUpTo(s, x, len, g[len])
  BY <1>2, <1>6 DEF S
<1>8. g[len] \in HelloRuns
  BY <1>2, <1>3
<1>9. QED
  BY <1>2, <1>7, <1>8 DEF g, len

LEMMA HelloDoneTo ==
  ASSUME NEW s, NEW x, Hello(s, x), HelloVersionFine(x), NEW kind
  PROVE  OptionsDone(x, kind) = DoneTo(x, Len(x.req.opts), kind)
<1>1. DOMAIN x.req.opts = 1 .. Len(x.req.opts)
  BY HelloIs
<1>2. QED
  BY <1>1 DEF OptionsDone, DoneTo, FineTo

LEMMA HelloFollows ==
  ASSUME NEW s, NEW x, Hello(s, x), HelloVersionFine(x), NEW acc,
         HelloUpTo(s, x, Len(x.req.opts), acc), NEW t \in SessStates,
         t.authed <=> acc.s.authed, t.name = acc.s.name, t.db = acc.s.db, t.flags = acc.s.flags,
         t.proto = ProtoNext(x, s.authed, s.proto)
  PROVE  Follows(s, x, t)
<1> DEFINE len == Len(x.req.opts)
<1>1. x.req.cmd = "hello" /\ Fresh(s)
  BY DEF Hello
<1>2. OptionsDone(x, "AUTH") = DoneTo(x, len, "AUTH") /\ OptionsDone(x, "SETNAME") = DoneTo(x, len, "SETNAME")
  BY HelloDoneTo
<1> HIDE DEF len
<1>3. /\ ~Resets(x) /\ ~SelectsAs(x, s.authed) /\ ~ClosesAs(x, s.authed)
      /\ \A w : ~SaysAs(x, s.authed, w)
  BY <1>1, SessConstants DEF Resets, SelectsAs, ClosesAs, SaysAs, SessSub, SessIs, CommandArity
<1>4. t.authed <=> AuthedNext(x, s.authed)
  <2>1. GrantsAuth(x) <=> DoneTo(x, len, "AUTH") # {}
    BY <1>1, <1>2 DEF GrantsAuth, SessIs
  <2>2. t.authed <=> s.authed \/ DoneTo(x, len, "AUTH") # {}
    BY DEF HelloUpTo, len
  <2>3. QED
    BY <1>3, <2>1, <2>2 DEF AuthedNext, DropsAuth
<1>5. t.name = NameNext(x, s.authed, s.name)
  <2>1. NamesItselfAs(x, s.authed) <=> DoneTo(x, len, "SETNAME") # {}
    BY <1>1, <1>2 DEF NamesItselfAs, SessIs
  <2>2. NameGiven(x) = x.req.opts[Seqs!Max(DoneTo(x, len, "SETNAME"))][2]
    BY <1>1, <1>2, <1>3 DEF NameGiven, SessIs
  <2>3. t.name = IF DoneTo(x, len, "SETNAME") = {} THEN s.name
                 ELSE x.req.opts[Seqs!Max(DoneTo(x, len, "SETNAME"))][2]
    BY DEF HelloUpTo, len
  <2>4. QED
    BY <1>3, <2>1, <2>2, <2>3 DEF NameNext
<1>6. t.db = DbNext(x, s.authed, s.db)
  BY <1>3 DEF DbNext, HelloUpTo
<1>7. FlagsFollow(s, x, t)
  <2>1. t.flags = s.flags
    BY DEF HelloUpTo
  <2>2. ~UnmutesAs(x, s.authed)
    BY <1>3 DEF UnmutesAs
  <2>3. "REPLY_SKIP_NEXT" \notin s.flags /\ "CLOSE_AFTER_REPLY" \notin s.flags
    BY <1>1 DEF Fresh
  <2>4. QED
    BY <1>3, <2>1, <2>2, <2>3 DEF FlagsFollow, OffNext
<1>8. QED
  BY <1>4, <1>5, <1>6, <1>7 DEF Follows

LEMMA HelloEarned ==
  ASSUME NEW s, NEW x, Hello(s, x), NEW r, HelloDoneAs(x, s.authed) <=> r # <<"error">>
  PROVE  Earned(s, x, r)
  BY DEF Earned, Hello, SessIs, SessSub, NoAuthCommands

LEMMA HelloFits ==
  ASSUME NEW s, NEW x, Hello(s, x)
  PROVE  Fits(s, x, cmd_hello(s, x.req.ver, x.req.opts, x.pass))
<1> DEFINE v == IF x.req.ver = Nil THEN s.proto ELSE IntArg(x.req.ver)
           len == Len(x.req.opts)
           done == HelloOptions(s, x.req.opts, x.pass)[len]
           ran == cmd_hello(s, x.req.ver, x.req.opts, x.pass)
<1>0. x.req.cmd = "hello" /\ Fresh(s) /\ s \in SessStates
  BY DEF Hello, Fresh
<1>1. ran = IF v = Nil THEN Fails(s, "NotAnInteger")
            ELSE IF v \notin {RESP2, RESP3} THEN Fails(s, "NoProto")
            ELSE IF done.err # Nil THEN done
            ELSE IF ~done.s.authed THEN Fails(done.s, "NoAuth")
            ELSE Replies([done.s EXCEPT !.proto = v], <<"hello", v>>)
  BY DEF cmd_hello
<1>2. len \in Nat /\ done \in HelloRuns /\ HelloUpTo(s, x, len, done)
  BY HelloOptionsUpTo
<1>3. s.proto \in {RESP2, RESP3} /\ Nil \notin {RESP2, RESP3}
  BY <1>0, SessConstants DEF SessStates, RESP2, RESP3
<1>4. HelloVersionFine(x) <=> v \in {RESP2, RESP3}
  BY <1>3 DEF HelloVersionFine
<1>5. /\ ~Resets(x) /\ ~SelectsAs(x, s.authed) /\ ~ClosesAs(x, s.authed) /\ ~Quiet(x, s.authed)
      /\ \A w : ~SaysAs(x, s.authed, w)
  BY <1>0, SessConstants DEF Resets, SelectsAs, ClosesAs, SaysAs, SessSub, SessIs, Quiet, CommandArity
<1> HIDE DEF v, done, ran
<1>6. CASE v \notin {RESP2, RESP3}
  <2>1. ~HelloVersionFine(x)
    BY <1>4, <1>6
  <2>2. \A kind : OptionsDone(x, kind) = {}
    BY <2>1 DEF OptionsDone
  <2>3. ~GrantsAuth(x) /\ ~HelloDoneAs(x, s.authed) /\ ~NamesItselfAs(x, s.authed)
    BY <1>0, <2>1, <2>2 DEF GrantsAuth, HelloDoneAs, NamesItselfAs, SessIs
  <2>4. Idle(x, s.authed)
    BY <1>5, <2>3 DEF Idle
  <2>5. Earned(s, x, <<"error">>)
    BY <2>3, HelloEarned
  <2>6. \E e \in SessErrors : ran = Fails(s, e)
    <3>1. "NotAnInteger" \in SessErrors /\ "NoProto" \in SessErrors
      BY DEF SessErrors
    <3>2. ran = Fails(s, "NotAnInteger") \/ ran = Fails(s, "NoProto")
      BY <1>1, <1>6
    <3>3. QED
      BY <3>1, <3>2
  <2>7. Fits(s, x, ran)
    BY <1>0, <2>4, <2>5, <2>6, IdleFails
  <2>8. QED
    BY <2>7 DEF ran
<1>7. ASSUME v \in {RESP2, RESP3} PROVE HelloVersionFine(x) /\ v # Nil
  BY <1>3, <1>4, <1>7
<1>8. HelloVersionFine(x) => (GrantsAuth(x) <=> DoneTo(x, len, "AUTH") # {})
  <2>1. HelloVersionFine(x) => OptionsDone(x, "AUTH") = DoneTo(x, len, "AUTH")
    BY HelloDoneTo
  <2>2. QED
    BY <1>0, <2>1 DEF GrantsAuth, SessIs
<1>9. HelloVersionFine(x) => (HelloDoneAs(x, s.authed) <=> done.err = Nil /\ done.s.authed)
  <2>1. FineTo(x, len) <=> \A i \in DOMAIN x.req.opts : OptionFine(x, x.req.opts[i])
    <3>1. DOMAIN x.req.opts = 1 .. len
      BY HelloIs
    <3>2. QED
      BY <3>1 DEF FineTo
  <2>2. done.err = Nil <=> FineTo(x, len)
    BY <1>2 DEF HelloUpTo
  <2>3. done.s.authed <=> s.authed \/ DoneTo(x, len, "AUTH") # {}
    BY <1>2 DEF HelloUpTo
  <2> HIDE DEF len
  <2>4. QED
    BY <1>0, <1>8, <2>1, <2>2, <2>3 DEF HelloDoneAs, SessIs
<1>10. done.s \in SessStates /\ done.s.proto = s.proto
  BY <1>2 DEF HelloRuns, HelloUpTo
(* A refused HELLO leaves the options before the one it was refused for.   *)
<1>11. ASSUME HelloVersionFine(x), ~HelloDoneAs(x, s.authed), ran.s = done.s, ran.err # Nil
       PROVE  Fits(s, x, ran)
  <2>1. done.s.proto = ProtoNext(x, s.authed, s.proto)
    BY <1>5, <1>10, <1>11 DEF ProtoNext
  <2>2. Follows(s, x, done.s)
    BY <1>2, <1>10, <1>11, <2>1, HelloFollows
  <2>3. Earned(s, x, <<"error">>)
    BY <1>11, HelloEarned
  <2>4. QED
    BY <1>5, <1>10, <1>11, <2>2, <2>3 DEF Fits
<1>12. CASE v \in {RESP2, RESP3} /\ done.err # Nil
  <2>1. ran = done
    BY <1>1, <1>7, <1>12
  <2>2. HelloVersionFine(x) /\ ~HelloDoneAs(x, s.authed)
    BY <1>7, <1>9, <1>12
  <2>3. Fits(s, x, ran)
    BY <1>11, <1>12, <2>1, <2>2
  <2>4. QED
    BY <2>3 DEF ran
<1>13. CASE v \in {RESP2, RESP3} /\ done.err = Nil /\ ~done.s.authed
  <2>1. ran = Fails(done.s, "NoAuth") /\ "NoAuth" # Nil
    BY <1>1, <1>7, <1>13, SessConstants DEF SessErrors
  <2>2. HelloVersionFine(x) /\ ~HelloDoneAs(x, s.authed)
    BY <1>7, <1>9, <1>13
  <2>3. ran.s = done.s /\ ran.err # Nil
    BY <2>1 DEF Fails
  <2>4. Fits(s, x, ran)
    BY <1>11, <2>2, <2>3
  <2>5. QED
    BY <2>4 DEF ran
<1>14. CASE v \in {RESP2, RESP3} /\ done.err = Nil /\ done.s.authed
  <2> DEFINE t == [done.s EXCEPT !.proto = v]
             r == <<"hello", v>>
  <2>1. ran = Replies(t, r)
    BY <1>1, <1>7, <1>14
  <2>2. HelloVersionFine(x) /\ HelloDoneAs(x, s.authed)
    BY <1>7, <1>9, <1>14
  <2>3. t \in SessStates
    BY <1>10, <1>14 DEF SessStates
  <2>4. t.authed = done.s.authed
    BY <1>10 DEF SessStates
  <2>5. t.name = done.s.name /\ t.db = done.s.db /\ t.flags = done.s.flags /\ t.proto = v
    BY <1>10 DEF SessStates
  <2>6. r # <<"error">>
    <3>1. Len(r) = 2 /\ Len(<<"error">>) = 1
      OBVIOUS
    <3> HIDE DEF r
    <3>2. QED
      BY <3>1
  <2> HIDE DEF t, r
  <2>7. t.proto = ProtoNext(x, s.authed, s.proto)
    BY <1>5, <2>2, <2>5 DEF ProtoNext, v
  <2>8. Follows(s, x, t)
    BY <1>2, <2>2, <2>3, <2>4, <2>5, <2>7, HelloFollows
  <2>9. Earned(s, x, r)
    BY <2>2, <2>6, HelloEarned
  <2>10. Fits(s, x, Replies(t, r))
    BY <1>5, <2>8, <2>9, FollowsReplies
  <2>11. QED
    BY <2>1, <2>10 DEF ran
<1>15. QED
  BY <1>6, <1>12, <1>13, <1>14

-----------------------------------------------------------------------------
(* The dispatcher, and the batch loop around it.                           *)
Ran(s, x) ==
  IF x.req.cmd \notin DOMAIN CommandArity THEN Fails(s, "UnknownCommand")
  ELSE IF Len(x.req.args) \notin CommandArity[x.req.cmd] THEN Fails(s, "WrongArity")
  ELSE IF ~s.authed /\ x.req.cmd \notin NoAuthCommands THEN Fails(s, "NoAuth")
  ELSE Handler(s, x.req, x.pass, x.peers)

LEMMA HandlerFits ==
  ASSUME NEW s, Fresh(s), NEW x, Asked(x), x.req.cmd \in DOMAIN CommandArity,
         Len(x.req.args) \in CommandArity[x.req.cmd], s.authed \/ x.req.cmd \in NoAuthCommands
  PROVE  Fits(s, x, Handler(s, x.req, x.pass, x.peers))
<1>1. CASE x.req.cmd = "ping"
  BY <1>1, PingFits DEF Handler, NoAuthCommands
<1>2. CASE x.req.cmd = "echo"
  BY <1>2, EchoFits DEF Handler, NoAuthCommands
<1>3. CASE x.req.cmd = "select"
  <2>1. Len(x.req.args) = 1
    BY <1>3, ServedKnown
  <2>2. QED
    BY <1>3, <2>1, SelectFits DEF Handler, NoAuthCommands
<1>4. CASE x.req.cmd = "quit"
  BY <1>4, QuitFits DEF Handler
<1>5. CASE x.req.cmd = "auth"
  <2>1. Len(x.req.args) # 0
    BY <1>5, ServedKnown
  <2>2. QED
    BY <1>5, <2>1, AuthFits DEF Handler
<1>6. CASE x.req.cmd = "hello"
  <2>1. Hello(s, x)
    BY <1>6 DEF Hello
  <2>2. QED
    BY <1>6, <2>1, HelloFits DEF Handler
<1>7. CASE x.req.cmd = "reset"
  <2>1. Len(x.req.args) = 0
    BY <1>7, ServedKnown
  <2>2. QED
    BY <1>7, <2>1, ResetFits DEF Handler
<1>8. CASE x.req.cmd = "client"
  <2>1. Len(x.req.args) # 0 /\ s.authed
    BY <1>8, ServedKnown DEF NoAuthCommands
  <2>2. Client(s, x)
    BY <1>8, <2>1 DEF Client
  <2>3. QED
    BY <1>8, <2>2, ClientFits DEF Handler
<1>9. QED
  BY <1>1, <1>2, <1>3, <1>4, <1>5, <1>6, <1>7, <1>8, ServedKnown

LEMMA RanFits ==
  ASSUME NEW s, Fresh(s), NEW x, Asked(x)
  PROVE  Fits(s, x, Ran(s, x))
<1>1. CASE x.req.cmd \notin DOMAIN CommandArity
  BY <1>1, UnknownFits DEF Ran
<1>2. CASE x.req.cmd \in DOMAIN CommandArity /\ Len(x.req.args) \notin CommandArity[x.req.cmd]
  BY <1>2, ArityFits DEF Ran
<1>3. CASE /\ x.req.cmd \in DOMAIN CommandArity /\ Len(x.req.args) \in CommandArity[x.req.cmd]
           /\ ~s.authed /\ x.req.cmd \notin NoAuthCommands
  BY <1>3, NoAuthFits DEF Ran
<1>4. CASE /\ x.req.cmd \in DOMAIN CommandArity /\ Len(x.req.args) \in CommandArity[x.req.cmd]
           /\ s.authed \/ x.req.cmd \in NoAuthCommands
  BY <1>4, HandlerFits DEF Ran
<1>5. QED
  BY <1>1, <1>2, <1>3, <1>4

(* What the dispatcher leaves behind for the event x.                      *)
Answers(s, x, d) ==
  /\ Follows(s, x, d.s)
  /\ d.outcome = "Close" <=> ClosesAs(x, s.authed)
  /\ IF Quiet(x, s.authed) THEN d.out = <<>>
     ELSE \E r : d.out = << [proto |-> d.s.proto, r |-> r] >> /\ Earned(s, x, r)

LEMMA DispatchAnswers ==
  ASSUME NEW s, Fresh(s), NEW x, Asked(x)
  PROVE  Answers(s, x, dispatch(s, x.req, x.pass, x.peers))
<1> DEFINE ran == Ran(s, x)
           d == dispatch(s, x.req, x.pass, x.peers)
<1>1. d = [s |-> ran.s,
           out |-> IF ran.err # Nil THEN << [proto |-> s.proto, r |-> <<"error">>] >>
                   ELSE [k \in DOMAIN ran.out |-> [proto |-> ran.s.proto, r |-> ran.out[k]]],
           outcome |-> IF ran.err = Nil /\ should_close(ran.s) THEN "Close" ELSE "Done"]
  BY DEF dispatch, Ran
<1>2. Fits(s, x, ran)
  BY RanFits
<1> HIDE DEF ran, d
<1>3. d.s = ran.s
  BY <1>1
<1>4. d.out = IF ran.err # Nil THEN << [proto |-> s.proto, r |-> <<"error">>] >>
              ELSE [k \in DOMAIN ran.out |-> [proto |-> ran.s.proto, r |-> ran.out[k]]]
  BY <1>1
<1>5. d.outcome = "Close" <=> ran.err = Nil /\ should_close(ran.s)
  BY <1>1
<1>6. Follows(s, x, ran.s)
  BY <1>2 DEF Fits
<1>7. should_close(ran.s) <=> ClosesAs(x, s.authed)
  BY <1>6 DEF Follows, FlagsFollow, should_close
<1>8. d.outcome = "Close" <=> ClosesAs(x, s.authed)
  BY <1>2, <1>5, <1>7 DEF Fits
<1>9. IF Quiet(x, s.authed) THEN d.out = <<>>
      ELSE \E r : d.out = << [proto |-> ran.s.proto, r |-> r] >> /\ Earned(s, x, r)
  <2>1. CASE ran.err # Nil
    <3>1. ran.s.proto = s.proto /\ ~Quiet(x, s.authed) /\ Earned(s, x, <<"error">>)
      BY <1>2, <2>1 DEF Fits
    <3>2. d.out = << [proto |-> ran.s.proto, r |-> <<"error">>] >>
      BY <1>4, <2>1, <3>1
    <3>3. QED
      BY <3>1, <3>2
  <2>2. CASE ran.err = Nil /\ Quiet(x, s.authed)
    <3>1. ran.out = <<>>
      BY <1>2, <2>2 DEF Fits
    <3>2. DOMAIN ran.out = {}
      BY <3>1
    <3>3. d.out = [k \in {} |-> [proto |-> ran.s.proto, r |-> ran.out[k]]]
      BY <1>4, <2>2, <3>2
    <3>4. d.out = <<>>
      BY <3>3
    <3>5. QED
      BY <2>2, <3>4
  <2>3. CASE ran.err = Nil /\ ~Quiet(x, s.authed)
    <3>1. PICK r : ran.out = <<r>> /\ Earned(s, x, r)
      BY <1>2, <2>3 DEF Fits
    <3>2. DOMAIN ran.out = {1} /\ ran.out[1] = r
      BY <3>1
    <3>3. d.out = [k \in {1} |-> [proto |-> ran.s.proto, r |-> r]]
      BY <1>4, <2>3, <3>2
    <3>4. d.out = << [proto |-> ran.s.proto, r |-> r] >>
      BY <3>3
    <3>5. QED
      BY <2>3, <3>1, <3>4
  <2>4. QED
    BY <2>1, <2>2, <2>3
<1>10. Answers(s, x, d)
  BY <1>3, <1>6, <1>8, <1>9 DEF Answers
<1>11. QED
  BY <1>10 DEF d

LEMMA SameAuth ==
  ASSUME NEW x, NEW a, NEW b, a <=> b
  PROVE  /\ AuthedNext(x, a) <=> AuthedNext(x, b)
         /\ \A old : /\ ProtoNext(x, a, old) = ProtoNext(x, b, old)
                     /\ NameNext(x, a, old) = NameNext(x, b, old)
                     /\ DbNext(x, a, old) = DbNext(x, b, old)
                     /\ OffNext(x, a, old) <=> OffNext(x, b, old)
         /\ \A w : SaysAs(x, a, w) <=> SaysAs(x, b, w)
         /\ UnmutesAs(x, a) <=> UnmutesAs(x, b)
         /\ ClosesAs(x, a) <=> ClosesAs(x, b)
         /\ HelloDoneAs(x, a) <=> HelloDoneAs(x, b)
<1>1. \A w : SaysAs(x, a, w) <=> SaysAs(x, b, w)
  BY DEF SaysAs
<1>2. UnmutesAs(x, a) <=> UnmutesAs(x, b)
  BY <1>1 DEF UnmutesAs
<1>3. ClosesAs(x, a) <=> ClosesAs(x, b)
  BY DEF ClosesAs
<1>4. HelloDoneAs(x, a) <=> HelloDoneAs(x, b)
  BY DEF HelloDoneAs
<1>5. (NamesItselfAs(x, a) <=> NamesItselfAs(x, b)) /\ (SelectsAs(x, a) <=> SelectsAs(x, b))
  BY DEF NamesItselfAs, SelectsAs
<1>6. AuthedNext(x, a) <=> AuthedNext(x, b)
  BY DEF AuthedNext
<1>7. \A old : /\ ProtoNext(x, a, old) = ProtoNext(x, b, old)
               /\ NameNext(x, a, old) = NameNext(x, b, old)
               /\ DbNext(x, a, old) = DbNext(x, b, old)
  BY <1>4, <1>5 DEF ProtoNext, NameNext, DbNext
<1>8. \A old : OffNext(x, a, old) <=> OffNext(x, b, old)
  BY <1>1, <1>2 DEF OffNext
<1>9. QED
  BY <1>1, <1>2, <1>3, <1>4, <1>6, <1>7, <1>8

LEMMA PostCommandIs ==
  ASSUME NEW t \in SessStates
  PROVE  /\ post_command(t) \in SessStates
         /\ post_command(t).authed = t.authed
         /\ post_command(t).proto = t.proto /\ post_command(t).name = t.name /\ post_command(t).db = t.db
         /\ "REPLY_OFF" \in post_command(t).flags <=> "REPLY_OFF" \in t.flags
         /\ "REPLY_SKIP" \in post_command(t).flags <=> "REPLY_SKIP_NEXT" \in t.flags
         /\ "REPLY_SKIP_NEXT" \notin post_command(t).flags
         /\ "CLOSE_AFTER_REPLY" \in post_command(t).flags <=> "CLOSE_AFTER_REPLY" \in t.flags
<1> DEFINE f == (t.flags \ {"REPLY_SKIP", "REPLY_SKIP_NEXT"})
                \cup (IF "REPLY_SKIP_NEXT" \in t.flags THEN {"REPLY_SKIP"} ELSE {})
<1>1. post_command(t) = [t EXCEPT !.flags = f]
  BY DEF post_command
<1>2. f \in SUBSET SessFlags
  BY DEF SessStates, SessFlags
<1>3. /\ "REPLY_OFF" \in f <=> "REPLY_OFF" \in t.flags
      /\ "REPLY_SKIP" \in f <=> "REPLY_SKIP_NEXT" \in t.flags
      /\ "REPLY_SKIP_NEXT" \notin f
      /\ "CLOSE_AFTER_REPLY" \in f <=> "CLOSE_AFTER_REPLY" \in t.flags
  OBVIOUS
<1> HIDE DEF f
<1>4. [t EXCEPT !.flags = f] \in SessStates /\ [t EXCEPT !.flags = f].flags = f
  BY <1>2 DEF SessStates
<1>5. [t EXCEPT !.flags = f].authed = t.authed
  BY DEF SessStates
<1>6. /\ [t EXCEPT !.flags = f].proto = t.proto /\ [t EXCEPT !.flags = f].name = t.name
      /\ [t EXCEPT !.flags = f].db = t.db
  BY DEF SessStates
<1>7. QED
  BY <1>1, <1>3, <1>4, <1>5, <1>6

LEMMA MirrorsStep ==
  ASSUME NEW x, Happens(x), NEW len \in Nat, len = Len(seen), SessMirrors,
         NEW t, Follows(sess, x, t), ~ClosesAs(x, sess.authed), sess' = post_command(t)
  PROVE  SessMirrors'
<1> DEFINE a == AuthedBefore(len + 1)
<1>1. /\ sess.authed <=> a
      /\ sess.proto = ProtoAfter(len) /\ sess.name = NameAfter(len) /\ sess.db = DbAfter(len)
      /\ "REPLY_OFF" \in sess.flags <=> IsOff(len)
  BY DEF SessMirrors
<1>2. /\ AuthedBefore(len + 2)' <=> AuthedNext(x, a)
      /\ ProtoAfter(len + 1)' = ProtoNext(x, a, ProtoAfter(len))
      /\ NameAfter(len + 1)' = NameNext(x, a, NameAfter(len))
      /\ DbAfter(len + 1)' = DbNext(x, a, DbAfter(len))
      /\ IsOff(len + 1)' <=> OffNext(x, a, IsOff(len))
      /\ Says(len + 1, "skip")' <=> SaysAs(x, a, "skip")
  BY AuthedStep, ProtoGrows, NameGrows, DbGrows, OffGrows, SaysGrows
<1> HIDE DEF a
<1>3. /\ AuthedNext(x, sess.authed) <=> AuthedNext(x, a)
      /\ ProtoNext(x, sess.authed, sess.proto) = ProtoNext(x, a, sess.proto)
      /\ NameNext(x, sess.authed, sess.name) = NameNext(x, a, sess.name)
      /\ DbNext(x, sess.authed, sess.db) = DbNext(x, a, sess.db)
      /\ SaysAs(x, sess.authed, "skip") <=> SaysAs(x, a, "skip")
      /\ SaysAs(x, sess.authed, "off") <=> SaysAs(x, a, "off")
      /\ UnmutesAs(x, sess.authed) <=> UnmutesAs(x, a)
  <2>1. sess.authed <=> a
    BY <1>1
  <2>2. /\ AuthedNext(x, sess.authed) <=> AuthedNext(x, a)
        /\ UnmutesAs(x, sess.authed) <=> UnmutesAs(x, a)
        /\ \A w : SaysAs(x, sess.authed, w) <=> SaysAs(x, a, w)
    BY <2>1, SameAuth
  <2>3. \A old : /\ ProtoNext(x, sess.authed, old) = ProtoNext(x, a, old)
                 /\ NameNext(x, sess.authed, old) = NameNext(x, a, old)
                 /\ DbNext(x, sess.authed, old) = DbNext(x, a, old)
    BY <2>1, SameAuth
  <2>4. QED
    BY <2>2, <2>3
<1>4. t \in SessStates /\ FlagsFollow(sess, x, t)
  BY DEF Follows
<1>5. sess'.authed <=> AuthedBefore(len + 2)'
  <2>1. sess'.authed = t.authed
    BY <1>4, PostCommandIs
  <2>2. t.authed <=> AuthedNext(x, sess.authed)
    BY DEF Follows
  <2>3. QED
    BY <1>2, <1>3, <2>1, <2>2
<1>6. sess'.proto = ProtoAfter(len + 1)' /\ sess'.name = NameAfter(len + 1)' /\ sess'.db = DbAfter(len + 1)'
  <2>1. sess'.proto = t.proto /\ sess'.name = t.name /\ sess'.db = t.db
    BY <1>4, PostCommandIs
  <2>2. /\ t.proto = ProtoNext(x, sess.authed, sess.proto) /\ t.name = NameNext(x, sess.authed, sess.name)
        /\ t.db = DbNext(x, sess.authed, sess.db)
    BY DEF Follows
  <2>3. QED
    BY <1>1, <1>2, <1>3, <2>1, <2>2
<1>7. "REPLY_OFF" \in t.flags <=> IsOff(len + 1)'
  <2>1. "REPLY_OFF" \in t.flags <=> OffNext(x, sess.authed, "REPLY_OFF" \in sess.flags)
    BY <1>4 DEF FlagsFollow
  <2>2. QED
    BY <1>1, <1>2, <1>3, <2>1 DEF OffNext
<1>8. "REPLY_SKIP_NEXT" \in t.flags <=> Says(len + 1, "skip")' /\ ~IsOff(len + 1)'
  <2>1. "REPLY_SKIP_NEXT" \in t.flags <=> SaysAs(x, a, "skip") /\ ~IsOff(len)
    BY <1>1, <1>3, <1>4 DEF FlagsFollow
  <2>2. SaysAs(x, a, "skip") => ~SaysAs(x, a, "off") /\ ~UnmutesAs(x, a)
    BY DEF SaysAs, UnmutesAs, SessSub, SessIs, Resets
  <2>3. SaysAs(x, a, "skip") => (OffNext(x, a, IsOff(len)) <=> IsOff(len))
    BY <2>2 DEF OffNext
  <2>4. QED
    BY <1>2, <2>1, <2>3
<1>9. "CLOSE_AFTER_REPLY" \notin t.flags
  BY <1>4 DEF FlagsFollow
<1>10. /\ "REPLY_OFF" \in sess'.flags <=> IsOff(len + 1)'
       /\ "REPLY_SKIP" \in sess'.flags <=> Says(len + 1, "skip")' /\ ~IsOff(len + 1)'
       /\ "REPLY_SKIP_NEXT" \notin sess'.flags /\ "CLOSE_AFTER_REPLY" \notin sess'.flags
  BY <1>4, <1>7, <1>8, <1>9, PostCommandIs
<1>11. Len(seen') = len + 1 /\ Len(seen') > 0 /\ Len(seen') + 1 = len + 2
  BY HappensAt
<1>12. QED
  BY <1>5, <1>6, <1>10, <1>11 DEF SessMirrors

LEMMA ReplyRight ==
  ASSUME NEW x, Happens(x), NEW len \in Nat, len = Len(seen), SessMirrors,
         NEW e, e.n = len + 1, e.proto = ProtoNext(x, sess.authed, sess.proto), Earned(sess, x, e.r)
  PROVE  RightReply(e)'
<1> DEFINE a == AuthedBefore(len + 1)
<1>1. /\ sess.authed <=> a
      /\ sess.proto = ProtoAfter(len) /\ sess.name = NameAfter(len) /\ sess.db = DbAfter(len)
  BY DEF SessMirrors
<1>2. /\ ProtoAfter(len + 1)' = ProtoNext(x, a, ProtoAfter(len))
      /\ NameAfter(len + 1)' = NameNext(x, a, NameAfter(len))
      /\ DbAfter(len + 1)' = DbNext(x, a, DbAfter(len))
      /\ HelloDone(len + 1)' <=> HelloDoneAs(x, a)
  BY ProtoGrows, NameGrows, DbGrows, HelloDoneGrows
<1>3. AuthedBefore(len + 1)' <=> a
  <2>1. len + 1 \in 1 .. Len(seen) + 1
    OBVIOUS
  <2>2. QED
    BY <2>1, AuthedLocal
<1>4. seen'[len + 1] = x
  BY HappensAt
<1> HIDE DEF a
<1>5. /\ ProtoNext(x, sess.authed, sess.proto) = ProtoNext(x, a, sess.proto)
      /\ HelloDoneAs(x, sess.authed) <=> HelloDoneAs(x, a)
  BY <1>1, SameAuth
<1>6. ASSUME NEW w, SessSub(x, <<w>>)
      PROVE  /\ ProtoNext(x, a, ProtoAfter(len)) = sess.proto
             /\ NameNext(x, a, NameAfter(len)) = sess.name /\ DbNext(x, a, DbAfter(len)) = sess.db
  <2>1. x.req.cmd = "client" /\ Len(x.req.args) = 1
    BY <1>6 DEF SessSub, SessIs
  <2>2. ~Resets(x) /\ ~HelloDoneAs(x, a) /\ ~NamesItselfAs(x, a) /\ ~SelectsAs(x, a)
    BY <2>1 DEF Resets, HelloDoneAs, NamesItselfAs, SelectsAs, SessIs
  <2>3. QED
    BY <1>1, <2>2 DEF ProtoNext, NameNext, DbNext
<1>7. /\ e.proto = ProtoAfter(len + 1)'
      /\ SessIs(x, "hello") => (HelloDone(len + 1)' <=> e.r # <<"error">>)
      /\ ~AuthedBefore(len + 1)' /\ ~(x.req.cmd \in NoAuthCommands) => e.r = <<"error">>
  BY <1>1, <1>2, <1>3, <1>5 DEF Earned
<1>8. AuthedBefore(len + 1)' /\ SessSub(x, <<"info">>) =>
        e.r = <<"info", [db |-> DbAfter(len + 1)', resp |-> ProtoAfter(len + 1)', name |-> NameAfter(len + 1)']>>
  <2>1. SUFFICES ASSUME AuthedBefore(len + 1)', SessSub(x, <<"info">>)
                 PROVE  e.r = <<"info", [db |-> DbAfter(len + 1)', resp |-> ProtoAfter(len + 1)',
                                         name |-> NameAfter(len + 1)']>>
    OBVIOUS
  <2>2. e.r = <<"info", [db |-> sess.db, resp |-> sess.proto, name |-> sess.name]>>
    BY <1>1, <1>3, <2>1 DEF Earned
  <2>3. ProtoAfter(len + 1)' = sess.proto /\ NameAfter(len + 1)' = sess.name /\ DbAfter(len + 1)' = sess.db
    BY <1>2, <1>6, <2>1
  <2>4. QED
    BY <2>2, <2>3
<1>9. AuthedBefore(len + 1)' /\ SessSub(x, <<"getname">>) =>
        e.r = IF NameAfter(len + 1)' = "" THEN <<"null">> ELSE <<"bulk", NameAfter(len + 1)'>>
  <2>1. SUFFICES ASSUME AuthedBefore(len + 1)', SessSub(x, <<"getname">>)
                 PROVE  e.r = IF NameAfter(len + 1)' = "" THEN <<"null">> ELSE <<"bulk", NameAfter(len + 1)'>>
    OBVIOUS
  <2>2. e.r = IF sess.name = "" THEN <<"null">> ELSE <<"bulk", sess.name>>
    BY <1>1, <1>3, <2>1 DEF Earned
  <2>3. NameAfter(len + 1)' = sess.name
    BY <1>2, <1>6, <2>1
  <2>4. QED
    BY <2>2, <2>3
<1>10. AuthedBefore(len + 1)' /\ SessIs(x, "ping") /\ x.req.args = <<>> => e.r = <<"PONG">>
  BY <1>1, <1>3 DEF Earned
<1>11. QED
  BY <1>4, <1>7, <1>8, <1>9, <1>10 DEF RightReply

LEMMA LoudGrows ==
  ASSUME NEW x, Happens(x), NEW len \in Nat, len = Len(seen)
  PROVE  /\ Loud \in SUBSET (1 .. len)
         /\ Loud' = Loud \cup (IF IsSilent(len + 1)' THEN {} ELSE {len + 1})
<1>1. DOMAIN seen = 1 .. len /\ DOMAIN seen' = (1 .. len) \cup {len + 1}
  <2>1. DOMAIN seen = 1 .. len /\ DOMAIN seen' = 1 .. len + 1
    BY HappensAt
  <2>2. 1 .. len + 1 = (1 .. len) \cup {len + 1}
    OBVIOUS
  <2>3. QED
    BY <2>1, <2>2
<1>2. \A n \in 1 .. len : IsSilent(n)' <=> IsSilent(n)
  BY SilentGrows
<1>3. Loud = {n \in 1 .. len : ~IsSilent(n)}
  BY <1>1 DEF Loud
<1>4. Loud' = {n \in (1 .. len) \cup {len + 1} : ~IsSilent(n)'}
  BY <1>1 DEF Loud
<1>5. QED
  BY <1>2, <1>3, <1>4

LEMMA SilentStep ==
  ASSUME NEW x, Happens(x), NEW len \in Nat, len = Len(seen), IsSilent(len + 1)', NEW g, RepliesFit(g)
  PROVE  RepliesFit(g)'
<1>1. Loud' = Loud /\ Loud \in SUBSET (1 .. len)
  BY LoudGrows
<1>2. ASSUME NEW k \in DOMAIN g PROVE RightReply(g[k])'
  <2>1. g[k].n \in 1 .. len /\ RightReply(g[k])
    BY <1>1 DEF RepliesFit
  <2>2. PICK e : e = g[k]
    OBVIOUS
  <2>3. RightReply(e)'
    BY <2>1, <2>2, RightReplyStays
  <2>4. QED
    BY <2>2, <2>3
<1>3. QED
  BY <1>1, <1>2 DEF RepliesFit

LEMMA LoudStep ==
  ASSUME NEW x, Happens(x), NEW len \in Nat, len = Len(seen), ~IsSilent(len + 1)',
         NEW S, NEW g \in Seq(S), RepliesFit(g), NEW e, e.n = len + 1, RightReply(e)'
  PROVE  RepliesFit(Append(g, e))'
<1> DEFINE h == Append(g, e)
           M == Len(g)
<1>1. Loud' = Loud \cup {len + 1} /\ Loud \in SUBSET (1 .. len)
  BY LoudGrows
<1>2. g \in Seq(S \cup {e}) /\ h \in Seq(S \cup {e})
  <2>1. g \in Seq(S \cup {e})
    <3>1. \A i \in 1 .. Len(g) : g[i] \in S \cup {e}
      OBVIOUS
    <3>2. QED
      BY <3>1
  <2>2. QED
    BY <2>1
<1>3. M \in Nat /\ Len(h) = M + 1 /\ DOMAIN g = 1 .. M /\ DOMAIN h = (1 .. M) \cup {M + 1}
  BY <1>2
<1>4. (\A k \in 1 .. M : h[k] = g[k]) /\ h[M + 1] = e
  BY <1>2
<1> HIDE DEF h, M
<1>5. Len(h) = Cardinality(Loud')
  <2>1. IsFiniteSet(Loud)
    <3>1. IsFiniteSet(1 .. len)
      BY FS_Interval
    <3>2. QED
      BY <1>1, <3>1, FS_Subset
  <2>2. len + 1 \notin Loud
    BY <1>1
  <2>3. Cardinality(Loud \cup {len + 1}) = Cardinality(Loud) + 1
    BY <2>1, <2>2, FS_AddElement
  <2>4. M = Cardinality(Loud)
    BY DEF RepliesFit, M
  <2>5. QED
    BY <1>1, <1>3, <2>3, <2>4
<1>6. \A k \in 1 .. M : g[k].n \in 1 .. len
  BY <1>1, <1>3 DEF RepliesFit
<1>7. {h[k].n : k \in DOMAIN h} = Loud'
  <2>1. {g[k].n : k \in 1 .. M} = Loud
    BY <1>3 DEF RepliesFit
  <2>2. {h[k].n : k \in (1 .. M) \cup {M + 1}} = {g[k].n : k \in 1 .. M} \cup {len + 1}
    BY <1>3, <1>4
  <2>3. QED
    BY <1>1, <1>3, <2>1, <2>2
<1>8. ASSUME NEW k \in DOMAIN h, k > 1 PROVE h[k].n > h[k - 1].n
  <2>1. CASE k \in 1 .. M
    <3>1. k - 1 \in 1 .. M /\ h[k] = g[k] /\ h[k - 1] = g[k - 1]
      BY <1>3, <1>4, <1>8, <2>1
    <3>2. g[k].n > g[k - 1].n
      BY <1>3, <1>8, <2>1 DEF RepliesFit
    <3>3. QED
      BY <3>1, <3>2
  <2>2. CASE k = M + 1
    <3>1. k - 1 \in 1 .. M /\ h[k].n = len + 1
      BY <1>3, <1>4, <1>8, <2>2
    <3>2. h[k - 1].n \in 1 .. len
      BY <1>4, <1>6, <3>1
    <3>3. QED
      BY <3>1, <3>2
  <2>3. QED
    BY <1>3, <2>1, <2>2
<1>9. ASSUME NEW k \in DOMAIN h PROVE RightReply(h[k])'
  <2>1. CASE k \in 1 .. M
    <3>1. PICK f : f = g[k]
      OBVIOUS
    <3>2. f.n \in 1 .. len /\ RightReply(f)
      BY <1>3, <1>6, <2>1, <3>1 DEF RepliesFit
    <3>3. RightReply(f)'
      BY <3>2, RightReplyStays
    <3>4. h[k] = f
      BY <1>4, <2>1, <3>1
    <3>5. QED
      BY <3>3, <3>4
  <2>2. CASE k = M + 1
    BY <1>4, <2>2
  <2>3. QED
    BY <1>3, <2>1, <2>2
<1>10. RepliesFit(h)'
  BY <1>5, <1>7, <1>8, <1>9 DEF RepliesFit
<1>11. QED
  BY <1>10 DEF h

LEMMA JoinAppend ==
  ASSUME NEW S, NEW f \in Seq(S), NEW g \in Seq(S), NEW e
  PROVE  f \o Append(g, e) = Append(f \o g, e)
<1> DEFINE T == S \cup {e}
<1>1. f \in Seq(T) /\ g \in Seq(T) /\ e \in T
  <2>1. (\A i \in 1 .. Len(f) : f[i] \in T) /\ (\A i \in 1 .. Len(g) : g[i] \in T)
    OBVIOUS
  <2>2. QED
    BY <2>1
<1> HIDE DEF T
<1>2. f \o Append(g, e) \in Seq(T) /\ Append(f \o g, e) \in Seq(T)
  BY <1>1
<1>3. Len(f \o Append(g, e)) = Len(Append(f \o g, e))
  BY <1>1
<1>4. \A i \in 1 .. Len(f \o Append(g, e)) : (f \o Append(g, e))[i] = Append(f \o g, e)[i]
  BY <1>1
<1>5. QED
  BY <1>2, <1>3, <1>4, SeqEqual

(* A step that serves no request leaves all of this as it was.             *)
LEMMA HistoryStays ==
  ASSUME UNCHANGED <<seen, born>>
  PROVE  /\ SessMirrors /\ UNCHANGED sess => SessMirrors'
         /\ \A g : RepliesFit(g) => RepliesFit(g)'
         /\ \A n : Closes(n)' <=> Closes(n)
<1>1. \A n : AuthedBefore(n)' <=> AuthedBefore(n)
  BY DEF AuthedBefore, LatestOf
<1>2. \A n : HelloDone(n)' <=> HelloDone(n)
  BY <1>1 DEF HelloDone
<1>3. \A n : NamesItself(n)' <=> NamesItself(n)
  BY <1>1 DEF NamesItself
<1>4. \A n : Selects(n)' <=> Selects(n)
  BY <1>1 DEF Selects
<1>5. \A n, w : Says(n, w)' <=> Says(n, w)
  BY <1>1 DEF Says
<1>6. \A n : Closes(n)' <=> Closes(n)
  BY <1>1 DEF Closes
<1>7. \A n : Unmutes(n)' <=> Unmutes(n)
  BY <1>5 DEF Unmutes
<1>8. ASSUME NEW n PROVE ProtoAfter(n)' = ProtoAfter(n)
  <2>1. {m \in 1 .. n : Resets(seen'[m]) \/ (HelloDone(m)' /\ seen'[m].req.ver # Nil)}
          = {m \in 1 .. n : Resets(seen[m]) \/ (HelloDone(m) /\ seen[m].req.ver # Nil)}
    BY <1>2
  <2>2. QED
    BY <2>1 DEF ProtoAfter, LatestOf
<1>9. ASSUME NEW n PROVE NameAfter(n)' = NameAfter(n)
  <2>1. {m \in 1 .. n : Resets(seen'[m]) \/ NamesItself(m)'}
          = {m \in 1 .. n : Resets(seen[m]) \/ NamesItself(m)}
    BY <1>3
  <2>2. QED
    BY <2>1 DEF NameAfter, LatestOf
<1>10. ASSUME NEW n PROVE DbAfter(n)' = DbAfter(n)
  <2>1. {m \in 1 .. n : Resets(seen'[m]) \/ Selects(m)'} = {m \in 1 .. n : Resets(seen[m]) \/ Selects(m)}
    BY <1>4
  <2>2. QED
    BY <2>1 DEF DbAfter, LatestOf
<1>11. ASSUME NEW n PROVE IsOff(n)' <=> IsOff(n)
  <2>1. {m \in 1 .. n : Unmutes(m)' \/ Says(m, "off")'} = {m \in 1 .. n : Unmutes(m) \/ Says(m, "off")}
    BY <1>5, <1>7
  <2>2. QED
    BY <2>1 DEF IsOff, LatestOf
<1>12. \A n : IsSkipped(n)' <=> IsSkipped(n)
  BY <1>5, <1>7, <1>11 DEF IsSkipped
<1>13. \A n : IsSilent(n)' <=> IsSilent(n)
  BY <1>5, <1>6, <1>11, <1>12 DEF IsSilent
<1>14. Loud' = Loud
  BY <1>13 DEF Loud
<1>15. \A e : RightReply(e)' <=> RightReply(e)
  BY <1>1, <1>2, <1>8, <1>9, <1>10 DEF RightReply
<1>16. \A g : RepliesFit(g) => RepliesFit(g)'
  BY <1>14, <1>15 DEF RepliesFit
<1>17. SessMirrors /\ UNCHANGED sess => SessMirrors'
  BY <1>1, <1>5, <1>8, <1>9, <1>10, <1>11 DEF SessMirrors
<1>18. QED
  BY <1>6, <1>16, <1>17

LEMMA SessInvInit == sessInit => SessInv
<1> SUFFICES ASSUME sessInit PROVE SessInv
  OBVIOUS
<1>1. /\ requirepass \in SessPasswords \cup {Nil} /\ born = requirepass /\ peers = SessPeers
      /\ sess = NewClient(requirepass) /\ staging = <<>> /\ sent = <<>> /\ seen = <<>> /\ sessPc = "reading"
  BY DEF sessInit
<1>2. SessTypeInv
  <2>1. requirepass \in STRING \cup {Nil}
    BY <1>1, SessConstants
  <2>2. sess \in SessStates
    BY <1>1 DEF NewClient, SessStates, Names, RESP2, RESP3
  <2>3. QED
    BY <1>1, <2>1, <2>2 DEF SessTypeInv
<1>3. DOMAIN seen = {} /\ Len(seen) = 0
  BY <1>1
<1>4. SessCloseInv
  BY <1>3 DEF SessCloseInv
<1>5. SessReplyInv
  <2>1. Loud = {} /\ Cardinality(Loud) = 0
    BY <1>3, FS_EmptySet DEF Loud
  <2>2. Got = <<>>
    BY <1>1 DEF Got
  <2>3. RepliesFit(Got)
    BY <2>1, <2>2 DEF RepliesFit
  <2>4. sent \in Seq({}) /\ staging \in Seq({})
    BY <1>1
  <2>5. QED
    BY <2>3, <2>4 DEF SessReplyInv
<1>6. SessMirrors
  <2>1. 1 .. 0 = {} /\ 0 + 1 - 1 = 0
    OBVIOUS
  <2>2. AuthedBefore(0 + 1) <=> born = Nil
    BY <2>1 DEF AuthedBefore, LatestOf
  <2>3. ProtoAfter(0) = RESP2 /\ NameAfter(0) = "" /\ DbAfter(0) = 0
    BY <2>1 DEF ProtoAfter, NameAfter, DbAfter, LatestOf
  <2>4. ~IsOff(0)
    BY <2>1 DEF IsOff, LatestOf
  <2>5. sess.authed <=> born = Nil
    BY <1>1 DEF NewClient
  <2>6. sess.proto = RESP2 /\ sess.name = "" /\ sess.db = 0 /\ sess.flags = {}
    BY <1>1 DEF NewClient
  <2>7. PICK len : len = Len(seen) /\ len = 0
    BY <1>3
  <2>8. /\ sess.authed <=> AuthedBefore(len + 1)
        /\ sess.proto = ProtoAfter(len) /\ sess.name = NameAfter(len) /\ sess.db = DbAfter(len)
        /\ ~IsOff(len) /\ ~(len > 0)
    <3>1. sess.authed <=> AuthedBefore(len + 1)
      BY <2>2, <2>5, <2>7
    <3>2. sess.proto = ProtoAfter(len) /\ sess.name = NameAfter(len) /\ sess.db = DbAfter(len)
      BY <2>3, <2>6, <2>7
    <3>3. ~IsOff(len)
      BY <2>4, <2>7
    <3>4. ~(len > 0)
      BY <2>7
    <3>5. QED
      BY <3>1, <3>2, <3>3, <3>4
  <2>9. \A f : f \notin sess.flags
    BY <2>6
  <2>10. QED
    BY <2>7, <2>8, <2>9 DEF SessMirrors
<1>7. QED
  BY <1>2, <1>4, <1>5, <1>6 DEF SessInv

LEMMA StagedOne ==
  ASSUME NEW S, NEW st \in Seq(S), NEW e, NEW w, w = st \o <<e>>
  PROVE  w = Append(st, e) /\ SubSeq(w, 1, Len(st)) = st
<1> DEFINE T == S \cup {e}
<1>1. st \in Seq(T) /\ e \in T
  <2>1. \A i \in 1 .. Len(st) : st[i] \in T
    OBVIOUS
  <2>2. QED
    BY <2>1
<1> HIDE DEF T
<1>2. w = Append(st, e)
  <2>1. w \in Seq(T) /\ Append(st, e) \in Seq(T) /\ Len(w) = Len(Append(st, e))
    BY <1>1
  <2>2. \A i \in 1 .. Len(w) : w[i] = Append(st, e)[i]
    BY <1>1
  <2>3. QED
    BY <2>1, <2>2, SeqEqual
<1>3. SubSeq(w, 1, Len(st)) = st
  <2>1. w \in Seq(T) /\ Len(w) = Len(st) + 1 /\ \A i \in 1 .. Len(st) : w[i] = st[i]
    BY <1>1, <1>2
  <2>2. SubSeq(w, 1, Len(st)) \in Seq(T) /\ Len(SubSeq(w, 1, Len(st))) = Len(st)
    BY <1>1, <2>1
  <2>3. \A i \in 1 .. Len(st) : SubSeq(w, 1, Len(st))[i] = st[i]
    BY <1>1, <2>1
  <2>4. QED
    BY <1>1, <2>2, <2>3, SeqEqual
<1>4. QED
  BY <1>2, <1>3

(* An event, with the replies it leaves staged, keeps the account.         *)
LEMMA ReplyStep ==
  ASSUME SessReplyInv, NEW x, Happens(x), NEW len \in Nat, len = Len(seen), UNCHANGED sent,
         \/ IsSilent(len + 1)' /\ staging' = staging
         \/ /\ ~IsSilent(len + 1)'
            /\ \E e : e.n = len + 1 /\ RightReply(e)' /\ staging' = Append(staging, e)
  PROVE  SessReplyInv'
<1>1. PICK S : sent \in Seq(S) /\ staging \in Seq(S)
  BY DEF SessReplyInv
<1>2. PICK g : g = Got
  OBVIOUS
<1>3. g \in Seq(S) /\ RepliesFit(g)
  BY <1>1, <1>2 DEF Got, SessReplyInv
<1>4. CASE IsSilent(len + 1)' /\ staging' = staging
  <2>1. RepliesFit(g)'
    BY <1>3, <1>4, SilentStep
  <2>2. Got' = g
    BY <1>2, <1>4 DEF Got
  <2>3. QED
    BY <1>1, <1>4, <2>1, <2>2 DEF SessReplyInv
<1>5. CASE ~IsSilent(len + 1)' /\ \E e : e.n = len + 1 /\ RightReply(e)' /\ staging' = Append(staging, e)
  <2>1. PICK e : e.n = len + 1 /\ RightReply(e)' /\ staging' = Append(staging, e)
    BY <1>5
  <2>2. PICK h : h = Append(g, e)
    OBVIOUS
  <2>3. RepliesFit(h)'
    BY <1>3, <1>5, <2>1, <2>2, LoudStep
  <2>4. Got' = h
    BY <1>1, <1>2, <2>1, <2>2, JoinAppend DEF Got
  <2>5. sent' \in Seq(S \cup {e}) /\ staging' \in Seq(S \cup {e})
    <3>1. sent \in Seq(S \cup {e}) /\ staging \in Seq(S \cup {e})
      <4>1. (\A i \in 1 .. Len(sent) : sent[i] \in S \cup {e})
            /\ (\A i \in 1 .. Len(staging) : staging[i] \in S \cup {e})
        BY <1>1
      <4>2. QED
        BY <1>1, <4>1
    <3>2. QED
      BY <2>1, <3>1
  <2>6. QED
    BY <2>3, <2>4, <2>5 DEF SessReplyInv
<1>6. QED
  BY <1>4, <1>5

LEMMA CloseStep ==
  ASSUME SessCloseInv, sessPc = "batch", NEW x, Happens(x), NEW len \in Nat, len = Len(seen),
         SessMirrors, ClosesAs(x, sess.authed) => sessPc' = "closing"
  PROVE  SessCloseInv'
<1>1. \A n \in 1 .. len : Closes(n)' <=> Closes(n)
  BY ClosesGrows
<1>2. Closes(len + 1)' => ClosesAs(x, sess.authed)
  <2>1. Closes(len + 1)' <=> ClosesAs(x, AuthedBefore(len + 1))
    BY ClosesGrows
  <2>2. sess.authed <=> AuthedBefore(len + 1)
    BY DEF SessMirrors
  <2>3. QED
    BY <2>1, <2>2, SameAuth
<1>3. Len(seen') = len + 1 /\ DOMAIN seen' = 1 .. len + 1 /\ DOMAIN seen = 1 .. len
  BY HappensAt
<1>4. \A n \in 1 .. len : ~Closes(n)
  BY <1>3 DEF SessCloseInv
<1>5. \A n \in 1 .. len + 1 : n \in 1 .. len \/ n = len + 1
  OBVIOUS
<1>6. QED
  BY <1>1, <1>2, <1>3, <1>4, <1>5 DEF SessCloseInv

LEMMA ExecuteKeeps ==
  ASSUME SessInv, NEW c \in DOMAIN SessRequests, NEW req \in SessRequests[c], SessionExecute(req)
  PROVE  SessInv'
<1> DEFINE x == [req |-> req, pass |-> requirepass, peers |-> peers]
           d == dispatch(sess, req, requirepass, peers)
           a == AuthedBefore(Len(seen) + 1)
<1>1. /\ sessPc = "batch" /\ Executed(req, d) /\ seen' = Append(seen, x)
      /\ UNCHANGED <<peers, requirepass, sent, born>>
  BY DEF SessionExecute
<1>2. SessMirrors /\ SessReplyInv /\ SessCloseInv /\ SessTypeInv
  BY <1>1 DEF SessInv
<1>3. x \in Events
  <2>1. req \in SessReqs
    BY DEF SessReqs
  <2>2. QED
    BY <1>2, <2>1 DEF Events, SessTypeInv
<1>4. Happens(x)
  BY <1>1, <1>2, <1>3 DEF Happens, SessTypeInv
<1>5. Asked(x)
  <2>1. SessFine(req)
    BY SessConstants DEF SessFine
  <2>2. QED
    BY <1>2, <2>1 DEF Asked, SessTypeInv
<1>6. Fresh(sess)
  BY <1>2 DEF Fresh, SessMirrors, SessTypeInv
<1>7. Answers(sess, x, d)
  <2>1. x.req = req /\ x.pass = requirepass /\ x.peers = peers
    OBVIOUS
  <2>2. Answers(sess, x, dispatch(sess, x.req, x.pass, x.peers))
    BY <1>5, <1>6, DispatchAnswers
  <2>3. QED
    BY <2>1, <2>2
<1>8. PICK len \in Nat : len = Len(seen)
  BY <1>4, HappensAt
<1>9. /\ staging' = IF ~(d.outcome = "Close") /\ reply_suppressed(d.s)
                    THEN SubSeq(staging \o [k \in DOMAIN d.out |->
                                  [n |-> len + 1, proto |-> d.out[k].proto, r |-> d.out[k].r]],
                                1, Len(staging))
                    ELSE staging \o [k \in DOMAIN d.out |->
                                  [n |-> len + 1, proto |-> d.out[k].proto, r |-> d.out[k].r]]
      /\ sess' = post_command(d.s)
      /\ sessPc' = IF d.outcome = "Close" THEN "closing" ELSE "batch"
  BY <1>1, <1>8 DEF Executed
<1> HIDE DEF x, d
<1>10. /\ Follows(sess, x, d.s)
       /\ d.outcome = "Close" <=> ClosesAs(x, sess.authed)
  BY <1>7 DEF Answers
<1>11. d.s \in SessStates /\ FlagsFollow(sess, x, d.s)
  BY <1>10 DEF Follows
<1>12. SessTypeInv'
  <2>1. sess' \in SessStates
    BY <1>9, <1>11, PostCommandIs
  <2>2. seen' \in Seq(Events)
    BY <1>4 DEF Happens
  <2>3. sessPc' \in {"closing", "batch"}
    BY <1>9
  <2>4. QED
    BY <1>1, <1>2, <2>1, <2>2, <2>3 DEF SessTypeInv
<1>13. SessCloseInv'
  BY <1>1, <1>2, <1>4, <1>8, <1>9, <1>10, CloseStep
<1>14. sessPc' \in {"reading", "batch", "flush"} => SessMirrors'
  <2>1. sessPc' \in {"reading", "batch", "flush"} => ~ClosesAs(x, sess.authed)
    BY <1>9, <1>10
  <2>2. QED
    BY <1>2, <1>4, <1>8, <1>9, <1>10, <2>1, MirrorsStep
<1>15. IsSilent(len + 1)' <=>
         Quiet(x, sess.authed) \/ (~(d.outcome = "Close") /\ reply_suppressed(d.s))
  <2>1. IsSilent(len + 1)' <=> SilentAs(x, AuthedBefore(len + 1), IsOff(len), SkipNext)
    BY <1>4, <1>8, SilentGrows
  <2>2. /\ sess.authed <=> AuthedBefore(len + 1)
        /\ "REPLY_OFF" \in sess.flags <=> IsOff(len)
        /\ "REPLY_SKIP" \in sess.flags <=> SkipNext
    BY <1>2, <1>8 DEF SessMirrors, SkipNext
  <2>3. PICK b : b = AuthedBefore(len + 1)
    OBVIOUS
  <2>4. sess.authed <=> b
    BY <2>2, <2>3
  <2>5. /\ SaysAs(x, sess.authed, "off") <=> SaysAs(x, b, "off")
        /\ SaysAs(x, sess.authed, "skip") <=> SaysAs(x, b, "skip")
        /\ UnmutesAs(x, sess.authed) <=> UnmutesAs(x, b)
        /\ ClosesAs(x, sess.authed) <=> ClosesAs(x, b)
    BY <2>4, SameAuth
  <2>6. reply_suppressed(d.s) <=>
          \/ OffNext(x, sess.authed, "REPLY_OFF" \in sess.flags)
          \/ "REPLY_SKIP" \in sess.flags /\ ~UnmutesAs(x, sess.authed)
    BY <1>11 DEF FlagsFollow, reply_suppressed
  <2>7. reply_suppressed(d.s) <=>
          \/ SaysAs(x, b, "off") \/ (IsOff(len) /\ ~UnmutesAs(x, b))
          \/ SkipNext /\ ~UnmutesAs(x, b)
    BY <2>2, <2>5, <2>6 DEF OffNext
  <2>8. SilentAs(x, b, IsOff(len), SkipNext) <=>
          \/ SaysAs(x, b, "off") \/ SaysAs(x, b, "skip")
          \/ /\ ~ClosesAs(x, b)
             /\ \/ SaysAs(x, b, "off") \/ (IsOff(len) /\ ~UnmutesAs(x, b))
                \/ SkipNext /\ ~UnmutesAs(x, b)
    BY DEF SilentAs, OffNext
  <2>9. Quiet(x, sess.authed) <=> SaysAs(x, b, "off") \/ SaysAs(x, b, "skip")
    BY <2>5 DEF Quiet
  <2>10. IsSilent(len + 1)' <=> SilentAs(x, b, IsOff(len), SkipNext)
    BY <2>1, <2>3
  <2>11. QED
    BY <1>10, <2>5, <2>7, <2>8, <2>9, <2>10
<1>16. PICK S : sent \in Seq(S) /\ staging \in Seq(S)
  BY <1>2 DEF SessReplyInv
<1>17. CASE Quiet(x, sess.authed)
  <2>1. d.out = <<>>
    BY <1>7, <1>17 DEF Answers
  <2>2. DOMAIN d.out = {}
    BY <2>1
  <2> DEFINE more == [k \in DOMAIN d.out |-> [n |-> len + 1, proto |-> d.out[k].proto, r |-> d.out[k].r]]
  <2>3. more = <<>>
    BY <2>2
  <2>4. staging' = IF ~(d.outcome = "Close") /\ reply_suppressed(d.s)
                   THEN SubSeq(staging \o more, 1, Len(staging)) ELSE staging \o more
    BY <1>9
  <2> HIDE DEF more
  <2>5. staging \o more = staging /\ SubSeq(staging, 1, Len(staging)) = staging
    BY <1>16, <2>3
  <2>6. staging' = staging
    BY <2>4, <2>5
  <2>7. IsSilent(len + 1)'
    BY <1>15, <1>17
  <2>8. SessReplyInv'
    BY <1>1, <1>2, <1>4, <1>8, <2>6, <2>7, ReplyStep
  <2>9. QED
    BY <1>12, <1>13, <1>14, <2>8 DEF SessInv
<1>18. CASE ~Quiet(x, sess.authed)
  <2>1. PICK r : d.out = << [proto |-> d.s.proto, r |-> r] >> /\ Earned(sess, x, r)
    BY <1>7, <1>18 DEF Answers
  <2>2. PICK p : p = d.s.proto
    OBVIOUS
  <2>3. PICK e : e = [n |-> len + 1, proto |-> p, r |-> r]
    OBVIOUS
  <2> DEFINE more == [k \in DOMAIN d.out |-> [n |-> len + 1, proto |-> d.out[k].proto, r |-> d.out[k].r]]
  <2>4. more = <<e>>
    <3>1. DOMAIN d.out = {1} /\ d.out[1] = [proto |-> p, r |-> r]
      BY <2>1, <2>2
    <3>2. more = [k \in {1} |-> e]
      BY <2>3, <3>1
    <3>3. QED
      BY <3>2
  <2>5. staging' = IF ~(d.outcome = "Close") /\ reply_suppressed(d.s)
                   THEN SubSeq(staging \o more, 1, Len(staging)) ELSE staging \o more
    BY <1>9
  <2> HIDE DEF more
  <2>6. staging \o more = Append(staging, e) /\ SubSeq(staging \o more, 1, Len(staging)) = staging
    BY <1>16, <2>4, StagedOne
  <2>7. e.n = len + 1 /\ e.proto = p /\ e.r = r
    BY <2>3
  <2>8. p = ProtoNext(x, sess.authed, sess.proto)
    BY <1>10, <2>2 DEF Follows
  <2>9. RightReply(e)'
    BY <1>2, <1>4, <1>8, <2>1, <2>7, <2>8, ReplyRight
  <2>10. \/ IsSilent(len + 1)' /\ staging' = staging
         \/ /\ ~IsSilent(len + 1)'
            /\ e.n = len + 1 /\ RightReply(e)' /\ staging' = Append(staging, e)
    BY <1>15, <1>18, <2>5, <2>6, <2>7, <2>9
  <2>11. SessReplyInv'
    BY <1>1, <1>2, <1>4, <1>8, <2>10, ReplyStep
  <2>12. QED
    BY <1>12, <1>13, <1>14, <2>11 DEF SessInv
<1>19. QED
  BY <1>17, <1>18

LEMMA MalformedKeeps ==
  ASSUME SessInv, SessionMalformed
  PROVE  SessInv'
<1> DEFINE x == [req |-> MalformedReq, pass |-> requirepass, peers |-> peers]
<1>1. /\ sessPc = "batch" /\ sessPc' = "closing" /\ seen' = Append(seen, x)
      /\ staging' = Append(staging, [n |-> Len(seen) + 1, proto |-> sess.proto, r |-> <<"error">>])
      /\ UNCHANGED <<sess, peers, requirepass, sent, born>>
  BY DEF SessionMalformed, MalformedReq
<1>2. SessMirrors /\ SessReplyInv /\ SessCloseInv /\ SessTypeInv
  BY <1>1 DEF SessInv
<1>3. x \in Events /\ x.req.cmd = Nil
  BY <1>2 DEF Events, SessTypeInv, MalformedReq
<1>4. Happens(x)
  BY <1>1, <1>2, <1>3 DEF Happens, SessTypeInv
<1>5. PICK len \in Nat : len = Len(seen)
  BY <1>4, HappensAt
<1> HIDE DEF x
<1>6. Nil \notin {"auth", "hello", "reset", "select", "quit", "client", "ping"}
  BY SessConstants, ServedKnown
<1>7. /\ ~Resets(x) /\ \A b : ~HelloDoneAs(x, b) /\ ClosesAs(x, b) /\ \A w : ~SaysAs(x, b, w)
  BY <1>3, <1>6 DEF Resets, HelloDoneAs, ClosesAs, SaysAs, SessSub, SessIs
<1>8. PICK e : e = [n |-> len + 1, proto |-> sess.proto, r |-> <<"error">>]
  OBVIOUS
<1>9. e.n = len + 1 /\ e.proto = sess.proto /\ e.r = <<"error">> /\ staging' = Append(staging, e)
  BY <1>1, <1>5, <1>8
<1>10. RightReply(e)'
  <2>1. sess.proto = ProtoNext(x, sess.authed, sess.proto)
    BY <1>7 DEF ProtoNext
  <2>2. Earned(sess, x, <<"error">>)
    BY <1>3, <1>6 DEF Earned, SessIs, SessSub
  <2>3. QED
    BY <1>2, <1>4, <1>5, <1>9, <2>1, <2>2, ReplyRight
<1>11. ~IsSilent(len + 1)'
  <2>1. IsSilent(len + 1)' <=> SilentAs(x, AuthedBefore(len + 1), IsOff(len), SkipNext)
    BY <1>4, <1>5, SilentGrows
  <2>2. QED
    BY <1>7, <2>1 DEF SilentAs
<1>12. SessReplyInv'
  BY <1>1, <1>2, <1>4, <1>5, <1>9, <1>10, <1>11, ReplyStep
<1>13. SessCloseInv'
  BY <1>1, <1>2, <1>4, <1>5, CloseStep
<1>14. SessTypeInv'
  <2>1. seen' \in Seq(Events)
    BY <1>4 DEF Happens
  <2>2. QED
    BY <1>1, <1>2, <2>1 DEF SessTypeInv
<1>15. QED
  BY <1>1, <1>12, <1>13, <1>14 DEF SessInv

(* Steps that serve no request.                                            *)
LEMMA AsideKeeps ==
  ASSUME SessInv, UNCHANGED <<seen, born, sess, sent, staging>>, peers' \subseteq peers,
         requirepass' \in STRING \cup {Nil},
         \/ sessPc' = sessPc
         \/ sessPc = "reading" /\ sessPc' = "batch"
         \/ sessPc = "batch" /\ sessPc' = "flush"
  PROVE  SessInv'
<1>1. SessTypeInv /\ SessReplyInv /\ SessCloseInv
  BY DEF SessInv
<1>2. SessTypeInv'
  BY <1>1 DEF SessTypeInv
<1>3. SessReplyInv'
  <2>1. PICK g : g = Got
    OBVIOUS
  <2>2. RepliesFit(g)' /\ Got' = g
    BY <1>1, <2>1, HistoryStays DEF SessReplyInv, Got
  <2>3. QED
    BY <1>1, <2>2 DEF SessReplyInv
<1>4. SessCloseInv'
  BY <1>1, HistoryStays DEF SessCloseInv
<1>5. sessPc' \in {"reading", "batch", "flush"} => SessMirrors'
  BY HistoryStays DEF SessInv
<1>6. QED
  BY <1>2, <1>3, <1>4, <1>5 DEF SessInv

LEMMA FlushKeeps ==
  ASSUME SessInv, SessionFlush
  PROVE  SessInv'
<1>1. SessTypeInv /\ SessReplyInv /\ SessCloseInv
  BY DEF SessInv
<1>2. /\ sessPc \in {"flush", "closing"} /\ sent' = sent \o staging /\ staging' = <<>>
      /\ sessPc' = IF sessPc = "closing" \/ should_close(sess) THEN "closed" ELSE "reading"
      /\ UNCHANGED <<seen, born, sess, peers, requirepass>>
  BY DEF SessionFlush
<1>3. SessTypeInv'
  BY <1>1, <1>2 DEF SessTypeInv
<1>4. SessReplyInv'
  <2>1. PICK S : sent \in Seq(S) /\ staging \in Seq(S)
    BY <1>1 DEF SessReplyInv
  <2>2. PICK g : g = Got
    OBVIOUS
  <2>3. g \in Seq(S) /\ sent' = g /\ staging' = <<>>
    BY <1>2, <2>1, <2>2 DEF Got
  <2>4. Got' = g
    BY <2>3 DEF Got
  <2>5. RepliesFit(g)'
    BY <1>1, <1>2, <2>2, HistoryStays DEF SessReplyInv
  <2>6. sent' \in Seq(S) /\ staging' \in Seq(S)
    BY <2>3
  <2>7. QED
    BY <2>4, <2>5, <2>6 DEF SessReplyInv
<1>5. SessCloseInv'
  <2>1. \A n \in DOMAIN seen : Closes(n) => n = Len(seen) /\ sessPc = "closing"
    BY <1>1, <1>2 DEF SessCloseInv
  <2>2. \A n : Closes(n)' <=> Closes(n)
    BY <1>2, HistoryStays
  <2>3. sessPc = "closing" => sessPc' = "closed"
    BY <1>2
  <2>4. QED
    BY <1>2, <2>1, <2>2, <2>3 DEF SessCloseInv
<1>6. sessPc' \in {"reading", "batch", "flush"} => SessMirrors'
  <2>1. sessPc' \in {"reading", "batch", "flush"} => sessPc = "flush"
    BY <1>2
  <2>2. sessPc = "flush" => SessMirrors
    BY DEF SessInv
  <2>3. QED
    BY <1>2, <2>1, <2>2, HistoryStays
<1>7. QED
  BY <1>3, <1>4, <1>5, <1>6 DEF SessInv

LEMMA SessInvNext == SessInv /\ [sessNext]_sessVars => SessInv'
<1> SUFFICES ASSUME SessInv, [sessNext]_sessVars PROVE SessInv'
  OBVIOUS
<1>0. SessTypeInv
  BY DEF SessInv
<1>1. CASE SessionRead
  <2>1. /\ UNCHANGED <<seen, born, sess, sent, staging>> /\ peers' \subseteq peers
        /\ requirepass' \in STRING \cup {Nil} /\ sessPc = "reading" /\ sessPc' = "batch"
    BY <1>0, <1>1 DEF SessionRead, SessTypeInv
  <2>2. QED
    BY <2>1, AsideKeeps
<1>2. CASE SessionMalformed
  BY <1>2, MalformedKeeps
<1>3. CASE SessionIncomplete
  <2>1. /\ UNCHANGED <<seen, born, sess, sent, staging>> /\ peers' \subseteq peers
        /\ requirepass' \in STRING \cup {Nil} /\ sessPc = "batch" /\ sessPc' = "flush"
    BY <1>0, <1>3 DEF SessionIncomplete, SessTypeInv
  <2>2. QED
    BY <2>1, AsideKeeps
<1>4. CASE SessionFlush
  BY <1>4, FlushKeeps
<1>5. CASE SessionOthers
  <2>1. UNCHANGED <<seen, born, sess, sent, staging>> /\ sessPc' = sessPc
    BY <1>5 DEF SessionOthers
  <2>2. peers' \subseteq peers
    BY <1>5 DEF SessionOthers
  <2>3. requirepass' \in STRING \cup {Nil}
    BY <1>0, <1>5, SessConstants DEF SessionOthers, SessTypeInv
  <2>4. QED
    BY <2>1, <2>2, <2>3, AsideKeeps
<1>6. CASE \E k \in DOMAIN SessRequests : \E req \in SessRequests[k] : SessionExecute(req)
  BY <1>6, ExecuteKeeps
<1>7. CASE UNCHANGED sessVars
  <2>1. /\ UNCHANGED <<seen, born, sess, sent, staging>> /\ peers' \subseteq peers
        /\ requirepass' \in STRING \cup {Nil} /\ sessPc' = sessPc
    BY <1>0, <1>7 DEF sessVars, SessTypeInv
  <2>2. QED
    BY <2>1, AsideKeeps
<1>8. QED
  BY <1>1, <1>2, <1>3, <1>4, <1>5, <1>6, <1>7 DEF sessNext

LEMMA SessInvPromises == SessInv => RepliesAsPromised
<1> SUFFICES ASSUME SessInv PROVE RepliesAsPromised
  OBVIOUS
<1>1. RepliesFit(Got) /\ SessCloseInv
  BY DEF SessInv, SessReplyInv
<1>2. Got = sent \o staging /\ Loud = {n \in DOMAIN seen : ~IsSilent(n)}
  BY DEF Got, Loud
<1>3. /\ Len(Got) = Cardinality(Loud) /\ {Got[k].n : k \in DOMAIN Got} = Loud
      /\ \A k \in DOMAIN Got : (k > 1 => Got[k].n > Got[k - 1].n) /\ RightReply(Got[k])
  BY <1>1 DEF RepliesFit
<1>4. /\ {Got[k].n : k \in DOMAIN Got} \subseteq DOMAIN seen
      /\ \A n \in DOMAIN seen : n \in {Got[k].n : k \in DOMAIN Got} <=> ~IsSilent(n)
  BY <1>2, <1>3
<1>5. QED
  BY <1>1, <1>2, <1>3, <1>4 DEF RepliesAsPromised, RightReply, SessCloseInv

(* Every request is answered as the history of the connection owes it, in  *)
(* request order and once, or silently where CLIENT REPLY says so, a muted *)
(* closing command left open                                               *)
(* (net/conn.rs execute_batch and post_command, engine.rs dispatch,        *)
(* command/connection.rs), whatever the client sends and however long.     *)
THEOREM SessionRepliesAsPromised == sessSpec => []RepliesAsPromised
<1>1. sessInit => SessInv
  BY SessInvInit
<1>2. SessInv /\ [sessNext]_sessVars => SessInv'
  BY SessInvNext
<1>3. SessInv => RepliesAsPromised
  BY SessInvPromises
<1>4. QED
  BY <1>1, <1>2, <1>3, PTL DEF sessSpec
=============================================================================
