-------------------------- MODULE ShardLocksProofs --------------------------
(***************************************************************************)
(* Proofs about ShardLocks, for every number of shards, every set of       *)
(* threads, tasks and commands.                                            *)
(***************************************************************************)
EXTENDS ShardLocks, SequenceTheorems, WellFoundedInduction, TLAPS

(* An actor's mutexes are exactly the ones it has in its hands.            *)
OwnerInv ==
  \A a \in Actors, s \in Shards : owner[s] = a <=> s \in Holding(a)

(* The prefix of its ShardSet an actor has locked so far.                  *)
LockedUpTo(a) == IF pc[a] = "lock" THEN pos[a] ELSE Len(set[a])

Shape(a) ==
  /\ pos[a] <= Len(set[a])
  /\ IsSortedAndUnique(set[a])
  /\ \A i, j \in 1..LockedUpTo(a) : i < j => set[a][i] < set[a][j]
  /\ pc[a] = "visit" => plan[a] # <<>>
  /\ plan[a] # <<>> => set[a] = <<>>
  /\ pc[a] = "idle" => set[a] = <<>> /\ plan[a] = <<>>
  /\ pc[a] = "release" => plan[a] = <<>>
  /\ a \in Tasks => set[a] = <<>> /\ pc[a] \in {"idle", "run", "visit"}

ShapeInv == \A a \in Actors : Shape(a)

(* A shard whose published counter is behind is in the hands of somebody   *)
(* who will publish it before unlocking.                                   *)
MirrorInv ==
  \A s \in Shards :
    /\ mirror[s] <= dirty[s]
    /\ mirror[s] # dirty[s] =>
         /\ owner[s] \in Actors
         /\ \/ owner[s] \in Threads /\ pc[owner[s]] = "run"
            \/ owner[s] \in Tasks /\ pc[owner[s]] = "visit"

IInv == TypeOK /\ ShapeInv /\ OwnerInv /\ MirrorInv

-----------------------------------------------------------------------------

(* What ShardSet::finish returns: a sequence of shards, adjacent elements  *)
(* increasing.                                                             *)
LEMMA FinishShape ==
  ASSUME NEW raw, NEW s \in Finish(raw)
  PROVE  /\ s \in Seq(Shards)
         /\ IsSortedAndUnique(s)
<1>1. PICK n \in 0..N : s \in [1..n -> Shards]
  BY DEF Finish
<1>2. n \in Nat
  BY LockConstants
<1>3. s \in Seq(Shards)
  BY <1>1, <1>2, SeqDef
<1>4. QED
  BY <1>3 DEF Finish

LEMMA ShardSetForShape ==
  ASSUME NEW c \in Commands, NEW s \in ShardSetFor(c)
  PROVE  /\ s \in Seq(Shards)
         /\ IsSortedAndUnique(s)
BY FinishShape DEF ShardSetFor

(* The control state of actor b is left alone.                             *)
Same(b) ==
  /\ pc'[b] = pc[b]
  /\ set'[b] = set[b]
  /\ pos'[b] = pos[b]
  /\ plan'[b] = plan[b]

(* Shape and Holding depend on an actor's own control state only.          *)
LEMMA Frame ==
  ASSUME NEW b, Same(b)
  PROVE  Shape(b)' = Shape(b) /\ Holding(b)' = Holding(b)
BY DEF Same, Shape, LockedUpTo, IsSortedAndUnique, Holding, Guards

LEMMA TypeOKStep == TypeOK /\ ShapeInv /\ [Next]_vars => TypeOK'
<1> SUFFICES ASSUME TypeOK, ShapeInv, [Next]_vars PROVE TypeOK'
  OBVIOUS
<1> USE LockConstants DEF TypeOK, Phases
<1>1. ASSUME NEW t \in Threads, NEW c \in Commands, Dispatch(t, c)
      PROVE  TypeOK'
  <2>1. t \in Actors
    BY DEF Actors
  <2>2. c.visits \in Seq(Shards)
    BY DEF Command
  <2>3. PICK s \in ShardSetFor(c) : set' = [set EXCEPT ![t] = s]
    BY <1>1 DEF Dispatch
  <2>4. s \in Seq(Shards)
    BY <2>3, ShardSetForShape
  <2>5. QED
    BY <1>1, <2>1, <2>2, <2>3, <2>4 DEF Dispatch
<1>2. ASSUME NEW t \in Threads, LockNext(t) PROVE TypeOK'
  <2>1. t \in Actors
    BY DEF Actors
  <2>2. QED
    BY <1>2, <2>1 DEF LockNext
<1>3. ASSUME NEW t \in Threads, StartHandler(t) PROVE TypeOK'
  BY <1>3 DEF StartHandler, Actors
<1>4. ASSUME NEW t \in Threads, Modify(t) PROVE TypeOK'
  <2>1. PICK i \in 1..Len(set[t]) :
          /\ dirty[set[t][i]] < MaxDirty
          /\ dirty' = [dirty EXCEPT ![set[t][i]] = @ + 1]
    BY <1>4 DEF Modify
  <2>2. set[t][i] \in Shards
    BY DEF Actors
  <2>3. dirty' \in [Shards -> 0..MaxDirty]
    BY <2>1, <2>2, SMTT(30)
  <2>4. QED
    BY <1>4, <2>3 DEF Modify
<1>5. ASSUME NEW t \in Threads, PublishStats(t) PROVE TypeOK'
  BY <1>5 DEF PublishStats, Actors
<1>6. ASSUME NEW t \in Threads, DropGuard(t) PROVE TypeOK'
  <2>1. t \in Actors
    BY DEF Actors
  <2>2. QED
    BY <1>6, <2>1 DEF DropGuard
<1>7. ASSUME NEW t \in Threads, Return(t) PROVE TypeOK'
  BY <1>7 DEF Return, Actors
<1>8. ASSUME NEW k \in Tasks, NEW p \in Sweeps, WakeTask(k, p) PROVE TypeOK'
  BY <1>8 DEF WakeTask, Actors
<1>9. ASSUME NEW k \in Tasks, SweepRemove(k) PROVE TypeOK'
  <2>1. /\ k \in Actors
        /\ plan[k] # <<>>
    BY <1>9 DEF SweepRemove, Actors, ShapeInv, Shape
  <2>2. Head(plan[k]) \in Shards
    BY <2>1
  <2>3. dirty' \in [Shards -> 0..MaxDirty]
    BY <1>9, <2>2 DEF SweepRemove
  <2>4. QED
    BY <1>9, <2>3 DEF SweepRemove
<1>10. ASSUME NEW k \in Tasks, SleepTask(k) PROVE TypeOK'
  BY <1>10 DEF SleepTask, Actors
<1>11. ASSUME NEW a \in Actors, VisitLock(a) PROVE TypeOK'
  BY <1>11 DEF VisitLock
<1>12. ASSUME NEW a \in Actors, VisitUnlock(a) PROVE TypeOK'
  <2>1. plan[a] # <<>>
    BY <1>12 DEF VisitUnlock, ShapeInv, Shape
  <2>2. /\ Head(plan[a]) \in Shards
        /\ Tail(plan[a]) \in Seq(Shards)
        /\ <<>> \in Seq(Shards)
    BY <2>1
  <2>3. QED
    BY <1>12, <2>2, ZenonT(30) DEF VisitUnlock
<1>13. CASE UNCHANGED vars
  BY <1>13 DEF vars
<1>14. QED
  BY <1>1, <1>2, <1>3, <1>4, <1>5, <1>6, <1>7, <1>8, <1>9, <1>10, <1>11,
     <1>12, <1>13 DEF Next, DispatchStep, Sweep, Visit

(* The mutex taken next lies above every mutex lock_set has already taken. *)
LEMMA NextIsAbove ==
  ASSUME TypeOK, NEW a \in Actors, Shape(a), pc[a] = "lock",
         pos[a] < Len(set[a])
  PROVE  /\ set[a][pos[a]+1] \in Shards
         /\ \A i \in 1..pos[a] : set[a][i] < set[a][pos[a]+1]
<1> DEFINE s == set[a]
<1> DEFINE p == pos[a]
<1>1. s \in Seq(Shards) /\ p \in Nat /\ p < Len(s) /\ Len(s) \in Nat
  BY DEF TypeOK
<1>2. \A i, j \in 1..p : i < j => s[i] < s[j]
  BY DEF Shape, LockedUpTo
<1>3. \A i \in 1..Len(s)-1 : s[i] < s[i+1]
  BY DEF Shape, IsSortedAndUnique
<1>4. \A i \in 1..Len(s) : s[i] \in Shards /\ s[i] \in Int
  BY <1>1, LockConstants DEF Shards
<1>5. ASSUME NEW i \in 1..p PROVE s[i] < s[p+1]
  <2>1. p \in 1..Len(s)-1 /\ s[p] < s[p+1]
    BY <1>1, <1>3, SMTT(30)
  <2>2. i = p \/ s[i] < s[p]
    BY <1>1, <1>2
  <2>3. s[i] \in Int /\ s[p] \in Int /\ s[p+1] \in Int
    BY <1>1, <1>4
  <2>4. QED
    BY <2>1, <2>2, <2>3
<1>6. QED
  BY <1>1, <1>4, <1>5

LEMMA ShapeStep == TypeOK /\ ShapeInv /\ [Next]_vars => ShapeInv'
<1> SUFFICES ASSUME TypeOK, ShapeInv, [Next]_vars PROVE ShapeInv'
  OBVIOUS
<1>0. ASSUME NEW a \in Actors, Shape(a)', \A b \in Actors \ {a} : Same(b)
      PROVE  ShapeInv'
  BY <1>0, Frame DEF ShapeInv
<1>a. ASSUME NEW a \in Actors
      PROVE  /\ Shape(a)
             /\ set[a] \in Seq(Shards)
             /\ pos[a] \in Nat
             /\ plan[a] \in Seq(Shards)
             /\ pc[a] \in Phases
  BY DEF TypeOK, ShapeInv
<1>b. Threads \subseteq Actors /\ Tasks \subseteq Actors
      /\ \A t \in Threads : t \notin Tasks
  BY LockConstants DEF Actors
<1>1. ASSUME NEW t \in Threads, NEW c \in Commands, Dispatch(t, c)
      PROVE  ShapeInv'
  <2>1. PICK s \in ShardSetFor(c) : set' = [set EXCEPT ![t] = s]
    BY <1>1 DEF Dispatch
  <2>2. s \in Seq(Shards) /\ IsSortedAndUnique(s) /\ Len(s) \in Nat
    BY <2>1, ShardSetForShape
  <2>3. c.visits # <<>> => s = <<>>
    <3>1. SUFFICES ASSUME c.visits # <<>> PROVE s = <<>>
      OBVIOUS
    <3>2. ~c.all /\ c.keys = <<>>
      BY <3>1, LockConstants
    <3>3. Range(s) = Range([i \in 1..Len(c.keys) |-> ShardOf[c.keys[i]]])
      BY <2>1, <3>2 DEF ShardSetFor, Finish
    <3>4. Range([i \in 1..Len(c.keys) |-> ShardOf[c.keys[i]]]) = {}
      BY <3>2 DEF Range
    <3>5. \A i \in 1..Len(s) : s[i] \in Range(s)
      BY <2>2 DEF Range
    <3>6. Len(s) = 0
      <4>1. 1 \notin 1..Len(s)
        BY <3>3, <3>4, <3>5
      <4>2. QED
        BY <2>2, <4>1
    <3>7. QED
      BY <2>2, <3>6
  <2>4. /\ pc'[t] = "lock" /\ set'[t] = s /\ pos'[t] = 0
        /\ plan'[t] = c.visits
    BY <1>1, <1>b, <2>1 DEF Dispatch, TypeOK
  <2>5. Shape(t)'
    BY <2>2, <2>3, <2>4, <1>b DEF Shape, LockedUpTo
  <2>6. \A b \in Actors \ {t} : Same(b)
    BY <1>1, <1>b DEF Dispatch, TypeOK, Same
  <2>7. QED
    BY <1>0, <1>b, <2>5, <2>6
<1>2. ASSUME NEW t \in Threads, LockNext(t) PROVE ShapeInv'
  <2>1. /\ pc'[t] = "lock" /\ pc[t] = "lock" /\ set'[t] = set[t]
        /\ pos'[t] = pos[t] + 1 /\ plan'[t] = plan[t]
        /\ pos[t] < Len(set[t])
    BY <1>2, <1>b DEF LockNext, TypeOK
  <2>2. \A i \in 1..pos[t] : set[t][i] < set[t][pos[t]+1]
    BY <1>a, <1>b, <2>1, NextIsAbove
  <2>3. \A i, j \in 1..pos[t] : i < j => set[t][i] < set[t][j]
    BY <1>a, <1>b, <2>1 DEF Shape, LockedUpTo
  <2>4. \A i, j \in 1..pos[t]+1 : i < j => set[t][i] < set[t][j]
    BY <1>a, <1>b, <2>2, <2>3
  <2>5. Shape(t)'
    BY <1>a, <1>b, <2>1, <2>4 DEF Shape, LockedUpTo, IsSortedAndUnique
  <2>6. \A b \in Actors \ {t} : Same(b)
    BY <1>2, <1>b DEF LockNext, TypeOK, Same
  <2>7. QED
    BY <1>0, <1>b, <2>5, <2>6
<1>3. ASSUME NEW t \in Threads, StartHandler(t) PROVE ShapeInv'
  <2>1. /\ pc'[t] = "run" /\ set'[t] = set[t] /\ pos'[t] = pos[t]
        /\ plan'[t] = plan[t] /\ pc[t] = "lock" /\ pos[t] = Len(set[t])
    BY <1>3, <1>b DEF StartHandler, TypeOK
  <2>2. Shape(t)'
    BY <1>a, <1>b, <2>1 DEF Shape, LockedUpTo, IsSortedAndUnique
  <2>3. \A b \in Actors \ {t} : Same(b)
    BY <1>3, <1>b DEF StartHandler, TypeOK, Same
  <2>4. QED
    BY <1>0, <1>b, <2>2, <2>3
<1>4. ASSUME NEW t \in Threads, Modify(t) PROVE ShapeInv'
  BY <1>4, Frame DEF Modify, ShapeInv, Same
<1>5. ASSUME NEW t \in Threads, PublishStats(t) PROVE ShapeInv'
  <2>1. /\ pc'[t] = "release" /\ set'[t] = set[t] /\ pos'[t] = 0
        /\ plan'[t] = plan[t] /\ pc[t] = "run" /\ plan[t] = <<>>
    BY <1>5, <1>b DEF PublishStats, TypeOK
  <2>2. Shape(t)'
    BY <1>a, <1>b, <2>1 DEF Shape, LockedUpTo, IsSortedAndUnique
  <2>3. \A b \in Actors \ {t} : Same(b)
    BY <1>5, <1>b DEF PublishStats, TypeOK, Same
  <2>4. QED
    BY <1>0, <1>b, <2>2, <2>3
<1>6. ASSUME NEW t \in Threads, DropGuard(t) PROVE ShapeInv'
  <2>1. /\ pc'[t] = "release" /\ set'[t] = set[t] /\ pos'[t] = pos[t] + 1
        /\ plan'[t] = plan[t] /\ pc[t] = "release" /\ pos[t] < Len(set[t])
    BY <1>6, <1>b DEF DropGuard, TypeOK
  <2>2. Shape(t)'
    BY <1>a, <1>b, <2>1 DEF Shape, LockedUpTo, IsSortedAndUnique
  <2>3. \A b \in Actors \ {t} : Same(b)
    BY <1>6, <1>b DEF DropGuard, TypeOK, Same
  <2>4. QED
    BY <1>0, <1>b, <2>2, <2>3
<1>7. ASSUME NEW t \in Threads, Return(t) PROVE ShapeInv'
  <2>1. /\ pc'[t] = "idle" /\ set'[t] = <<>> /\ pos'[t] = 0
        /\ plan'[t] = plan[t] /\ pc[t] = "release"
    BY <1>7, <1>b DEF Return, TypeOK
  <2>2. Shape(t)'
    BY <1>a, <1>b, <2>1 DEF Shape, LockedUpTo, IsSortedAndUnique
  <2>3. \A b \in Actors \ {t} : Same(b)
    BY <1>7, <1>b DEF Return, TypeOK, Same
  <2>4. QED
    BY <1>0, <1>b, <2>2, <2>3
<1>8. ASSUME NEW k \in Tasks, NEW p \in Sweeps, WakeTask(k, p)
      PROVE  ShapeInv'
  <2>1. /\ pc'[k] = "run" /\ set'[k] = set[k] /\ pos'[k] = pos[k]
        /\ pc[k] = "idle"
    BY <1>8, <1>b DEF WakeTask, TypeOK
  <2>2. Shape(k)'
    BY <1>a, <1>b, <2>1 DEF Shape, LockedUpTo, IsSortedAndUnique
  <2>3. \A b \in Actors \ {k} : Same(b)
    BY <1>8, <1>b DEF WakeTask, TypeOK, Same
  <2>4. QED
    BY <1>0, <1>b, <2>2, <2>3
<1>9. ASSUME NEW k \in Tasks, SweepRemove(k) PROVE ShapeInv'
  BY <1>9, Frame DEF SweepRemove, ShapeInv, Same
<1>10. ASSUME NEW k \in Tasks, SleepTask(k) PROVE ShapeInv'
  <2>1. /\ pc'[k] = "idle" /\ set'[k] = set[k] /\ pos'[k] = pos[k]
        /\ plan'[k] = plan[k] /\ plan[k] = <<>> /\ pc[k] = "run"
    BY <1>10, <1>b DEF SleepTask, TypeOK
  <2>2. Shape(k)'
    BY <1>a, <1>b, <2>1 DEF Shape, LockedUpTo, IsSortedAndUnique
  <2>3. \A b \in Actors \ {k} : Same(b)
    BY <1>10, <1>b DEF SleepTask, TypeOK, Same
  <2>4. QED
    BY <1>0, <1>b, <2>2, <2>3
<1>11. ASSUME NEW a \in Actors, VisitLock(a) PROVE ShapeInv'
  <2>1. /\ pc'[a] = "visit" /\ set'[a] = set[a] /\ pos'[a] = pos[a]
        /\ plan'[a] = plan[a] /\ plan[a] # <<>> /\ pc[a] = "run"
    BY <1>11 DEF VisitLock, TypeOK
  <2>2. Shape(a)'
    BY <1>a, <2>1 DEF Shape, LockedUpTo, IsSortedAndUnique
  <2>3. \A b \in Actors \ {a} : Same(b)
    BY <1>11 DEF VisitLock, TypeOK, Same
  <2>4. QED
    BY <1>0, <2>2, <2>3
<1>12. ASSUME NEW a \in Actors, VisitUnlock(a) PROVE ShapeInv'
  <2>1. /\ pc'[a] = "run" /\ set'[a] = set[a] /\ pos'[a] = pos[a]
        /\ pc[a] = "visit" /\ plan[a] # <<>> /\ set[a] = <<>>
    BY <1>12, <1>a DEF VisitUnlock, TypeOK, Shape
  <2>2. Shape(a)'
    BY <1>a, <2>1 DEF Shape, LockedUpTo, IsSortedAndUnique
  <2>3. \A b \in Actors \ {a} : Same(b)
    BY <1>12 DEF VisitUnlock, TypeOK, Same
  <2>4. QED
    BY <1>0, <2>2, <2>3
<1>13. CASE UNCHANGED vars
  BY <1>13, Frame DEF vars, ShapeInv, Same
<1>14. QED
  BY <1>1, <1>2, <1>3, <1>4, <1>5, <1>6, <1>7, <1>8, <1>9, <1>10, <1>11,
     <1>12, <1>13 DEF Next, DispatchStep, Sweep, Visit

(* Three ways a step can treat the mutexes: actor a takes one, drops one,  *)
(* or nobody takes or drops any.                                           *)
LEMMA TakesOne ==
  ASSUME TypeOK, OwnerInv, NEW a \in Actors, NEW s \in Shards,
         owner[s] = NoThread, owner' = [owner EXCEPT ![s] = a],
         Holding(a)' = Holding(a) \cup {s},
         \A b \in Actors \ {a} : Same(b)
  PROVE  OwnerInv'
<1> SUFFICES ASSUME NEW b \in Actors, NEW r \in Shards
             PROVE  owner'[r] = b <=> r \in Holding(b)'
  BY DEF OwnerInv
<1>1. owner'[r] = IF r = s THEN a ELSE owner[r]
  BY DEF TypeOK
<1>2. owner[r] = b <=> r \in Holding(b)
  BY DEF OwnerInv
<1>3. NoThread \notin Actors
  BY LockConstants DEF Actors
<1>4. s \notin Holding(b)
  BY <1>3 DEF OwnerInv
<1>5. CASE b = a
  BY <1>1, <1>2, <1>5
<1>6. CASE b # a
  BY <1>1, <1>2, <1>4, <1>6, Frame
<1>7. QED
  BY <1>5, <1>6

LEMMA DropsOne ==
  ASSUME TypeOK, OwnerInv, NEW a \in Actors, NEW s \in Shards,
         s \in Holding(a), owner' = [owner EXCEPT ![s] = NoThread],
         Holding(a)' = Holding(a) \ {s},
         \A b \in Actors \ {a} : Same(b)
  PROVE  OwnerInv'
<1> SUFFICES ASSUME NEW b \in Actors, NEW r \in Shards
             PROVE  owner'[r] = b <=> r \in Holding(b)'
  BY DEF OwnerInv
<1>1. owner'[r] = IF r = s THEN NoThread ELSE owner[r]
  BY DEF TypeOK
<1>2. owner[r] = b <=> r \in Holding(b)
  BY DEF OwnerInv
<1>3. NoThread # b
  BY LockConstants DEF Actors
<1>4. owner[s] = a
  BY DEF OwnerInv
<1>5. CASE b = a
  BY <1>1, <1>2, <1>3, <1>5
<1>6. CASE b # a
  BY <1>1, <1>2, <1>3, <1>4, <1>6, Frame
<1>7. QED
  BY <1>5, <1>6

LEMMA KeepsAll ==
  ASSUME OwnerInv, NEW a \in Actors, owner' = owner,
         Holding(a)' = Holding(a), \A b \in Actors \ {a} : Same(b)
  PROVE  OwnerInv'
BY Frame DEF OwnerInv

LEMMA OwnerStep ==
  TypeOK /\ ShapeInv /\ OwnerInv /\ [Next]_vars => OwnerInv'
<1> SUFFICES ASSUME TypeOK, ShapeInv, OwnerInv, [Next]_vars PROVE OwnerInv'
  OBVIOUS
<1>a. ASSUME NEW a \in Actors
      PROVE  /\ Shape(a)
             /\ set[a] \in Seq(Shards) /\ Len(set[a]) \in Nat
             /\ pos[a] \in Nat
             /\ plan[a] \in Seq(Shards)
  BY DEF TypeOK, ShapeInv
<1>b. Threads \subseteq Actors /\ Tasks \subseteq Actors
  BY DEF Actors
<1>1. ASSUME NEW t \in Threads, NEW c \in Commands, Dispatch(t, c)
      PROVE  OwnerInv'
  <2>1. /\ pc[t] = "idle" /\ pc'[t] = "lock" /\ pos'[t] = 0
        /\ owner' = owner
    BY <1>1, <1>b DEF Dispatch, TypeOK
  <2>2. set[t] = <<>>
    BY <1>a, <1>b, <2>1 DEF Shape
  <2>3. Holding(t) = {}
    BY <2>1, <2>2 DEF Holding, Guards
  <2>4. Holding(t)' = {}
    BY <2>1 DEF Holding, Guards
  <2>5. \A b \in Actors \ {t} : Same(b)
    BY <1>1, <1>b DEF Dispatch, TypeOK, Same
  <2>6. QED
    BY <1>b, <2>1, <2>3, <2>4, <2>5, KeepsAll
<1>2. ASSUME NEW t \in Threads, LockNext(t) PROVE OwnerInv'
  <2> DEFINE s == set[t][pos[t]+1]
  <2>1. /\ pc'[t] = "lock" /\ pc[t] = "lock" /\ set'[t] = set[t]
        /\ pos'[t] = pos[t] + 1 /\ plan'[t] = plan[t]
        /\ pos[t] < Len(set[t])
    BY <1>2, <1>b DEF LockNext, TypeOK
  <2>2. s \in Shards
    BY <1>a, <1>b, <2>1
  <2>3. Holding(t) = {set[t][i] : i \in 1..pos[t]}
    BY <1>a, <1>b, <2>1 DEF Holding, Guards
  <2>4. Holding(t)' = {set[t][i] : i \in 1..pos[t]+1}
    BY <1>a, <1>b, <2>1 DEF Holding, Guards
  <2>5. Holding(t)' = Holding(t) \cup {s}
    BY <1>a, <1>b, <2>3, <2>4
  <2>6. \A b \in Actors \ {t} : Same(b)
    BY <1>2, <1>b DEF LockNext, TypeOK, Same
  <2>7. owner[s] = NoThread /\ owner' = [owner EXCEPT ![s] = t]
    BY <1>2 DEF LockNext
  <2> HIDE DEF s
  <2>8. QED
    BY <1>b, <2>2, <2>5, <2>6, <2>7, TakesOne
<1>3. ASSUME NEW t \in Threads, StartHandler(t) PROVE OwnerInv'
  <2>1. /\ pc'[t] = "run" /\ set'[t] = set[t] /\ pos'[t] = pos[t]
        /\ plan'[t] = plan[t] /\ pc[t] = "lock" /\ pos[t] = Len(set[t])
        /\ owner' = owner
    BY <1>3, <1>b DEF StartHandler, TypeOK
  <2>2. Holding(t)' = Holding(t)
    BY <1>a, <1>b, <2>1 DEF Holding, Guards
  <2>3. \A b \in Actors \ {t} : Same(b)
    BY <1>3, <1>b DEF StartHandler, TypeOK, Same
  <2>4. QED
    BY <1>b, <2>1, <2>2, <2>3, KeepsAll
<1>4. ASSUME NEW t \in Threads, Modify(t) PROVE OwnerInv'
  BY <1>4, Frame DEF Modify, OwnerInv, Same
<1>5. ASSUME NEW t \in Threads, PublishStats(t) PROVE OwnerInv'
  <2>1. /\ pc'[t] = "release" /\ set'[t] = set[t] /\ pos'[t] = 0
        /\ plan'[t] = plan[t] /\ pc[t] = "run" /\ owner' = owner
    BY <1>5, <1>b DEF PublishStats, TypeOK
  <2>2. Holding(t)' = Holding(t)
    BY <1>a, <1>b, <2>1 DEF Holding, Guards
  <2>3. \A b \in Actors \ {t} : Same(b)
    BY <1>5, <1>b DEF PublishStats, TypeOK, Same
  <2>4. QED
    BY <1>b, <2>1, <2>2, <2>3, KeepsAll
<1>6. ASSUME NEW t \in Threads, DropGuard(t) PROVE OwnerInv'
  <2> DEFINE s == set[t][pos[t]+1]
  <2>1. /\ pc'[t] = "release" /\ set'[t] = set[t] /\ pos'[t] = pos[t] + 1
        /\ plan'[t] = plan[t] /\ pc[t] = "release" /\ pos[t] < Len(set[t])
    BY <1>6, <1>b DEF DropGuard, TypeOK
  <2>2. s \in Shards
    BY <1>a, <1>b, <2>1
  <2>3. Holding(t) = {set[t][i] : i \in pos[t]+1..Len(set[t])}
    BY <1>a, <1>b, <2>1 DEF Holding, Guards
  <2>4. Holding(t)' = {set[t][i] : i \in pos[t]+2..Len(set[t])}
    BY <1>a, <1>b, <2>1 DEF Holding, Guards
  <2>5. \A i \in pos[t]+2..Len(set[t]) : set[t][i] # s
    <3>1. \A i, j \in 1..Len(set[t]) : i < j => set[t][i] < set[t][j]
      BY <1>a, <1>b, <2>1 DEF Shape, LockedUpTo
    <3>2. \A i \in 1..Len(set[t]) : set[t][i] \in Int
      BY <1>a, <1>b, LockConstants DEF Shards
    <3>3. QED
      BY <1>a, <1>b, <2>1, <3>1, <3>2, SMTT(30)
  <2>6. Holding(t)' = Holding(t) \ {s} /\ s \in Holding(t)
    <3>1. s \in Holding(t)
      BY <1>a, <1>b, <2>1, <2>3
    <3>2. pos[t]+1..Len(set[t]) = {pos[t]+1} \cup (pos[t]+2..Len(set[t]))
      BY <1>a, <1>b, <2>1
    <3>3. Holding(t) = {s} \cup Holding(t)'
      BY <2>3, <2>4, <3>2
    <3>4. s \notin Holding(t)'
      BY <2>4, <2>5
    <3>5. QED
      BY <3>1, <3>3, <3>4
  <2>7. \A b \in Actors \ {t} : Same(b)
    BY <1>6, <1>b DEF DropGuard, TypeOK, Same
  <2>8. owner' = [owner EXCEPT ![s] = NoThread]
    BY <1>6 DEF DropGuard
  <2> HIDE DEF s
  <2>9. QED
    BY <1>b, <2>2, <2>6, <2>7, <2>8, DropsOne
<1>7. ASSUME NEW t \in Threads, Return(t) PROVE OwnerInv'
  <2>1. /\ pc'[t] = "idle" /\ set'[t] = <<>> /\ pos[t] = Len(set[t])
        /\ pc[t] = "release" /\ owner' = owner
    BY <1>7, <1>b DEF Return, TypeOK
  <2>2. Holding(t) = {}
    BY <1>a, <1>b, <2>1 DEF Holding, Guards
  <2>3. Holding(t)' = {}
    BY <2>1 DEF Holding, Guards
  <2>4. \A b \in Actors \ {t} : Same(b)
    BY <1>7, <1>b DEF Return, TypeOK, Same
  <2>5. QED
    BY <1>b, <2>1, <2>2, <2>3, <2>4, KeepsAll
<1>8. ASSUME NEW k \in Tasks, NEW p \in Sweeps, WakeTask(k, p)
      PROVE  OwnerInv'
  <2>1. /\ pc'[k] = "run" /\ set'[k] = set[k] /\ pc[k] = "idle"
        /\ owner' = owner
    BY <1>8, <1>b DEF WakeTask, TypeOK
  <2>2. Holding(k)' = Holding(k)
    BY <2>1 DEF Holding, Guards
  <2>3. \A b \in Actors \ {k} : Same(b)
    BY <1>8, <1>b DEF WakeTask, TypeOK, Same
  <2>4. QED
    BY <1>b, <2>1, <2>2, <2>3, KeepsAll
<1>9. ASSUME NEW k \in Tasks, SweepRemove(k) PROVE OwnerInv'
  BY <1>9, Frame DEF SweepRemove, OwnerInv, Same
<1>10. ASSUME NEW k \in Tasks, SleepTask(k) PROVE OwnerInv'
  <2>1. /\ pc'[k] = "idle" /\ set'[k] = set[k] /\ pc[k] = "run"
        /\ owner' = owner
    BY <1>10, <1>b DEF SleepTask, TypeOK
  <2>2. Holding(k)' = Holding(k)
    BY <2>1 DEF Holding, Guards
  <2>3. \A b \in Actors \ {k} : Same(b)
    BY <1>10, <1>b DEF SleepTask, TypeOK, Same
  <2>4. QED
    BY <1>b, <2>1, <2>2, <2>3, KeepsAll
<1>11. ASSUME NEW a \in Actors, VisitLock(a) PROVE OwnerInv'
  <2> DEFINE s == Head(plan[a])
  <2>1. /\ pc'[a] = "visit" /\ set'[a] = set[a] /\ plan'[a] = plan[a]
        /\ plan[a] # <<>> /\ pc[a] = "run"
        /\ owner[s] = NoThread /\ owner' = [owner EXCEPT ![s] = a]
    BY <1>11 DEF VisitLock, TypeOK
  <2>2. s \in Shards
    BY <1>a, <2>1
  <2>3. Holding(a)' = Holding(a) \cup {s}
    BY <2>1 DEF Holding, Guards
  <2>4. \A b \in Actors \ {a} : Same(b)
    BY <1>11 DEF VisitLock, TypeOK, Same
  <2> HIDE DEF s
  <2>5. QED
    BY <2>1, <2>2, <2>3, <2>4, TakesOne
<1>12. ASSUME NEW a \in Actors, VisitUnlock(a) PROVE OwnerInv'
  <2> DEFINE s == Head(plan[a])
  <2>1. /\ pc'[a] = "run" /\ set'[a] = set[a] /\ pc[a] = "visit"
        /\ owner' = [owner EXCEPT ![s] = NoThread]
    BY <1>12 DEF VisitUnlock, TypeOK
  <2>2. plan[a] # <<>> /\ set[a] = <<>>
    BY <1>a, <2>1 DEF Shape
  <2>3. s \in Shards
    BY <1>a, <2>2
  <2>4. Holding(a) = {s} /\ Holding(a)' = {}
    BY <2>1, <2>2 DEF Holding, Guards
  <2>5. \A b \in Actors \ {a} : Same(b)
    BY <1>12 DEF VisitUnlock, TypeOK, Same
  <2> HIDE DEF s
  <2>6. QED
    BY <2>1, <2>3, <2>4, <2>5, DropsOne
<1>13. CASE UNCHANGED vars
  BY <1>13, Frame DEF vars, OwnerInv, Same
<1>14. QED
  BY <1>1, <1>2, <1>3, <1>4, <1>5, <1>6, <1>7, <1>8, <1>9, <1>10, <1>11,
     <1>12, <1>13 DEF Next, DispatchStep, Sweep, Visit

LEMMA MirrorStep ==
  IInv /\ [Next]_vars =>
    MirrorInv' /\ \A s \in Shards : mirror'[s] >= mirror[s]
<1> SUFFICES ASSUME IInv, [Next]_vars, NEW s \in Shards
             PROVE  /\ mirror'[s] >= mirror[s]
                    /\ mirror'[s] <= dirty'[s]
                    /\ mirror'[s] # dirty'[s] =>
                         /\ owner'[s] \in Actors
                         /\ \/ owner'[s] \in Threads /\ pc'[owner'[s]] = "run"
                            \/ owner'[s] \in Tasks /\ pc'[owner'[s]] = "visit"
  BY DEF MirrorInv
<1> DEFINE Publisher == /\ owner[s] \in Actors
                        /\ \/ owner[s] \in Threads /\ pc[owner[s]] = "run"
                           \/ owner[s] \in Tasks /\ pc[owner[s]] = "visit"
<1>a. /\ mirror[s] \in Int /\ dirty[s] \in Int
      /\ mirror[s] <= dirty[s]
      /\ mirror[s] # dirty[s] => Publisher
  BY LockConstants DEF IInv, MirrorInv, TypeOK
<1>b. /\ TypeOK /\ ShapeInv /\ OwnerInv
      /\ Threads \subseteq Actors /\ Tasks \subseteq Actors
      /\ \A t \in Threads : t \notin Tasks
      /\ NoThread \notin Actors
  BY LockConstants DEF IInv, Actors
<1>c. ASSUME NEW a \in Actors
      PROVE  /\ Shape(a)
             /\ set[a] \in Seq(Shards) /\ Len(set[a]) \in Nat
             /\ pos[a] \in Nat
             /\ plan[a] \in Seq(Shards)
  BY <1>b DEF TypeOK, ShapeInv
<1>1. ASSUME NEW t \in Threads, NEW c \in Commands, Dispatch(t, c)
      PROVE  /\ mirror' = mirror /\ dirty' = dirty
             /\ Publisher => owner'[s] = owner[s] /\ pc'[owner[s]] = pc[owner[s]]
  BY <1>1, <1>b DEF Dispatch, TypeOK
<1>2. ASSUME NEW t \in Threads, LockNext(t)
      PROVE  /\ mirror' = mirror /\ dirty' = dirty
             /\ Publisher => owner'[s] = owner[s] /\ pc'[owner[s]] = pc[owner[s]]
  BY <1>2, <1>b DEF LockNext, TypeOK
<1>3. ASSUME NEW t \in Threads, StartHandler(t)
      PROVE  /\ mirror' = mirror /\ dirty' = dirty
             /\ Publisher => owner'[s] = owner[s] /\ pc'[owner[s]] = pc[owner[s]]
  BY <1>3, <1>b DEF StartHandler, TypeOK
<1>6. ASSUME NEW t \in Threads, DropGuard(t)
      PROVE  /\ mirror' = mirror /\ dirty' = dirty
             /\ Publisher => owner'[s] = owner[s] /\ pc'[owner[s]] = pc[owner[s]]
  <2> DEFINE r == set[t][pos[t]+1]
  <2>1. /\ pc[t] = "release" /\ pos[t] < Len(set[t]) /\ pc' = pc
        /\ owner' = [owner EXCEPT ![r] = NoThread]
        /\ mirror' = mirror /\ dirty' = dirty
    BY <1>6 DEF DropGuard
  <2>2. r \in Holding(t) /\ r \in Shards
    BY <1>b, <1>c, <2>1 DEF Holding, Guards
  <2>3. owner[r] = t
    BY <1>b, <2>2 DEF OwnerInv
  <2>4. Publisher => s # r
    BY <1>b, <2>1, <2>3
  <2> HIDE DEF r
  <2>5. QED
    BY <1>b, <2>1, <2>2, <2>4 DEF TypeOK
<1>7. ASSUME NEW t \in Threads, Return(t)
      PROVE  /\ mirror' = mirror /\ dirty' = dirty
             /\ Publisher => owner'[s] = owner[s] /\ pc'[owner[s]] = pc[owner[s]]
  BY <1>7, <1>b DEF Return, TypeOK
<1>8. ASSUME NEW k \in Tasks, NEW p \in Sweeps, WakeTask(k, p)
      PROVE  /\ mirror' = mirror /\ dirty' = dirty
             /\ Publisher => owner'[s] = owner[s] /\ pc'[owner[s]] = pc[owner[s]]
  BY <1>8, <1>b DEF WakeTask, TypeOK
<1>10. ASSUME NEW k \in Tasks, SleepTask(k)
      PROVE  /\ mirror' = mirror /\ dirty' = dirty
             /\ Publisher => owner'[s] = owner[s] /\ pc'[owner[s]] = pc[owner[s]]
  BY <1>10, <1>b DEF SleepTask, TypeOK
<1>11. ASSUME NEW a \in Actors, VisitLock(a)
      PROVE  /\ mirror' = mirror /\ dirty' = dirty
             /\ Publisher => owner'[s] = owner[s] /\ pc'[owner[s]] = pc[owner[s]]
  <2> DEFINE r == Head(plan[a])
  <2>1. /\ pc[a] = "run" /\ plan[a] # <<>> /\ owner[r] = NoThread
        /\ owner' = [owner EXCEPT ![r] = a]
        /\ pc' = [pc EXCEPT ![a] = "visit"]
        /\ mirror' = mirror /\ dirty' = dirty
    BY <1>11 DEF VisitLock
  <2>2. r \in Shards /\ Publisher => s # r
    BY <1>b, <1>c, <2>1
  <2>3. set[a] = <<>>
    BY <1>c, <2>1 DEF Shape
  <2>4. Holding(a) = {}
    BY <2>1, <2>3 DEF Holding, Guards
  <2>5. owner[s] # a
    BY <1>b, <2>4 DEF OwnerInv
  <2> HIDE DEF r
  <2>6. QED
    BY <1>b, <2>1, <2>2, <2>5 DEF TypeOK
<1>4. ASSUME NEW t \in Threads, Modify(t)
      PROVE  /\ mirror' = mirror /\ owner' = owner /\ pc' = pc
             /\ dirty'[s] >= dirty[s]
             /\ dirty'[s] \in Int
             /\ dirty'[s] # dirty[s] => owner[s] \in Threads /\ pc[owner[s]] = "run"
  <2>1. PICK i \in 1..Len(set[t]) : dirty' = [dirty EXCEPT ![set[t][i]] = @ + 1]
    BY <1>4 DEF Modify
  <2>2. set[t][i] \in Shards /\ pc[t] = "run" /\ mirror' = mirror
        /\ owner' = owner /\ pc' = pc
    BY <1>4, <1>b, <1>c DEF Modify
  <2>3. set[t][i] \in Holding(t)
    BY <1>b, <1>c, <2>2 DEF Holding, Guards
  <2>4. owner[set[t][i]] = t
    BY <1>b, <2>2, <2>3 DEF OwnerInv
  <2>5. dirty'[s] = IF s = set[t][i] THEN dirty[s] + 1 ELSE dirty[s]
    BY <1>b, <2>1, <2>2 DEF TypeOK
  <2>6. QED
    BY <1>a, <2>2, <2>4, <2>5
<1>5. ASSUME NEW t \in Threads, PublishStats(t)
      PROVE  /\ dirty' = dirty /\ owner' = owner
             /\ \/ mirror'[s] = dirty[s]
                \/ /\ mirror'[s] = mirror[s]
                   /\ Publisher => pc'[owner[s]] = pc[owner[s]]
  <2>1. /\ pc[t] = "run" /\ pc' = [pc EXCEPT ![t] = "release"]
        /\ dirty' = dirty /\ owner' = owner
        /\ mirror'[s] = IF s \in Range(set[t]) THEN dirty[s] ELSE mirror[s]
    BY <1>5 DEF PublishStats
  <2>2. CASE s \in Range(set[t])
    BY <2>1, <2>2
  <2>3. CASE s \notin Range(set[t])
    <3>1. s \notin Holding(t)
      BY <1>b, <1>c, <2>1, <2>3 DEF Holding, Guards, Range
    <3>2. owner[s] # t
      BY <1>b, <3>1 DEF OwnerInv
    <3>3. QED
      BY <1>b, <2>1, <2>3, <3>2 DEF TypeOK
  <2>4. QED
    BY <2>2, <2>3
<1>9. ASSUME NEW k \in Tasks, SweepRemove(k)
      PROVE  /\ mirror' = mirror /\ owner' = owner /\ pc' = pc
             /\ dirty'[s] >= dirty[s]
             /\ dirty'[s] \in Int
             /\ dirty'[s] # dirty[s] => owner[s] \in Tasks /\ pc[owner[s]] = "visit"
  <2> DEFINE r == Head(plan[k])
  <2>1. /\ pc[k] = "visit" /\ mirror' = mirror /\ owner' = owner /\ pc' = pc
        /\ dirty' = [dirty EXCEPT ![r] = @ + 1]
    BY <1>9 DEF SweepRemove
  <2>2. plan[k] # <<>>
    BY <1>b, <1>c, <2>1 DEF Shape
  <2>3. r \in Shards /\ r \in Holding(k)
    BY <1>b, <1>c, <2>1, <2>2 DEF Holding
  <2>4. owner[r] = k
    BY <1>b, <2>3 DEF OwnerInv
  <2>5. dirty'[s] = IF s = r THEN dirty[s] + 1 ELSE dirty[s]
    BY <1>b, <2>1, <2>3 DEF TypeOK
  <2> HIDE DEF r
  <2>6. QED
    BY <1>a, <2>1, <2>4, <2>5
<1>12. ASSUME NEW a \in Actors, VisitUnlock(a)
      PROVE  /\ dirty' = dirty
             /\ \/ mirror'[s] = dirty[s]
                \/ /\ mirror'[s] = mirror[s]
                   /\ Publisher => owner'[s] = owner[s] /\ pc'[owner[s]] = pc[owner[s]]
  <2> DEFINE r == Head(plan[a])
  <2>1. /\ pc[a] = "visit" /\ pc' = [pc EXCEPT ![a] = "run"]
        /\ dirty' = dirty /\ owner' = [owner EXCEPT ![r] = NoThread]
        /\ mirror' = IF a \in Tasks THEN [mirror EXCEPT ![r] = dirty[r]]
                                    ELSE mirror
    BY <1>12 DEF VisitUnlock
  <2>2. plan[a] # <<>> /\ set[a] = <<>>
    BY <1>c, <2>1 DEF Shape
  <2>3. r \in Shards /\ Holding(a) = {r}
    BY <1>c, <2>1, <2>2 DEF Holding, Guards
  <2>4. /\ owner[r] = a
        /\ s # r => owner[s] # a
    BY <1>b, <2>3 DEF OwnerInv
  <2> HIDE DEF r
  <2>5. CASE s = r /\ a \in Tasks
    BY <1>b, <2>1, <2>3, <2>5 DEF TypeOK
  <2>6. CASE s = r /\ a \notin Tasks
    BY <1>a, <1>b, <2>1, <2>4, <2>6
  <2>7. CASE s # r
    BY <1>b, <2>1, <2>3, <2>4, <2>7 DEF TypeOK
  <2>8. QED
    BY <2>5, <2>6, <2>7
<1>13. CASE UNCHANGED vars
  BY <1>13, <1>a DEF vars
<1>14. CASE Next
  <2>1. CASE \E t \in Threads : Modify(t)
    BY <1>a, <1>4, <1>b, <2>1
  <2>2. CASE \E t \in Threads : PublishStats(t)
    BY <1>a, <1>5, <2>2
  <2>3. CASE \E k \in Tasks : SweepRemove(k)
    BY <1>a, <1>9, <1>b, <2>3
  <2>4. CASE \E a \in Actors : VisitUnlock(a)
    BY <1>a, <1>12, <2>4
  <2>5. QED
    BY <1>14, <1>a, <1>1, <1>2, <1>3, <1>6, <1>7, <1>8, <1>10, <1>11,
       <2>1, <2>2, <2>3, <2>4 DEF Next, DispatchStep, Sweep, Visit
<1>15. QED
  BY <1>13, <1>14

LEMMA InitIInv == Init => IInv
<1> SUFFICES ASSUME Init PROVE IInv
  OBVIOUS
<1>1. TypeOK
  BY LockConstants DEF Init, TypeOK, Phases
<1>2. \A a \in Actors : pc[a] = "idle" /\ set[a] = <<>> /\ pos[a] = 0 /\ plan[a] = <<>>
  BY DEF Init
<1>3. ShapeInv
  BY <1>2 DEF ShapeInv, Shape, LockedUpTo, IsSortedAndUnique
<1>4. \A a \in Actors : Holding(a) = {}
  BY <1>2 DEF Holding, Guards
<1>5. OwnerInv
  BY <1>4, LockConstants DEF Init, OwnerInv, Actors
<1>6. MirrorInv
  BY DEF Init, MirrorInv
<1>7. QED
  BY <1>1, <1>3, <1>5, <1>6 DEF IInv

(* The inductive invariant holds in every state: the mutexes an actor owns *)
(* are the shards in its hands, and a shard whose published counter is     *)
(* behind is in the hands of somebody who will publish it.                 *)
THEOREM LocksInvariant == Spec => []IInv
<1>1. IInv /\ [Next]_vars => IInv'
  BY TypeOKStep, ShapeStep, OwnerStep, MirrorStep DEF IInv
<1>2. QED
  BY InitIInv, <1>1, PTL DEF Spec

(* The types of the variables of ShardLocks, for any number of shards,     *)
(* threads and commands.                                                   *)
THEOREM LocksTypeCorrect == Spec => []TypeOK
BY LocksInvariant, PTL DEF IInv

(* lock_set, the handlers that lock by themselves and the background tasks *)
(* together keep every shard in the hands of one actor at a time.          *)
THEOREM LocksMutualExclusion == Spec => []MutualExclusion
<1>1. IInv => MutualExclusion
  <2> SUFFICES ASSUME IInv, NEW a \in Actors, NEW b \in Actors, a # b,
                      NEW s, s \in Holding(a), s \in Holding(b)
               PROVE  FALSE
    BY DEF MutualExclusion
  <2>1. set[a] \in Seq(Shards) /\ plan[a] \in Seq(Shards)
    BY DEF IInv, TypeOK
  <2>2. pc[a] = "visit" => plan[a] # <<>>
    BY DEF IInv, ShapeInv, Shape
  <2>3. s \in Shards
    BY <2>1, <2>2 DEF Holding, Guards
  <2>4. QED
    BY <2>3 DEF IInv, OwnerInv
<1>2. QED
  BY LocksInvariant, <1>1, PTL

LEMMA WaitsAboveState == IInv => WaitsAbove
<1> SUFFICES ASSUME IInv, NEW a \in Actors, Wanting(a), NEW s \in Holding(a)
             PROVE  s < Wanted(a)
  BY DEF WaitsAbove
<1>1. Shape(a) /\ TypeOK
  BY DEF IInv, ShapeInv
<1>2. CASE pc[a] = "lock"
  <2>1. pos[a] < Len(set[a])
    BY <1>2 DEF Wanting
  <2>2. \A i \in 1..pos[a] : set[a][i] < set[a][pos[a]+1]
    BY <1>1, <1>2, <2>1, NextIsAbove
  <2>3. PICK i \in 1..Len(set[a]) : i <= pos[a] /\ s = set[a][i]
    BY <1>2 DEF Holding, Guards
  <2>4. QED
    BY <1>1, <1>2, <2>2, <2>3 DEF Wanted, TypeOK
<1>3. CASE pc[a] # "lock"
  <2>1. pc[a] = "run" /\ plan[a] # <<>>
    BY <1>3 DEF Wanting
  <2>2. set[a] = <<>>
    BY <1>1, <2>1 DEF Shape
  <2>3. Holding(a) = {}
    BY <2>1, <2>2 DEF Holding, Guards
  <2>4. QED
    BY <2>3
<1>4. QED
  BY <1>2, <1>3

(* Invariant (I) of engine.rs, extended to SCAN, INFO and the background   *)
(* tasks: an actor waits only for a shard above every shard it holds.      *)
THEOREM LocksWaitAbove == Spec => []WaitsAbove
BY LocksInvariant, WaitsAboveState, PTL

(* A shard is free, or its owner has it in its hands and will release it:  *)
(* dispatch never returns with a mutex still locked.                       *)
THEOREM LocksNothingLeaked == Spec => []NothingLeaked
<1>1. IInv => NothingLeaked
  BY DEF IInv, TypeOK, OwnerInv, NothingLeaked
<1>2. QED
  BY LocksInvariant, <1>1, PTL

(* The lock-free statistics are exact for every unlocked shard.            *)
THEOREM LocksMirrorExact == Spec => []MirrorExactWhenFree
<1>1. IInv => MirrorExactWhenFree
  BY LockConstants DEF IInv, MirrorInv, MirrorExactWhenFree, Actors
<1>2. QED
  BY LocksInvariant, <1>1, PTL

(* A published counter never decreases.                                    *)
THEOREM LocksMirrorMonotone == Spec => MirrorMonotone
<1>1. IInv /\ [Next]_vars => [\A s \in Shards : mirror'[s] >= mirror[s]]_vars
  BY MirrorStep
<1>2. QED
  BY LocksInvariant, <1>1, PTL DEF Spec, MirrorMonotone

(* Shard indices are bounded, so a non-empty set of them has a largest one. *)
LEMMA LargestShard ==
  ASSUME NEW S \in SUBSET Shards, S # {}
  PROVE  \E m \in S : \A x \in S : x <= m
<1> DEFINE R == OpToRel(<, Nat)
<1> DEFINE T == {N - x : x \in S}
<1>1. \A x \in S : x \in Int /\ 0 <= x /\ x <= N - 1
  BY LockConstants DEF Shards
<1>2. T \subseteq Nat /\ T # {}
  BY <1>1, LockConstants
<1>3. \A y, z \in Nat : y < z => <<y, z>> \in R
  BY DEF OpToRel
<1>4. IsWellFoundedOn(R, Nat)
  BY NatLessThanWellFounded
<1>5. PICK z \in T : \A y \in T : ~(<<y, z>> \in R)
  <2> HIDE DEF R, T
  <2>1. QED
    BY <1>2, <1>4, WFMin
<1>6. PICK m \in S : z = N - m
  BY <1>5
<1>7. \A x \in S : N - x \in T
  OBVIOUS
<1>8. \A x \in S : z <= N - x
  <2> HIDE DEF R, T
  <2> SUFFICES ASSUME NEW x \in S PROVE z <= N - x
    OBVIOUS
  <2>1. N - x \in Nat /\ z \in Nat
    BY <1>2, <1>5, <1>7
  <2>2. ~(N - x < z)
    BY <1>3, <1>5, <1>7, <2>1
  <2>3. QED
    BY <2>1, <2>2
<1>9. QED
  <2> HIDE DEF R, T
  <2>1. \A x \in S : x <= m
    BY <1>1, <1>6, <1>8, LockConstants
  <2>2. QED
    BY <2>1

(* The deadlock-freedom claim of engine.rs, for every number of shards and *)
(* every set of threads, with the handlers that lock by themselves and the *)
(* background tasks included: in a set of actors waiting only for each     *)
(* other, the one that waits for the largest shard waits for an actor that *)
(* waits for a larger one.                                                 *)
THEOREM LocksNoDeadlock == Spec => []NoDeadlock
<1>1. IInv => NoDeadlock
  <2> SUFFICES ASSUME IInv, NEW S \in SUBSET Actors, S # {},
                      \A a \in S : Blocked(a) /\ owner[Wanted(a)] \in S
               PROVE  FALSE
    BY DEF NoDeadlock
  <2> DEFINE W == {Wanted(a) : a \in S}
  <2>1. \A a \in S : Wanting(a) /\ Wanted(a) \in Shards
    <3> SUFFICES ASSUME NEW a \in S PROVE Wanting(a) /\ Wanted(a) \in Shards
      OBVIOUS
    <3>1. Wanting(a)
      BY DEF Blocked
    <3>2. set[a] \in Seq(Shards) /\ pos[a] \in Nat /\ plan[a] \in Seq(Shards)
      BY DEF IInv, TypeOK
    <3>3. QED
      BY <3>1, <3>2 DEF Wanting, Wanted
  <2>2. W \in SUBSET Shards /\ W # {}
    BY <2>1
  <2>3. PICK m \in W : \A x \in W : x <= m
    <3> HIDE DEF W
    <3>1. QED
      BY <2>2, LargestShard
  <2>4. PICK a \in S : m = Wanted(a)
    BY <2>3
  <2>5. owner[m] \in S /\ m \in Holding(owner[m])
    BY <2>1, <2>4 DEF IInv, OwnerInv
  <2>6. m < Wanted(owner[m])
    BY <2>1, <2>5, WaitsAboveState DEF WaitsAbove
  <2>7. Wanted(owner[m]) <= m
    BY <2>3, <2>5
  <2>8. m \in Int /\ Wanted(owner[m]) \in Int
    BY <2>1, <2>2, <2>3, <2>5, LockConstants DEF Shards
  <2>9. QED
    BY <2>6, <2>7, <2>8
<1>2. QED
  BY LocksInvariant, <1>1, PTL

=============================================================================
