-------------------------------- MODULE Scan --------------------------------
(***************************************************************************)
(* SCAN (command/generic.rs): an iteration is a series of calls that hand  *)
(* a cursor back and forth, each call visits shards one at a time, and     *)
(* between two visits clients create and remove keys, which changes the    *)
(* number of virtual buckets the rest of the iteration works with.         *)
(*                                                                         *)
(* A key is its shard and the low bits of its scan_hash.  MATCH and TYPE   *)
(* only drop keys from a reply.  A call looks at no more keys than it      *)
(* examines, so the second half of its test for the end of its budget,     *)
(* keys.len() >= count, never decides.                                     *)
(***************************************************************************)
EXTENDS Integers, FiniteSets

CONSTANTS
  Keys,
  ShardBits,   \* log2 of the number of shards
  MaxBits,     \* MAX_SCAN_BITS
  ShardOf,     \* ShardMap.shard_index: key -> shard
  Hash,        \* the low MaxBits bits of scan_hash: key -> number
  Counts       \* values clients give to COUNT

(* 2^n, by the recursion that proofs unfold.                               *)
TwoTo[n \in Nat] == IF n = 0 THEN 1 ELSE 2 * TwoTo[n - 1]

ShardCount == TwoTo[ShardBits]

ASSUME ScanConstants ==
  /\ ShardBits \in Nat /\ MaxBits \in Nat
  /\ IsFiniteSet(Keys)
  /\ ShardOf \in [Keys -> 0..ShardCount-1]
  /\ Hash \in [Keys -> 0..TwoTo[MaxBits]-1]
  /\ Counts \subseteq Nat \ {0}

VARIABLES
  present,    \* the live keys of the database
  dead,       \* expired keys that nobody has reaped yet
  cursor,     \* the cursor, inside a call or in the hands of the client
  iterating,  \* has the client an iteration in progress?
  count,      \* COUNT of the call in progress; 0 between calls
  examined,   \* entries looked at by the call in progress
  steady,     \* keys that exist since the iteration began (history)
  returned    \* keys the iteration has returned (history)

vars == <<present, dead, cursor, iterating, count, examined, steady, returned>>

Init ==
  /\ present \in SUBSET Keys
  /\ dead = {}
  /\ cursor = 0
  /\ iterating = FALSE
  /\ count = 0
  /\ examined = 0
  /\ steady = {}
  /\ returned = {}

-----------------------------------------------------------------------------
(* scan_bits: halve until no more than COUNT keys are left per bucket.     *)
ScanBits(len, n) ==
  CHOOSE b \in 0..MaxBits :
    /\ b = MaxBits \/ len \div TwoTo[b] <= n
    /\ \A a \in 0..b-1 : len \div TwoTo[a] > n

(* The low n bits of a number in the opposite order: the lowest becomes    *)
(* the highest, the others follow it reversed.                             *)
Reversed[n \in Nat] ==
  [v \in Nat |-> IF n = 0 THEN 0
                 ELSE (v % 2) * TwoTo[n - 1] + Reversed[n - 1][v \div 2]]

(* u64::reverse_bits, on words of MaxBits bits: every cursor fits, and the *)
(* bits above the mask are all alike.                                      *)
ReverseBits(v) == Reversed[MaxBits][v]

(* Mutant: an ordinary increment.                                          *)
AdvancePlain(c, bits) == ((c % TwoTo[bits]) + 1) % TwoTo[bits]

(* scan_advance: set the bits above the mask, reverse, add one, reverse.   *)
ScanAdvance(c, bits) ==
  LET v == (c % TwoTo[bits]) + (TwoTo[MaxBits] - TwoTo[bits])
  IN ReverseBits((ReverseBits(v) + 1) % TwoTo[MaxBits])

-----------------------------------------------------------------------------
(* A client sends SCAN with the cursor it was given, or with 0 to start.   *)
Call(n) ==
  /\ count = 0
  /\ count' = n
  /\ examined' = 0
  /\ iterating' = TRUE
  /\ steady' = IF iterating THEN steady ELSE present
  /\ returned' = IF iterating THEN returned ELSE {}
  /\ UNCHANGED <<present, dead, cursor>>

(* Mutant: a finished shard is visited again.                              *)
VisitStuck ==
  LET shard == cursor % ShardCount
      intra == cursor \div ShardCount
      dict  == {k \in present \cup dead : ShardOf[k] = shard}
      bits  == ScanBits(Cardinality(dict), count)
      hits  == {k \in dict \ dead : Hash[k] % TwoTo[bits] = intra % TwoTo[bits]}
      next  == ScanAdvance(intra, bits)
      last  == next = 0 /\ shard + 1 >= ShardCount
      done  == last \/ examined + Cardinality(dict) >= count
  IN /\ count # 0
     /\ returned' = returned \cup hits
     /\ examined' = IF done THEN 0 ELSE examined + Cardinality(dict)
     /\ cursor' = IF last THEN 0 ELSE next * ShardCount + shard
     /\ iterating' = ~last
     /\ count' = IF done THEN 0 ELSE count
     /\ UNCHANGED <<present, dead, steady>>

(* One turn of the loop of cmd_scan: one bucket of one shard, under its    *)
(* lock; then the next cursor, and the end of the iteration or of the call.*)
Visit ==
  LET shard == cursor % ShardCount
      intra == cursor \div ShardCount
      dict  == {k \in present \cup dead : ShardOf[k] = shard}
      bits  == ScanBits(Cardinality(dict), count)
      hits  == {k \in dict \ dead : Hash[k] % TwoTo[bits] = intra % TwoTo[bits]}
      next  == ScanAdvance(intra, bits)
      last  == next = 0 /\ shard + 1 >= ShardCount
      done  == last \/ examined + Cardinality(dict) >= count
  IN /\ count # 0
     /\ returned' = returned \cup hits
     /\ examined' = IF done THEN 0 ELSE examined + Cardinality(dict)
     /\ cursor' = IF last THEN 0
                  ELSE IF next = 0 THEN shard + 1
                  ELSE next * ShardCount + shard
     /\ iterating' = ~last
     /\ count' = IF done THEN 0 ELSE count
     /\ UNCHANGED <<present, dead, steady>>

(* Writers, in the middle of an iteration and in the middle of a call.     *)
Add(k) ==
  /\ k \notin present
  /\ present' = present \cup {k}
  /\ dead' = dead \ {k}
  /\ UNCHANGED <<cursor, iterating, count, examined, steady, returned>>

RemoveKey(k) ==
  /\ k \in present \cup dead
  /\ present' = present \ {k}
  /\ dead' = dead \ {k}
  /\ steady' = steady \ {k}
  /\ UNCHANGED <<cursor, iterating, count, examined, returned>>

(* A key's deadline passes.  A call goes by the clock of its start, so for *)
(* its visits this happens between two calls.                              *)
Expire(k) ==
  /\ count = 0
  /\ k \in present
  /\ present' = present \ {k}
  /\ dead' = dead \cup {k}
  /\ steady' = steady \ {k}
  /\ UNCHANGED <<cursor, iterating, count, examined, returned>>

Next ==
  \/ \E n \in Counts : Call(n)
  \/ Visit
  \/ \E k \in Keys : Add(k) \/ RemoveKey(k) \/ Expire(k)

Spec == Init /\ [][Next]_vars

(* The client goes on asking and a call in progress goes on running.       *)
Fairness == WF_vars(Visit) /\ WF_vars(\E n \in Counts : iterating /\ Call(n))

FairSpec == Spec /\ Fairness

-----------------------------------------------------------------------------
(* The guarantee of cmd_scan: "a key present from the start of a full      *)
(* iteration to its end is returned at least once", although the number of *)
(* buckets changes with every write and every COUNT.                       *)
ScanComplete == ~iterating => steady \subseteq returned

(* An iteration the client keeps up ends, whatever writers do: no resize   *)
(* makes the cursor go round in circles.                                   *)
ScanEnds == iterating ~> ~iterating

(* How far an iteration has come: the shard, then the cursor with its bits *)
(* reversed.                                                               *)
Position == (cursor % ShardCount) * TwoTo[MaxBits] + ReverseBits(cursor \div ShardCount)

(* The line of Sweep: the shards one after the other and, in a shard, the  *)
(* hashes in the order of their reversed bits.                             *)
Line == INSTANCE Sweep WITH
  Places  <- ShardCount * TwoTo[MaxBits],
  Place   <- [k \in Keys |-> ShardOf[k] * TwoTo[MaxBits] + ReverseBits(Hash[k])],
  walking <- iterating,
  pos     <- Position

(* A call is a walk along that line: cmd_scan's cursor implements Sweep.   *)
ScanSweeps == Line!Spec
=============================================================================
