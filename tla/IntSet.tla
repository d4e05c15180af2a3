------------------------------ MODULE IntSet -------------------------------
(***************************************************************************)
(* encoding/intset.rs: a set of integers as one blob, an 8-byte header     *)
(* (element width, length) and the elements in ascending order, each of    *)
(* that width.  Storing an element truncates it to the width in force, so  *)
(* a missed upgrade corrupts silently; searching is binary, so an element  *)
(* out of order is missed silently.                                        *)
(***************************************************************************)
EXTENDS Integers, Sequences, FiniteSets, Option

CONSTANTS
  ISValues,  \* the integers the callers use
  ISHalf     \* width in bytes (2, 4, 8) -> half its range (2^15, 2^31, 2^63 in the code)

VARIABLES
  iset,    \* the blob: [encoding, len, body], body the elements as stored
  isetAbs  \* the set it stands for (history)

isVars == <<iset, isetAbs>>

ENC_INT16 == 2
ENC_INT32 == 4
ENC_INT64 == 8

ISMin(enc) == -ISHalf[enc]
ISMax(enc) == ISHalf[enc] - 1

(* The callers' integers are i64.                                          *)
ASSUME IntsetConstants ==
  /\ ISHalf \in [{ENC_INT16, ENC_INT32, ENC_INT64} -> Nat \ {0}]
  /\ ISHalf[ENC_INT16] <= ISHalf[ENC_INT32] /\ ISHalf[ENC_INT32] <= ISHalf[ENC_INT64]
  /\ ISValues \subseteq ISMin(ENC_INT64) .. ISMax(ENC_INT64)
  /\ Nil \notin Int
  /\ Nil \notin [encoding : {ENC_INT16, ENC_INT32, ENC_INT64}, len : Nat, body : Seq(Int)]

(* `v as i16`, `v as i32`: two's complement truncation.                    *)
AsWidth(v, enc) == ((v - ISMin(enc)) % (2 * ISHalf[enc])) + ISMin(enc)

value_encoding(v) ==
  IF v < ISMin(ENC_INT32) \/ v > ISMax(ENC_INT32) THEN ENC_INT64
  ELSE IF v < ISMin(ENC_INT16) \/ v > ISMax(ENC_INT16) THEN ENC_INT32
  ELSE ENC_INT16

isNew == [encoding |-> ENC_INT16, len |-> 0, body |-> <<>>]

(* The element at a 0-based index; the body, not the length, bounds it.    *)
isGet(s, i) == IF i \in 0 .. Len(s.body) - 1 THEN s.body[i + 1] ELSE Nil

(* The loop of search, from any <<lo, hi>> on.                             *)
isProbe(s, v) ==
  LET probe[w \in (0 .. s.len) \X (0 .. s.len)] ==
        LET lo == w[1]
            hi == w[2]
            mid == lo + (hi - lo) \div 2
            cur == isGet(s, mid)
        IN IF lo >= hi \/ cur = Nil THEN [found |-> FALSE, at |-> lo]
           ELSE IF cur < v THEN probe[<<mid + 1, hi>>]
           ELSE IF cur > v THEN probe[<<lo, mid>>]
           ELSE [found |-> TRUE, at |-> mid]
  IN probe

(* [found, at]: the index of v, or where it belongs.                       *)
isSearch(s, v) ==
  IF s.len = 0 THEN [found |-> FALSE, at |-> 0]
  ELSE IF v > isGet(s, s.len - 1) THEN [found |-> FALSE, at |-> s.len]
  ELSE IF v < isGet(s, 0) THEN [found |-> FALSE, at |-> 0]
  ELSE isProbe(s, v)[<<0, s.len>>]

isContains(s, v) == isSearch(s, v).found

isInsertAt(s, pos, v) ==
  [s EXCEPT !.len = @ + 1,
            !.body = Seqs!InsertAt(@, pos + 1, AsWidth(v, s.encoding))]

(* A plausible slip: the wider value always goes last.                     *)
isUpgradeAppends(s, v, enc) ==
  [encoding |-> enc, len |-> s.len + 1,
   body |-> [i \in 1 .. s.len |-> AsWidth(s.body[i], enc)]
              \o <<AsWidth(v, enc)>>]

(* Widen every element, then put v at the end its sign says.               *)
isUpgradeAndAdd(s, v, enc) ==
  LET wide == [i \in 1 .. s.len |-> AsWidth(s.body[i], enc)]
      w == AsWidth(v, enc)
  IN [encoding |-> enc, len |-> s.len + 1,
      body |-> IF v < 0 THEN <<w>> \o wide ELSE wide \o <<w>>]

isAdd(s, v) ==
  LET need == value_encoding(v)
      found == isSearch(s, v)
  IN IF need > s.encoding THEN isUpgradeAndAdd(s, v, need)
     ELSE IF found.found THEN s
     ELSE isInsertAt(s, found.at, v)

isRemove(s, v) ==
  LET found == isSearch(s, v)
  IN IF value_encoding(v) > s.encoding \/ ~found.found THEN s
     ELSE [s EXCEPT !.len = @ - 1, !.body = Seqs!RemoveAt(@, found.at + 1)]

isClear(s) == [s EXCEPT !.len = 0, !.body = <<>>]

(* from_bytes: the validated blob, or Nil.                                 *)
isFromBytes(b) ==
  IF /\ b.encoding \in {ENC_INT16, ENC_INT32, ENC_INT64}
     /\ Len(b.body) = b.len
     /\ \A i \in 1 .. b.len - 1 : b.body[i] < b.body[i + 1]
  THEN b
  ELSE Nil

isMin(s) == isGet(s, 0)
isMax(s) == IF s.len = 0 THEN Nil ELSE isGet(s, s.len - 1)

(* random: any index below the length.                                     *)
isRandomChoices(s) == {isGet(s, i) : i \in 0 .. s.len - 1}

(* The iterator, from the front and from the back.                         *)
isIter(s) == [i \in 1 .. s.len |-> isGet(s, i - 1)]
isIterBack(s) == [i \in 1 .. s.len |-> isGet(s, s.len - i)]
-----------------------------------------------------------------------------
isInit == iset = isNew /\ isetAbs = {}

IntsetAdd(v) ==
  /\ iset' = isAdd(iset, v)
  /\ isetAbs' = isetAbs \cup {v}

IntsetRemove(v) ==
  /\ iset' = isRemove(iset, v)
  /\ isetAbs' = isetAbs \ {v}

IntsetClear ==
  /\ iset' = isClear(iset)
  /\ isetAbs' = {}

(* Written to an RDB record and read back.                                 *)
IntsetReload ==
  /\ iset' = isFromBytes(iset)
  /\ UNCHANGED isetAbs

isNext ==
  \/ \E v \in ISValues : IntsetAdd(v) \/ IntsetRemove(v)
  \/ IntsetClear
  \/ IntsetReload

isSpec == isInit /\ [][isNext]_isVars
-----------------------------------------------------------------------------
(* Whatever was added and removed, and however the width grew meanwhile,   *)
(* the blob holds exactly that set: the header's length is the body's,     *)
(* every element fits the width, the elements ascend, and membership,      *)
(* insert position, minimum, maximum, both iterators and the random choice *)
(* answer as the set does; and the loader accepts the blob.                *)
IntsetHoldsTheSet ==
  /\ iset # Nil
  /\ iset.len = Len(iset.body) /\ iset.len = Cardinality(isetAbs)
  /\ Seqs!ToSet(isIter(iset)) = isetAbs
  /\ \A v \in isetAbs : value_encoding(v) <= iset.encoding
  /\ \A i \in 1 .. iset.len - 1 : isIter(iset)[i] < isIter(iset)[i + 1]
  /\ isIterBack(iset) = Seqs!Reverse(isIter(iset))
  /\ isRandomChoices(iset) = isetAbs
  /\ \A v \in ISValues :
       /\ isContains(iset, v) = (v \in isetAbs)
       /\ isSearch(iset, v).at = Cardinality({w \in isetAbs : w < v})
  /\ \A v \in {isMin(iset)} \ {Nil} : \A w \in isetAbs : v <= w
  /\ \A v \in {isMax(iset)} \ {Nil} : \A w \in isetAbs : v >= w
  /\ isFromBytes(iset) = iset
=============================================================================
