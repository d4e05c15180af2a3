----------------------------- MODULE QuickList -----------------------------
(***************************************************************************)
(* encoding/quicklist.rs: a list as a deque of nodes, each a listpack of   *)
(* several elements (packed) or one element too large to share one         *)
(* (plain), with a cached element count.  A node's listpack is the list it *)
(* holds, which is what ListPack shows of the bytes; its size in bytes is  *)
(* kept, since the fill limits are about it.                               *)
(***************************************************************************)
EXTENDS Integers, Sequences, FiniteSets, Option

CONSTANTS
  QLLen,      \* element -> its length in bytes (short strings, none a number)
  QLLevels,   \* OPTIMIZATION_LEVEL: 1..5 -> size limit of fill -1..-5
  QLSafety,   \* SIZE_SAFETY_LIMIT
  QLFills,    \* values of list-max-listpack-size in use
  QLMaxLen    \* bound on the list's length

ASSUME QuicklistConstants ==
  QLFills \subseteq Int /\ Nil \notin Int /\ Nil \notin Nat \X Nat

VARIABLES
  ql,     \* [nodes, count, fill]
  qlAbs   \* the list it stands for (history)

qlVars == <<ql, qlAbs>>

QLValues == DOMAIN QLLen
SIZE_ESTIMATE_OVERHEAD == 11

QlSum(f, n) == LET s[k \in 0 .. n] == IF k = 0 THEN 0 ELSE s[k - 1] + f[k]
               IN s[n]

TheOne(S) == IF S = {} THEN Nil ELSE CHOOSE x \in S : TRUE

Packed(elems) == [plain |-> FALSE, elems |-> elems]
Plain(v) == [plain |-> TRUE, elems |-> <<v>>]

NodeCount(n) == IF n.plain THEN 1 ELSE Len(n.elems)

(* A short string takes a tag, its bytes and one byte of back length.      *)
NodeBytes(n) ==
  IF n.plain THEN QLLen[n.elems[1]]
  ELSE 7 + QlSum([k \in DOMAIN n.elems |-> QLLen[n.elems[k]] + 2], Len(n.elems))

(* [size, count], 0 where the fill sets no such limit.                     *)
node_limit(fill) ==
  IF fill >= 0 THEN [size |-> 0, count |-> IF fill = 0 THEN 1 ELSE fill]
  ELSE [size |-> QLLevels[IF -fill > 5 THEN 5 ELSE -fill], count |-> 0]

exceeds_limit(fill, size, count) ==
  LET limit == node_limit(fill)
  IN IF limit.size # 0 THEN size > limit.size
     ELSE size > QLSafety \/ count > limit.count

is_large_element(size, fill) ==
  IF fill >= 0 THEN size > QLSafety ELSE size > node_limit(fill).size

allows_insert(n, fill, size) ==
  /\ ~n.plain
  /\ ~is_large_element(size, fill)
  /\ ~exceeds_limit(fill, NodeBytes(n) + size + SIZE_ESTIMATE_OVERHEAD,
                    NodeCount(n) + 1)

(* A plausible slip: merging looks at the bytes alone.                     *)
allows_merge_size_only(a, b, fill) ==
  /\ ~a.plain /\ ~b.plain
  /\ ~exceeds_limit(fill, NodeBytes(a) + NodeBytes(b) - 11, 0)

allows_merge(a, b, fill) ==
  /\ ~a.plain /\ ~b.plain
  /\ ~exceeds_limit(fill, NodeBytes(a) + NodeBytes(b) - 11,
                    NodeCount(a) + NodeCount(b))

qlNew(fill) == [nodes |-> <<>>, count |-> 0, fill |-> fill]

new_node(q, v) ==
  IF is_large_element(QLLen[v], q.fill) THEN Plain(v) ELSE Packed(<<v>>)

push_head(q, v) ==
  LET n == q.nodes[1]
  IN [q EXCEPT !.count = @ + 1,
               !.nodes = IF @ # <<>> /\ allows_insert(n, q.fill, QLLen[v])
                         THEN <<Packed(<<v>> \o n.elems)>> \o Tail(@)
                         ELSE <<new_node(q, v)>> \o @]

push_tail(q, v) ==
  LET n == Seqs!Last(q.nodes)
  IN [q EXCEPT !.count = @ + 1,
               !.nodes = IF @ # <<>> /\ allows_insert(n, q.fill, QLLen[v])
                         THEN Append(Seqs!Front(@), Packed(Append(n.elems, v)))
                         ELSE Append(@, new_node(q, v))]

(* drop_head, drop_tail: an emptied node goes with its last element.       *)
drop_head(q) ==
  LET n == q.nodes[1]
  IN IF q.nodes = <<>> THEN q
     ELSE [q EXCEPT !.count = @ - 1,
                    !.nodes = IF n.plain \/ Len(n.elems) = 1 THEN Tail(@)
                              ELSE <<Packed(Tail(n.elems))>> \o Tail(@)]

drop_tail(q) ==
  LET n == Seqs!Last(q.nodes)
  IN IF q.nodes = <<>> THEN q
     ELSE [q EXCEPT !.count = @ - 1,
                    !.nodes = IF n.plain \/ Len(n.elems) = 1 THEN Seqs!Front(@)
                              ELSE Append(Seqs!Front(@), Packed(Seqs!Front(n.elems)))]

qlHead(q) == IF q.nodes = <<>> THEN Nil ELSE q.nodes[1].elems[1]
qlTail(q) == IF q.nodes = <<>> THEN Nil ELSE Seqs!Last(Seqs!Last(q.nodes).elems)

normalize(q, index) ==
  LET i == IF index < 0 THEN index + q.count ELSE index
  IN IF i \in 0 .. q.count - 1 THEN i ELSE Nil

(* <<node, offset>> of element i, 1-based node, walked from the nearer end *)
(* with the counts of the nodes passed.                                    *)
locate(q, i) ==
  LET n == Len(q.nodes)
      before(k) == QlSum([j \in 1 .. n |-> NodeCount(q.nodes[j])], k - 1)
      from(k) == QlSum([j \in 1 .. n |-> NodeCount(q.nodes[n + 1 - j])], n - k + 1)
      base(k) == IF i <= q.count \div 2 THEN before(k) ELSE q.count - from(k)
  IN IF i >= q.count THEN Nil
     ELSE TheOne({p \in {<<k, i - base(k)>> : k \in 1 .. n} :
                    p[2] \in 0 .. NodeCount(q.nodes[p[1]]) - 1})

qlIndex(q, index) ==
  LET i == normalize(q, index)
      at == locate(q, i)
  IN IF i = Nil \/ at = Nil THEN Nil
     ELSE IF at[2] \in 0 .. Len(q.nodes[at[1]].elems) - 1
     THEN q.nodes[at[1]].elems[at[2] + 1]
     ELSE Nil

(* Merge node i with the next when the result still fits.                  *)
CanMerge(q, i) ==
  /\ i \in 1 .. Len(q.nodes) - 1
  /\ allows_merge(q.nodes[i], q.nodes[i + 1], q.fill)

try_merge(q, i) ==
  IF ~CanMerge(q, i) THEN q
  ELSE [q EXCEPT !.nodes = SubSeq(@, 1, i - 1)
                             \o <<Packed(@[i].elems \o @[i + 1].elems)>>
                             \o SubSeq(@, i + 2, Len(@))]

merge_around(q, ni) ==
  IF ni > 1 /\ CanMerge(q, ni - 1) THEN try_merge(try_merge(q, ni - 1), ni - 1)
  ELSE try_merge(q, ni)

(* A plausible slip: splitting also at offset 0 leaves an empty node.      *)
insert_in_node_splits(q, ni, off, v) ==
  [q EXCEPT !.count = @ + 1,
            !.nodes = SubSeq(@, 1, ni - 1)
                 \o << Packed(SubSeq(@[ni].elems, 1, off)), new_node(q, v),
                       Packed(SubSeq(@[ni].elems, off + 1, Len(@[ni].elems))) >>
                 \o SubSeq(@, ni + 1, Len(@))]

(* insert_at in the middle: into the node, else at the end of the previous *)
(* one, else a node of its own before it, else between the node's halves.  *)
insert_in_node(q, ni, off, v) ==
  LET n == q.nodes[ni]
      size == QLLen[v]
      more == [q EXCEPT !.count = @ + 1]
  IN IF allows_insert(n, q.fill, size)
     THEN [more EXCEPT !.nodes[ni] = Packed(Seqs!InsertAt(n.elems, off + 1, v))]
     ELSE IF off = 0 /\ ni > 1 /\ allows_insert(q.nodes[ni - 1], q.fill, size)
     THEN [more EXCEPT !.nodes[ni - 1] = Packed(Append(@.elems, v))]
     ELSE IF off = 0 \/ n.plain
     THEN merge_around([more EXCEPT !.nodes = Seqs!InsertAt(@, ni, new_node(q, v))], ni)
     ELSE merge_around(
            [more EXCEPT !.nodes =
               SubSeq(@, 1, ni - 1)
                 \o << Packed(SubSeq(n.elems, 1, off)), new_node(q, v),
                       Packed(SubSeq(n.elems, off + 1, Len(n.elems))) >>
                 \o SubSeq(@, ni + 1, Len(@))], ni + 1)

qlInsertAt(q, i, v) ==
  IF i = 0 THEN push_head(q, v)
  ELSE IF i >= q.count THEN push_tail(q, v)
  ELSE LET at == locate(q, i)
       IN IF at = Nil THEN q ELSE insert_in_node(q, at[1], at[2], v)

(* At most `left` elements of one node, from `at` on.                      *)
CutAt(q, at, left) ==
  LET n == q.nodes[at[1]]
      end == IF Len(n.elems) - at[2] < left THEN Len(n.elems) ELSE at[2] + left
      elems == SubSeq(n.elems, 1, at[2]) \o SubSeq(n.elems, end + 1, Len(n.elems))
  IN [q EXCEPT !.count = @ - (end - at[2]),
               !.nodes = IF elems = <<>> THEN Seqs!RemoveAt(@, at[1])
                         ELSE Seqs!ReplaceAt(@, at[1], Packed(elems))]

(* The loop of delete_range, until `target` elements are left: element i   *)
(* stays the place to delete at.  Every turn takes an element at least, so *)
(* that q.count turns are all there can be.                                *)
DeleteTurn(q, i, target) ==
  IF q.count = target \/ locate(q, i) = Nil THEN q
  ELSE CutAt(q, locate(q, i), q.count - target)

DeleteFrom(q, i, target) ==
  LET turn[k \in 0 .. q.count] == IF k = 0 THEN q ELSE DeleteTurn(turn[k - 1], i, target)
  IN turn[q.count]

MergeNear(q, i) ==
  LET at == locate(q, IF i < q.count THEN i ELSE q.count - 1)
  IN IF q.nodes = <<>> \/ at = Nil THEN q ELSE merge_around(q, at[1])

qlDeleteRange(q, start, count) ==
  LET i == normalize(q, start)
      target == IF count < q.count - i THEN q.count - count ELSE i
  IN IF count = 0 \/ q.count = 0 \/ i = Nil THEN q
     ELSE MergeNear(DeleteFrom(q, i, target), i)

(* LSET; across the plain/packed boundary it is a delete and an insert.    *)
SetAt(q, i, at, v) ==
  LET n == q.nodes[at[1]]
      large == is_large_element(QLLen[v], q.fill)
  IN IF at = Nil THEN q
     ELSE IF n.plain /\ large THEN [q EXCEPT !.nodes[at[1]] = Plain(v)]
     ELSE IF ~n.plain /\ ~large
     THEN [q EXCEPT !.nodes[at[1]].elems[at[2] + 1] = v]
     ELSE qlInsertAt(qlDeleteRange(q, i, 1), i, v)

qlSet(q, index, v) ==
  LET i == normalize(q, index)
  IN IF i = Nil THEN q ELSE SetAt(q, i, locate(q, i), v)

(* The iterators: forward and backward, node by node, cut off by count.    *)
qlFlat(q) == Seqs!FlattenSeq([k \in DOMAIN q.nodes |-> q.nodes[k].elems])
qlIter(q) == SubSeq(qlFlat(q), 1, q.count)
qlIterRev(q) == SubSeq(Seqs!Reverse(qlFlat(q)), 1, q.count)

qlIterFrom(q, index) ==
  LET i == normalize(q, index)
      at == locate(q, i)
      rest == SubSeq(q.nodes[at[1]].elems, at[2] + 1, Len(q.nodes[at[1]].elems))
                \o Seqs!FlattenSeq([k \in 1 .. Len(q.nodes) - at[1]
                                 |-> q.nodes[at[1] + k].elems])
  IN IF i = Nil \/ at = Nil THEN <<>> ELSE SubSeq(rest, 1, q.count - i)

position(q, v) ==
  LET hits == {k \in DOMAIN qlIter(q) : qlIter(q)[k] = v}
  IN IF hits = {} THEN Nil ELSE (CHOOSE k \in hits : \A j \in hits : k <= j) - 1

rposition(q, v) ==
  LET hits == {k \in DOMAIN qlIterRev(q) : qlIterRev(q)[k] = v}
  IN IF hits = {} THEN Nil
     ELSE q.count - 1 - ((CHOOSE k \in hits : \A j \in hits : k <= j) - 1)

RemoveOne(q, v, backward) ==
  LET at == IF backward THEN rposition(q, v) ELSE position(q, v)
  IN IF at = Nil THEN q ELSE qlDeleteRange(q, at, 1)

RemoveValue(q, v, backward, left) ==
  LET turn[k \in 0 .. left] == IF k = 0 THEN q ELSE RemoveOne(turn[k - 1], v, backward)
  IN turn[left]

(* LREM: count occurrences from the head, or from the tail, or all, which  *)
(* no more than q.count turns can be.                                      *)
remove_value(q, v, count) ==
  RemoveValue(q, v, count < 0,
              IF count = 0 THEN q.count ELSE IF count < 0 THEN -count ELSE count)
-----------------------------------------------------------------------------
qlInit == \E f \in QLFills : ql = qlNew(f) /\ qlAbs = <<>>

(* A bound of the model, not of the code.                                  *)
QlRoom == Len(qlAbs) < QLMaxLen

QuicklistPush(v) ==
  /\ QlRoom
  /\ \/ ql' = push_head(ql, v) /\ qlAbs' = <<v>> \o qlAbs
     \/ ql' = push_tail(ql, v) /\ qlAbs' = Append(qlAbs, v)

QuicklistPop ==
  /\ qlAbs # <<>>
  /\ \/ ql' = drop_head(ql) /\ qlAbs' = Tail(qlAbs)
     \/ ql' = drop_tail(ql) /\ qlAbs' = Seqs!Front(qlAbs)

QuicklistSet(i, v) ==
  /\ i \in -Len(qlAbs) .. Len(qlAbs) - 1
  /\ ql' = qlSet(ql, i, v)
  /\ qlAbs' = Seqs!ReplaceAt(qlAbs, IF i < 0 THEN Len(qlAbs) + i + 1 ELSE i + 1, v)

QuicklistInsert(i, v) ==
  /\ QlRoom
  /\ i \in 0 .. Len(qlAbs) - 1
  /\ \/ ql' = qlInsertAt(ql, i, v) /\ qlAbs' = Seqs!InsertAt(qlAbs, i + 1, v)
     \/ ql' = qlInsertAt(ql, i + 1, v) /\ qlAbs' = Seqs!InsertAt(qlAbs, i + 2, v)

QuicklistDeleteRange(i, n) ==
  /\ i \in 0 .. Len(qlAbs) - 1
  /\ ql' = qlDeleteRange(ql, i, n)
  /\ qlAbs' = SubSeq(qlAbs, 1, i) \o SubSeq(qlAbs, i + n + 1, Len(qlAbs))

(* The occurrences LREM takes, by their number among the equal elements.   *)
QuicklistRemoveValue(v, count) ==
  LET nth(k) == Cardinality({j \in 1 .. k : qlAbs[j] = v})
      all == nth(Len(qlAbs))
      kept == {k \in DOMAIN qlAbs :
                 \/ qlAbs[k] # v
                 \/ count > 0 /\ nth(k) > count
                 \/ count < 0 /\ nth(k) <= all + count}
      pick[k \in 0 .. Len(qlAbs)] ==
        IF k = 0 THEN <<>>
        ELSE IF k \in kept THEN Append(pick[k - 1], qlAbs[k]) ELSE pick[k - 1]
  IN /\ ql' = remove_value(ql, v, count)
     /\ qlAbs' = pick[Len(qlAbs)]

QuicklistClear ==
  /\ ql' = [ql EXCEPT !.nodes = <<>>, !.count = 0]
  /\ qlAbs' = <<>>

QuicklistSetFill(f) ==
  /\ ql' = [ql EXCEPT !.fill = f]
  /\ UNCHANGED qlAbs

qlNext ==
  \/ QuicklistPop
  \/ QuicklistClear
  \/ \E v \in QLValues :
       \/ QuicklistPush(v)
       \/ \E i \in -QLMaxLen .. QLMaxLen : QuicklistSet(i, v) \/ QuicklistInsert(i, v)
       \/ \E c \in -1 .. 1 : QuicklistRemoveValue(v, c)
  \/ \E i \in 0 .. QLMaxLen, n \in 1 .. QLMaxLen : QuicklistDeleteRange(i, n)
  \/ \E f \in QLFills : QuicklistSetFill(f)

qlSpec == qlInit /\ [][qlNext]_qlVars
-----------------------------------------------------------------------------
(* However elements were pushed, popped, inserted, overwritten, trimmed    *)
(* and removed, and however nodes split, merged and crossed between plain  *)
(* and packed meanwhile, the nodes hold exactly the list: the cached count *)
(* is right, no node is empty, and head, tail, indexing from either end,   *)
(* both iterators, the positioned iterator and both searches answer as the *)
(* list does.                                                              *)
QuicklistHoldsTheList ==
  LET n == Len(qlAbs)
      at(i) == IF i \in 0 .. n - 1 THEN qlAbs[i + 1]
               ELSE IF i \in -n .. -1 THEN qlAbs[n + i + 1] ELSE Nil
      hits(v) == {k \in 0 .. n - 1 : qlAbs[k + 1] = v}
  IN /\ ql.count = n
     /\ \A k \in DOMAIN ql.nodes : ql.nodes[k].elems # <<>>
     /\ \A k \in DOMAIN ql.nodes : ql.nodes[k].plain => Len(ql.nodes[k].elems) = 1
     /\ qlIter(ql) = qlAbs /\ Len(qlFlat(ql)) = n
     /\ qlIterRev(ql) = Seqs!Reverse(qlAbs)
     /\ qlHead(ql) = at(0) /\ qlTail(ql) = at(-1)
     /\ \A i \in -n - 1 .. n : qlIndex(ql, i) = at(i)
     /\ \A i \in 0 .. n - 1 : qlIterFrom(ql, i) = SubSeq(qlAbs, i + 1, n)
     /\ \A v \in QLValues :
          IF hits(v) = {} THEN position(ql, v) = Nil /\ rposition(ql, v) = Nil
          ELSE /\ position(ql, v) \in hits(v) /\ rposition(ql, v) \in hits(v)
               /\ \A k \in hits(v) : position(ql, v) <= k /\ k <= rposition(ql, v)

(* No insert, merge or deletion makes a packed node hold more elements     *)
(* than list-max-listpack-size allows: a node over the limit was there     *)
(* before, at least as full (the limit may have been lowered under it).    *)
QuicklistRespectsFill ==
  [][LET limit == node_limit(ql'.fill).count
     IN limit # 0 =>
          \A k \in DOMAIN ql'.nodes :
            NodeCount(ql'.nodes[k]) > limit =>
              \E j \in DOMAIN ql.nodes : NodeCount(ql.nodes[j]) >= NodeCount(ql'.nodes[k])]_ql
=============================================================================
