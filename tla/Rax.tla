-------------------------------- MODULE Rax --------------------------------
(***************************************************************************)
(* encoding/rax.rs: a compressed radix tree from byte strings to values.   *)
(* A node's chars label the edges to its children: one byte per child when *)
(* it branches, the whole label of the only edge when it is compressed.    *)
(* Nodes live in an arena with a free list; slot 0 is the root.  A cursor  *)
(* keeps the path from the root, since nodes know no parent.  Children are *)
(* numbered from 1 here.                                                   *)
(***************************************************************************)
EXTENDS Integers, Sequences, SequencesExt, FiniteSets, Option

CONSTANTS
  RaxKeys,    \* keys the operations use (sequences of bytes)
  RaxProbes,  \* keys the searches look for
  RaxVals     \* values

VARIABLES
  rax,     \* [nodes, free, numele]
  raxAbs   \* the map it stands for: key -> value (history)

raxVars == <<rax, raxAbs>>

ROOT == 0
Leaf == [chars |-> <<>>, children |-> <<>>, compressed |-> FALSE, value |-> Nil]
raxNew == [nodes |-> [i \in {ROOT} |-> Leaf], free |-> <<>>, numele |-> 0]

HasKids(r, x) == r.nodes[x].children # <<>>
HasValue(r, x) == r.nodes[x].value # Nil

(* alloc: a freed slot first.  [r, at].                                    *)
raxAlloc(r, n) ==
  LET i == IF r.free # <<>> THEN Last(r.free) ELSE Cardinality(DOMAIN r.nodes)
  IN [r |-> [r EXCEPT !.nodes = [y \in DOMAIN @ \cup {i} |-> IF y = i THEN n ELSE @[y]],
                      !.free = IF @ = <<>> THEN @ ELSE Front(@)],
      at |-> i]

(* The free list is kept in descending order where the code's is a stack:  *)
(* which free slot is taken cannot be observed, that one is taken twice    *)
(* can.                                                                    *)
raxRelease(r, x) ==
  LET over == SelectSeq(r.free, LAMBDA y : y >= x)
      under == SelectSeq(r.free, LAMBDA y : y < x)
  IN [r EXCEPT !.nodes[x] = Leaf, !.free = over \o <<x>> \o under]

(* A node with one edge; a one-byte label is stored branching.             *)
labelled(r, label, child) ==
  raxAlloc(r, [chars |-> label, children |-> <<child>>,
               compressed |-> Len(label) > 1, value |-> Nil])

(* How many bytes of a label the key matches from its i-th on (0-based).   *)
Matches(label, key, i) ==
  LET same == {m \in 0 .. Len(label) :
                 /\ i + m <= Len(key)
                 /\ SubSeq(label, 1, m) = SubSeq(key, i + 1, i + m)}
  IN CHOOSE m \in same : \A k \in same : m >= k

EdgeOf(n, byte) ==
  LET hits == {j \in DOMAIN n.chars : n.chars[j] = byte}
  IN IF hits = {} THEN Nil ELSE CHOOSE j \in hits : TRUE

RECURSIVE WalkFrom(_, _, _, _, _)
WalkFrom(r, key, x, i, frames) ==
  LET n == r.nodes[x]
      m == Matches(n.chars, key, i)
      j == EdgeOf(n, key[i + 1])
      stop(split, inside) == [node |-> x, consumed |-> i + split, split |-> split,
                              inside |-> inside, frames |-> frames]
  IN IF n.children = <<>> \/ i = Len(key) THEN stop(0, FALSE)
     ELSE IF n.compressed
     THEN IF m # Len(n.chars) THEN stop(m, TRUE)
          ELSE WalkFrom(r, key, n.children[1], i + m,
                        Append(frames, [node |-> x, child |-> 1]))
     ELSE IF j = Nil THEN stop(0, FALSE)
          ELSE WalkFrom(r, key, n.children[j], i + 1,
                        Append(frames, [node |-> x, child |-> j]))

(* As far down as the key allows: the node, the bytes consumed, those of   *)
(* them inside its label, whether it stopped inside one, and the path.     *)
walk(r, key) == WalkFrom(r, key, ROOT, 0, <<>>)

raxFind(r, key) ==
  LET w == walk(r, key)
  IN IF w.consumed # Len(key) \/ w.split # 0 THEN Nil ELSE r.nodes[w.node].value

(* A plausible slip: the tail of the split keeps the byte it diverged at.  *)
split_keeps_byte(r, x, m) ==
  LET label == r.nodes[x].chars
      tail == labelled(r, SubSeq(label, m + 1, Len(label)), r.nodes[x].children[1])
      mid == raxAlloc(tail.r, [chars |-> SubSeq(label, m + 1, m + 1),
                               children |-> <<tail.at>>,
                               compressed |-> FALSE, value |-> Nil])
  IN [r |-> [mid.r EXCEPT !.nodes[x].chars = SubSeq(label, 1, m),
                          !.nodes[x].children = <<mid.at>>,
                          !.nodes[x].compressed = m > 1],
      at |-> mid.at]

(* The compressed node x cut after m label bytes: [r, at], at the          *)
(* branching node where the label diverges.                                *)
split_compressed(r, x, m) ==
  LET label == r.nodes[x].chars
      child == r.nodes[x].children[1]
      tail == IF m + 1 < Len(label)
              THEN labelled(r, SubSeq(label, m + 2, Len(label)), child)
              ELSE [r |-> r, at |-> child]
      mid == raxAlloc(tail.r, [chars |-> SubSeq(label, m + 1, m + 1),
                               children |-> <<tail.at>>,
                               compressed |-> FALSE, value |-> Nil])
  IN IF m = 0
     THEN [r |-> [tail.r EXCEPT !.nodes[x].chars = SubSeq(label, 1, 1),
                                !.nodes[x].children = <<tail.at>>,
                                !.nodes[x].compressed = FALSE],
           at |-> x]
     ELSE [r |-> [mid.r EXCEPT !.nodes[x].chars = SubSeq(label, 1, m),
                               !.nodes[x].children = <<mid.at>>,
                               !.nodes[x].compressed = m > 1],
           at |-> mid.at]

(* The rest of the key below a leaf or a branching node without its edge.  *)
raxExtend(r, x, rest, value) ==
  LET leaf == raxAlloc(r, [Leaf EXCEPT !.value = value])
      child == IF Len(rest) > 1 THEN labelled(leaf.r, Tail(rest), leaf.at) ELSE leaf
      at == Cardinality({j \in DOMAIN r.nodes[x].chars : r.nodes[x].chars[j] < rest[1]}) + 1
  IN IF ~HasKids(r, x) /\ Len(rest) > 1
     THEN [leaf.r EXCEPT !.nodes[x].chars = rest,
                         !.nodes[x].children = <<leaf.at>>,
                         !.nodes[x].compressed = TRUE,
                         !.numele = @ + 1]
     ELSE [child.r EXCEPT !.nodes[x].chars = InsertAt(@, at, rest[1]),
                          !.nodes[x].children = InsertAt(@, at, child.at),
                          !.nodes[x].compressed = FALSE,
                          !.numele = @ + 1]

(* s: the tree and the node to go on from, w: what the walk returned.      *)
InsertAfter(s, w, key, value) ==
  IF w.consumed = Len(key)
  THEN [s.r EXCEPT !.nodes[s.at].value = value,
                   !.numele = IF HasValue(s.r, s.at) THEN @ ELSE @ + 1]
  ELSE raxExtend(s.r, s.at, SubSeq(key, w.consumed + 1, Len(key)), value)

raxInsert(r, key, value) ==
  LET w == walk(r, key)
  IN InsertAfter(IF w.inside THEN split_compressed(r, w.node, w.split)
                 ELSE [r |-> r, at |-> w.node], w, key, value)

RECURSIVE raxTryMerge(_, _)
(* Fold the only child into x while it is neither a key nor a branch.      *)
raxTryMerge(r, x) ==
  LET child == r.nodes[x].children[1]
      label == r.nodes[x].chars \o r.nodes[child].chars
  IN IF \/ Len(r.nodes[x].children) # 1
        \/ HasValue(r, child)
        \/ Len(r.nodes[child].children) # 1
     THEN r
     ELSE raxTryMerge(raxRelease([r EXCEPT !.nodes[x].chars = label,
                                           !.nodes[x].children = r.nodes[child].children,
                                           !.nodes[x].compressed = Len(label) > 1],
                                 child), x)

RECURSIVE Prune(_, _, _)
(* Drop the chain of dead leaves ending at x: [r, node, frames].           *)
Prune(r, x, frames) ==
  LET f == Last(frames)
      p == r.nodes[f.node]
      cut == IF p.compressed THEN Leaf
             ELSE [p EXCEPT !.chars = RemoveAt(@, f.child),
                            !.children = RemoveAt(@, f.child)]
  IN IF x = ROOT \/ HasKids(r, x) \/ HasValue(r, x) \/ frames = <<>>
     THEN [r |-> r, node |-> x, frames |-> frames]
     ELSE Prune(raxRelease([r EXCEPT !.nodes[f.node] = [cut EXCEPT !.value = p.value]], x),
                f.node, Front(frames))

(* A plausible slip: a key that still has children is not re-compressed    *)
(* but pruned with them.                                                   *)
raxRemoveSubtree(r, key) ==
  LET w == walk(r, key)
      gone == [r EXCEPT !.nodes[w.node] = Leaf, !.numele = @ - 1]
      p == Prune(gone, w.node, w.frames)
  IN IF raxFind(r, key) = Nil THEN r ELSE p.r

raxRemove(r, key) ==
  LET w == walk(r, key)
      gone == [r EXCEPT !.nodes[w.node].value = Nil, !.numele = @ - 1]
      p == Prune(gone, w.node, w.frames)
      path == <<p.node>> \o Reverse([k \in DOMAIN p.frames |-> p.frames[k].node])
  IN IF raxFind(r, key) = Nil THEN r
     ELSE FoldLeft(LAMBDA t, x : raxTryMerge(t, x), p.r, path)
-----------------------------------------------------------------------------
(* Cursors: [cur, key, frames], a frame remembering the key length before. *)
CursorAtRoot == [cur |-> ROOT, key |-> <<>>, frames |-> <<>>]

descend(r, c, j) ==
  LET n == r.nodes[c.cur]
  IN [cur |-> n.children[j],
      key |-> c.key \o (IF n.compressed THEN n.chars ELSE <<n.chars[j]>>),
      frames |-> Append(c.frames, [node |-> c.cur, child |-> j, klen |-> Len(c.key)])]

ascend(c) ==
  LET f == Last(c.frames)
  IN [cur |-> f.node, key |-> SubSeq(c.key, 1, f.klen), frames |-> Front(c.frames)]

RECURSIVE descend_rightmost(_, _)
descend_rightmost(r, c) ==
  IF ~HasKids(r, c.cur) THEN c
  ELSE descend_rightmost(r, descend(r, c, Len(r.nodes[c.cur].children)))

RECURSIVE NextSibling(_, _)
NextSibling(r, c) ==
  LET up == ascend(c)
      j == Last(c.frames).child
  IN IF c.frames = <<>> THEN Nil
     ELSE IF j < Len(r.nodes[up.cur].children) THEN descend(r, up, j + 1)
     ELSE NextSibling(r, up)

RECURSIVE step_forward(_, _, _)
(* To the next key; without descend_first the subtree here is skipped.     *)
step_forward(r, c, descend_first) ==
  LET to == IF descend_first /\ HasKids(r, c.cur) THEN descend(r, c, 1)
            ELSE NextSibling(r, c)
  IN IF to = Nil THEN Nil
     ELSE IF HasValue(r, to.cur) THEN to
     ELSE step_forward(r, to, TRUE)

RECURSIVE step_backward(_, _, _)
(* To the previous key, or to the key here when check_self.                *)
step_backward(r, c, check_self) ==
  LET up == ascend(c)
      j == Last(c.frames).child
  IN IF check_self /\ HasValue(r, c.cur) THEN c
     ELSE IF c.frames = <<>> THEN Nil
     ELSE step_backward(r, IF j > 1 THEN descend_rightmost(r, descend(r, up, j - 1))
                           ELSE up, TRUE)

start_first(r) ==
  IF HasValue(r, ROOT) THEN CursorAtRoot ELSE step_forward(r, CursorAtRoot, TRUE)
start_last(r) == step_backward(r, descend_rightmost(r, CursorAtRoot), TRUE)

RECURSIVE SeekDown(_, _, _, _)
(* Down along the target: where the walk stopped, and the children just    *)
(* above and just below the target there (Nil when there is none).         *)
SeekDown(r, c, target, i) ==
  LET n == r.nodes[c.cur]
      m == Matches(n.chars, target, i)
      above == i + m = Len(target) \/ n.chars[m + 1] > target[i + m + 1]
      j == EdgeOf(n, target[i + 1])
      smaller == Cardinality({k \in DOMAIN n.chars : n.chars[k] < target[i + 1]})
      stop(what, hi, lo) == [c |-> c, what |-> what, above |-> hi, below |-> lo]
  IN IF i = Len(target) THEN stop("AtTarget", Nil, Nil)
     ELSE IF n.children = <<>> THEN stop("Below", Nil, Nil)
     ELSE IF n.compressed
     THEN IF m = Len(n.chars) THEN SeekDown(r, descend(r, c, 1), target, i + m)
          ELSE IF above THEN stop("Diverge", 1, Nil) ELSE stop("Diverge", Nil, 1)
     ELSE IF j # Nil THEN SeekDown(r, descend(r, c, j), target, i + 1)
     ELSE stop("Diverge", IF smaller < Len(n.children) THEN smaller + 1 ELSE Nil,
                          IF smaller > 0 THEN smaller ELSE Nil)

(* From where SeekDown stopped to the key that op picks.                   *)
SeekOn(r, op, s) ==
  LET here == HasValue(r, s.c.cur)
      over == descend(r, s.c, s.above)
  IN IF op \in {"Ge", "Gt"}
     THEN CASE s.what = "AtTarget" ->
                 IF op = "Ge" /\ here THEN s.c ELSE step_forward(r, s.c, TRUE)
            [] s.what = "Diverge" /\ s.above # Nil ->
                 IF HasValue(r, over.cur) THEN over ELSE step_forward(r, over, TRUE)
            [] OTHER -> step_forward(r, s.c, FALSE)
     ELSE CASE s.what = "AtTarget" ->
                 IF op = "Le" /\ here THEN s.c ELSE step_backward(r, s.c, FALSE)
            [] s.what = "Diverge" /\ s.below # Nil ->
                 step_backward(r, descend_rightmost(r, descend(r, s.c, s.below)), TRUE)
            [] OTHER -> step_backward(r, s.c, TRUE)

(* The cursor on the key that op picks relative to the target, or Nil.     *)
do_seek(r, op, target) == SeekOn(r, op, SeekDown(r, CursorAtRoot, target, 0))

RECURSIVE collect_pairs(_, _, _)
(* What next() yields from a cursor on: <<key, value>> pairs.              *)
collect_pairs(r, c, forward) ==
  IF c = Nil THEN <<>>
  ELSE << <<c.key, r.nodes[c.cur].value>> >>
         \o collect_pairs(r, IF forward THEN step_forward(r, c, TRUE)
                             ELSE step_backward(r, c, FALSE), forward)
-----------------------------------------------------------------------------
raxInit == rax = raxNew /\ raxAbs = [k \in {} |-> Nil]

RaxInsert(k, v) ==
  /\ rax' = raxInsert(rax, k, v)
  /\ raxAbs' = [l \in DOMAIN raxAbs \cup {k} |-> IF l = k THEN v ELSE raxAbs[l]]

RaxRemove(k) ==
  /\ rax' = raxRemove(rax, k)
  /\ raxAbs' = [l \in DOMAIN raxAbs \ {k} |-> raxAbs[l]]

RaxClear == rax' = raxNew /\ raxAbs' = [k \in {} |-> Nil]

raxNext ==
  \/ \E k \in RaxKeys : RaxRemove(k) \/ \E v \in RaxVals : RaxInsert(k, v)
  \/ RaxClear

raxSpec == raxInit /\ [][raxNext]_raxVars
-----------------------------------------------------------------------------
(* Byte-wise order, a proper prefix before what extends it.                *)
KeyLess(k, l) ==
  \/ IsStrictPrefix(k, l)
  \/ \E i \in 1 .. Len(k) : /\ i <= Len(l)
                            /\ SubSeq(k, 1, i - 1) = SubSeq(l, 1, i - 1)
                            /\ k[i] < l[i]

(* Whatever was inserted and removed, and however labels were split and    *)
(* folded back, the tree is the map: find, the count, both iterations, and *)
(* a scan from every seek (>=, >, <=, <, to keys that are stored, that end *)
(* inside a label, that leave the tree between two edges) forward and      *)
(* backward yield the map's pairs in byte order.                           *)
RaxAgreesWithMap ==
  LET K == DOMAIN raxAbs
      rank(k) == Cardinality({l \in K : KeyLess(l, k)})
      all == [n \in 1 .. Cardinality(K) |->
                LET k == CHOOSE l \in K : rank(l) = n - 1 IN <<k, raxAbs[k]>>]
      at(op, k) == rank(k) + (IF op \in {"Gt", "Le"} /\ k \in K THEN 1 ELSE 0)
                           + (IF op \in {"Ge", "Gt"} THEN 1 ELSE 0)
      scansAs(c, n) ==
        IF n \notin DOMAIN all THEN c = Nil
        ELSE /\ collect_pairs(rax, c, TRUE) = SubSeq(all, n, Len(all))
             /\ collect_pairs(rax, c, FALSE) = Reverse(SubSeq(all, 1, n))
  IN /\ rax.numele = Cardinality(K)
     /\ \A k \in RaxProbes : raxFind(rax, k) = (IF k \in K THEN raxAbs[k] ELSE Nil)
     /\ collect_pairs(rax, start_first(rax), TRUE) = all
     /\ collect_pairs(rax, start_last(rax), FALSE) = Reverse(all)
     /\ \A k \in RaxProbes, op \in {"Ge", "Gt", "Le", "Lt"} :
          scansAs(do_seek(rax, op, k), at(op, k))

(* The arena is a tree and its free slots: every slot is on the free list  *)
(* once or the child of exactly one node (the root of none), labels are    *)
(* ascending or compressed to two bytes and more, and no leaf below the    *)
(* root is left without a value, so removing keys leaks nothing.           *)
RaxArenaExact ==
  LET used == DOMAIN rax.nodes \ ToSet(rax.free)
      edges == {<<x, j>> \in used \X (1 .. 4) : j \in DOMAIN rax.nodes[x].children}
  IN /\ Len(rax.free) = Cardinality(ToSet(rax.free))
     /\ ROOT \in used
     /\ \A x \in used :
          LET n == rax.nodes[x]
          IN /\ Cardinality({e \in edges : rax.nodes[e[1]].children[e[2]] = x})
                  = (IF x = ROOT THEN 0 ELSE 1)
             /\ IF n.compressed THEN Len(n.children) = 1 /\ Len(n.chars) > 1
                ELSE /\ Len(n.chars) = Len(n.children)
                     /\ \A j \in 1 .. Len(n.chars) - 1 : n.chars[j] < n.chars[j + 1]
             /\ (n.children = <<>> /\ n.value = Nil) => x = ROOT
     /\ \A e \in edges : rax.nodes[e[1]].children[e[2]] \in used
=============================================================================
