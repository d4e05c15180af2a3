----------------------------- MODULE SkipList ------------------------------
(***************************************************************************)
(* encoding/skiplist.rs: the ordered half of a sorted set.  Nodes live in  *)
(* an arena with a free list; slot 0 is the header.  Every level of a node *)
(* has a forward link and the number of elements it jumps, from which      *)
(* ranks are computed.  Scores and members are integers here: only their   *)
(* order matters.  random_level is any level.                              *)
(***************************************************************************)
EXTENDS Integers, Sequences, SequencesExt, FiniteSets, Option

CONSTANTS
  ZMembers,   \* members, ordered as their bytes are
  ZScores,    \* scores (never NaN: the command layer rejects it)
  ZInf,       \* beyond every score and member: the infinite bounds are -ZInf, ZInf
  MAX_LEVEL   \* 32 in the code

VARIABLES
  zsl,   \* [nodes, free, tail, level, length]
  zdict  \* the paired dict: member -> score

zslVars == <<zsl, zdict>>

HEAD == 0
NIL_LEVEL == [forward |-> Nil, span |-> 0]
Levels(h) == [i \in 0 .. h - 1 |-> NIL_LEVEL]

zslNew ==
  [nodes |-> [i \in {HEAD} |-> [member |-> Nil, score |-> 0, backward |-> Nil,
                                levels |-> Levels(MAX_LEVEL)]],
   free |-> <<>>, tail |-> Nil, level |-> 1, length |-> 0]

lvl(s, x, i) == s.nodes[x].levels[i]
fwd(s, x, i) == lvl(s, x, i).forward

(* Does node x sort before (score, member)?                                *)
node_lt(s, x, score, member) ==
  LET n == s.nodes[x]
  IN n.score < score \/ (n.score = score /\ n.member < member)

(* The descent every search makes: from the top level down, along forward  *)
(* links while Go holds of the next node.  For each level, the node it     *)
(* stopped at and the elements jumped so far.                              *)
zslPath(s, Go(_)) ==
  LET path[i \in 0 .. s.level - 1] ==
        LET from == IF i = s.level - 1 THEN [x |-> HEAD, rank |-> 0]
                    ELSE path[i + 1]
            ahead[x \in DOMAIN s.nodes] ==
              IF fwd(s, x, i) # Nil /\ Go(fwd(s, x, i))
              THEN [x |-> ahead[fwd(s, x, i)].x,
                    rank |-> lvl(s, x, i).span + ahead[fwd(s, x, i)].rank]
              ELSE [x |-> x, rank |-> 0]
        IN [x |-> ahead[from.x].x, rank |-> from.rank + ahead[from.x].rank]
  IN path

(* A freed slot is used before the arena grows.                            *)
zslAlloc(s) ==
  IF s.free # <<>> THEN Last(s.free) ELSE Cardinality(DOMAIN s.nodes)

(* A level that jumps over the new node jumps one more element.            *)
raised_not(l) == l
raised(l) == [l EXCEPT !.span = @ + 1]

(* alloc and the assignments of insert: x between its predecessors on the  *)
(* levels it has, one more element below the levels it has not.            *)
zslInsert(s, score, member, height) ==
  LET path == zslPath(s, LAMBDA x : node_lt(s, x, score, member))
      top == IF height > s.level THEN height ELSE s.level
      update(i) == IF i < s.level THEN path[i].x ELSE HEAD
      rank(i) == IF i < s.level THEN path[i].rank ELSE 0
      x == zslAlloc(s)
      prev(i) == IF i < s.level THEN lvl(s, update(i), i)
                 ELSE [forward |-> Nil, span |-> s.length]
      step(i) == rank(0) - rank(i)
      next == prev(0).forward
      new == [member |-> member, score |-> score,
              backward |-> IF update(0) = HEAD THEN Nil ELSE update(0),
              levels |-> [i \in 0 .. height - 1 |->
                            [forward |-> prev(i).forward,
                             span |-> prev(i).span - step(i)]]]
      relink(y) ==
        [s.nodes[y] EXCEPT
           !.backward = IF y = next THEN x ELSE @,
           !.levels = [i \in DOMAIN @ |->
                         IF i >= top \/ update(i) # y THEN @[i]
                         ELSE IF i < height
                         THEN [forward |-> x, span |-> step(i) + 1]
                         ELSE raised(@[i])]]
  IN [nodes |-> [y \in DOMAIN s.nodes \cup {x} |-> IF y = x THEN new ELSE relink(y)],
      free |-> IF s.free # <<>> THEN Front(s.free) ELSE <<>>,
      tail |-> IF next = Nil THEN x ELSE s.tail,
      level |-> top,
      length |-> s.length + 1]

(* find_with_update: the node itself, or Nil.                              *)
zslFind(s, path, score, member) ==
  LET cand == fwd(s, path[0].x, 0)
  IN IF cand # Nil /\ s.nodes[cand].score = score /\ s.nodes[cand].member = member
     THEN cand ELSE Nil

(* A level that jumped over the node jumps one element less.               *)
lowered_not(l) == l
lowered(l) == [l EXCEPT !.span = @ - 1]

(* unlink and release.                                                     *)
zslUnlink(s, x, path) ==
  LET next == fwd(s, x, 0)
      back == s.nodes[x].backward
      relink(y) ==
        [s.nodes[y] EXCEPT
           !.backward = IF y = next THEN back ELSE @,
           !.levels = [i \in DOMAIN @ |->
                         IF i >= s.level \/ path[i].x # y THEN @[i]
                         ELSE IF @[i].forward = x
                         THEN [forward |-> fwd(s, x, i),
                               span |-> @[i].span + lvl(s, x, i).span - 1]
                         ELSE lowered(@[i])]]
      cut == [y \in DOMAIN s.nodes |->
                IF y = x THEN [member |-> Nil, score |-> 0, backward |-> Nil,
                               levels |-> Levels(0)]
                ELSE relink(y)]
      used == {1} \cup {i \in 1 .. s.level : cut[HEAD].levels[i - 1].forward # Nil}
  IN [nodes |-> cut, free |-> Append(s.free, x),
      tail |-> IF next = Nil THEN back ELSE s.tail,
      level |-> CHOOSE i \in used : \A j \in used : i >= j,
      length |-> s.length - 1]

zslDelete(s, score, member) ==
  LET path == zslPath(s, LAMBDA x : node_lt(s, x, score, member))
      x == zslFind(s, path, score, member)
  IN IF x = Nil THEN s ELSE zslUnlink(s, x, path)

(* Left in place when it still sorts between its neighbours.               *)
update_score(s, cur, member, new, height) ==
  LET path == zslPath(s, LAMBDA x : node_lt(s, x, cur, member))
      x == zslFind(s, path, cur, member)
      back == s.nodes[x].backward
      next == fwd(s, x, 0)
      stays == /\ back = Nil \/ node_lt(s, back, new, member)
               /\ \/ next = Nil
                  \/ s.nodes[next].score > new
                  \/ s.nodes[next].score = new /\ s.nodes[next].member > member
  IN IF x = Nil THEN s
     ELSE IF stays THEN [s EXCEPT !.nodes[x].score = new]
     ELSE zslInsert(zslUnlink(s, x, path), new, member, height)
-----------------------------------------------------------------------------
(* Ranks, 0-based.                                                         *)
rank_of(s, score, member) ==
  LET path == zslPath(s, LAMBDA x : \/ s.nodes[x].score < score
                                    \/ /\ s.nodes[x].score = score
                                       /\ s.nodes[x].member <= member)
      hits == {i \in 0 .. s.level - 1 :
                 /\ path[i].x # HEAD
                 /\ s.nodes[path[i].x].member = member
                 /\ s.nodes[path[i].x].score = score}
  IN IF hits = {} THEN Nil
     ELSE path[CHOOSE i \in hits : \A j \in hits : i >= j].rank - 1

node_by_rank(s, rank) ==
  LET target == rank + 1
      path[i \in 0 .. s.level - 1] ==
        LET from == IF i = s.level - 1 THEN <<HEAD, 0>> ELSE path[i + 1]
            ahead[x \in DOMAIN s.nodes, t \in 0 .. target] ==
              IF fwd(s, x, i) # Nil /\ t + lvl(s, x, i).span <= target
              THEN ahead[fwd(s, x, i), t + lvl(s, x, i).span]
              ELSE <<x, t>>
        IN ahead[from[1], from[2]]
      hits == {i \in 0 .. s.level - 1 : path[i][2] = target /\ path[i][1] # HEAD}
  IN IF rank >= s.length \/ hits = {} THEN Nil
     ELSE path[CHOOSE i \in hits : \A j \in hits : i >= j][1]

(* Ranges over a key of the node, its score or its member; a bound is      *)
(* [value, exclusive].                                                     *)
Bound(v, ex) == [value |-> v, exclusive |-> ex]
RangeIsEmpty(r) ==
  \/ r.min.value > r.max.value
  \/ r.min.value = r.max.value /\ (r.min.exclusive \/ r.max.exclusive)
gte_min(r, v) == IF r.min.exclusive THEN v > r.min.value ELSE v >= r.min.value
lte_max(r, v) == IF r.max.exclusive THEN v < r.max.value ELSE v <= r.max.value

KeyOf(s, by, x) == IF by = "score" THEN s.nodes[x].score ELSE s.nodes[x].member

is_in_range(s, by, r) ==
  /\ ~RangeIsEmpty(r)
  /\ s.length # 0
  /\ s.tail # Nil /\ gte_min(r, KeyOf(s, by, s.tail))
  /\ fwd(s, HEAD, 0) # Nil /\ lte_max(r, KeyOf(s, by, fwd(s, HEAD, 0)))

first_node_in_range(s, by, r) ==
  LET x == fwd(s, zslPath(s, LAMBDA y : ~gte_min(r, KeyOf(s, by, y)))[0].x, 0)
  IN IF is_in_range(s, by, r) /\ x # Nil /\ lte_max(r, KeyOf(s, by, x))
     THEN x ELSE Nil

last_node_in_range(s, by, r) ==
  LET x == zslPath(s, LAMBDA y : lte_max(r, KeyOf(s, by, y)))[0].x
  IN IF is_in_range(s, by, r) /\ x # HEAD /\ gte_min(r, KeyOf(s, by, x))
     THEN x ELSE Nil

rank_of_node(s, x) == rank_of(s, s.nodes[x].score, s.nodes[x].member)

(* The iterators: n nodes along the bottom links, or back along backward.  *)
zslWalk(s, start, n) ==
  LET walk[k \in 0 .. n] ==
        IF k = 0 THEN start
        ELSE IF walk[k - 1] = Nil THEN Nil ELSE fwd(s, walk[k - 1], 0)
  IN SelectSeq([k \in 1 .. n |-> walk[k - 1]], LAMBDA x : x # Nil)
zslWalkBack(s, start, n) ==
  LET walk[k \in 0 .. n] ==
        IF k = 0 THEN start
        ELSE IF walk[k - 1] = Nil THEN Nil ELSE s.nodes[walk[k - 1]].backward
  IN SelectSeq([k \in 1 .. n |-> walk[k - 1]], LAMBDA x : x # Nil)

zslIter(s) == zslWalk(s, fwd(s, HEAD, 0), s.length)
zslIterRev(s) == zslWalkBack(s, s.tail, s.length)
iter_from_rank(s, rank) == zslWalk(s, node_by_rank(s, rank), s.length - rank)
iter_rev_from_rank(s, rank) == zslWalkBack(s, node_by_rank(s, rank), rank + 1)

(* range, lex_range: the bound turned into a count of elements.            *)
zslRange(s, by, r) ==
  LET first == first_node_in_range(s, by, r)
      last == last_node_in_range(s, by, r)
      a == rank_of_node(s, first)
      b == rank_of_node(s, last)
  IN IF first = Nil \/ last = Nil THEN <<>>
     ELSE IF b < a THEN <<>> ELSE zslWalk(s, first, b - a + 1)

RECURSIVE delete_while(_, _, _)
(* The range deletions: the first node in the range, until there is none.  *)
delete_while(s, by, r) ==
  LET x == first_node_in_range(s, by, r)
  IN IF x = Nil THEN s
     ELSE delete_while(zslDelete(s, s.nodes[x].score, s.nodes[x].member), by, r)

RECURSIVE delete_range_by_rank(_, _, _)
delete_range_by_rank(s, start, count) ==
  LET x == node_by_rank(s, start)
  IN IF count = 0 \/ x = Nil THEN s
     ELSE delete_range_by_rank(zslDelete(s, s.nodes[x].score, s.nodes[x].member),
                               start, count - 1)
-----------------------------------------------------------------------------
(* What the pair stands for: the members by score, ties by member.         *)
InOrder(m, n) == zdict[m] < zdict[n] \/ (zdict[m] = zdict[n] /\ m < n)
RankIn(m) == Cardinality({n \in DOMAIN zdict : InOrder(n, m)})
ZRanges(V) ==
  LET bounds == [value : V, exclusive : BOOLEAN]
  IN [min : bounds \cup {Bound(-ZInf, FALSE)}, max : bounds \cup {Bound(ZInf, FALSE)}]
Without(M) == [m \in DOMAIN zdict \ M |-> zdict[m]]

zslInit == zsl = zslNew /\ zdict = [m \in {} |-> 0]

SkiplistInsert(m, score, height) ==
  /\ m \notin DOMAIN zdict
  /\ zsl' = zslInsert(zsl, score, m, height)
  /\ zdict' = [n \in DOMAIN zdict \cup {m} |-> IF n = m THEN score ELSE zdict[n]]

(* With the score the dict holds, or with another: then nothing happens.   *)
SkiplistDelete(m, score) ==
  /\ zsl' = zslDelete(zsl, score, m)
  /\ zdict' = IF m \in DOMAIN zdict /\ zdict[m] = score THEN Without({m}) ELSE zdict

SkiplistUpdateScore(m, score, height) ==
  /\ m \in DOMAIN zdict
  /\ zsl' = update_score(zsl, zdict[m], m, score, height)
  /\ zdict' = [zdict EXCEPT ![m] = score]

SkiplistDeleteRangeByScore(r) ==
  /\ zsl' = delete_while(zsl, "score", r)
  /\ zdict' = Without({m \in DOMAIN zdict : gte_min(r, zdict[m]) /\ lte_max(r, zdict[m])})

(* ZREMRANGEBYLEX: meaningful when every member has the same score.        *)
SkiplistDeleteRangeByLex(r) ==
  /\ \A m, n \in DOMAIN zdict : zdict[m] = zdict[n]
  /\ zsl' = delete_while(zsl, "member", r)
  /\ zdict' = Without({m \in DOMAIN zdict : gte_min(r, m) /\ lte_max(r, m)})

SkiplistDeleteRangeByRank(start, count) ==
  /\ zsl' = IF start >= zsl.length THEN zsl
            ELSE delete_range_by_rank(zsl, start, count)
  /\ zdict' = Without({m \in DOMAIN zdict : RankIn(m) \in start .. start + count - 1})

SkiplistClear == zsl' = zslNew /\ zdict' = Without(ZMembers)

zslNext ==
  \/ \E m \in ZMembers, score \in ZScores :
       \/ SkiplistDelete(m, score)
       \/ \E h \in 1 .. MAX_LEVEL :
            SkiplistInsert(m, score, h) \/ SkiplistUpdateScore(m, score, h)
  \/ \E r \in ZRanges({zdict[m] : m \in DOMAIN zdict}) : SkiplistDeleteRangeByScore(r)
  \/ \E r \in ZRanges(DOMAIN zdict) : SkiplistDeleteRangeByLex(r)
  \/ \E i, n \in 0 .. Cardinality(ZMembers) : SkiplistDeleteRangeByRank(i, n)
  \/ SkiplistClear

zslSpec == zslInit /\ [][zslNext]_zslVars
-----------------------------------------------------------------------------
(* Whatever heights the nodes drew and whatever was inserted, deleted one  *)
(* by one or by range, and re-scored, the skiplist answers as the sorted   *)
(* members of the dict do: iteration both ways and from every rank, the    *)
(* rank of every member and the member of every rank, the first and last   *)
(* of every score range and, at equal scores, of every range of members.   *)
SkiplistAgreesWithDict ==
  LET ordered == [k \in 1 .. Cardinality(DOMAIN zdict) |->
                    CHOOSE m \in DOMAIN zdict : RankIn(m) = k - 1]
      n == Cardinality(DOMAIN zdict)
      members(q) == [k \in DOMAIN q |-> zsl.nodes[q[k]].member]
      within(r, key(_)) == SelectSeq(ordered, LAMBDA m : gte_min(r, key(m)) /\ lte_max(r, key(m)))
  IN /\ zsl.length = n
     /\ members(zslIter(zsl)) = ordered
     /\ members(zslIterRev(zsl)) = Reverse(ordered)
     /\ \A m \in DOMAIN zdict : rank_of(zsl, zdict[m], m) = RankIn(m)
     /\ \A m \in ZMembers, score \in ZScores :
          (m \in DOMAIN zdict => score # zdict[m]) => rank_of(zsl, score, m) = Nil
     /\ node_by_rank(zsl, n) = Nil
     /\ \A k \in 0 .. n - 1 :
          /\ members(iter_from_rank(zsl, k)) = SubSeq(ordered, k + 1, n)
          /\ members(iter_rev_from_rank(zsl, k)) = Reverse(SubSeq(ordered, 1, k + 1))
     /\ \A r \in ZRanges(ZScores) :
          members(zslRange(zsl, "score", r)) = within(r, LAMBDA m : zdict[m])
     /\ (\A m, k \in DOMAIN zdict : zdict[m] = zdict[k]) =>
          \A r \in ZRanges(ZMembers) :
            members(zslRange(zsl, "member", r)) = within(r, LAMBDA m : m)

(* Every link jumps exactly the elements its span says, the last link of a *)
(* level those that remain; backward is the inverse of the bottom level;   *)
(* the list is as high as its highest node; and the arena is the header,   *)
(* the linked slots and the free ones, each slot exactly one of them, so a *)
(* reused slot is never still linked.                                      *)
SkiplistLinksExact ==
  LET bottom == zslIter(zsl)
      pos(x) == IF x = HEAD THEN 0 ELSE CHOOSE k \in DOMAIN bottom : bottom[k] = x
      used == ToSet(bottom)
      height(x) == Cardinality(DOMAIN zsl.nodes[x].levels)
  IN /\ ToSet(zsl.free) \cap used = {}
     /\ Len(zsl.free) = Cardinality(ToSet(zsl.free))
     /\ DOMAIN zsl.nodes = {HEAD} \cup ToSet(zsl.free) \cup used
     /\ zsl.tail = (IF bottom = <<>> THEN Nil ELSE Last(bottom))
     /\ \A k \in DOMAIN bottom :
          zsl.nodes[bottom[k]].backward = (IF k = 1 THEN Nil ELSE bottom[k - 1])
     /\ \A x \in used : height(x) <= zsl.level
     /\ zsl.level > 1 => \E x \in used : height(x) = zsl.level
     /\ \A x \in used \cup {HEAD} : \A i \in 0 .. zsl.level - 1 :
          i < height(x) =>
            LET later == {y \in used : pos(y) > pos(x) /\ height(y) > i}
                next == CHOOSE y \in later : \A z \in later : pos(y) <= pos(z)
            IN IF later = {}
               THEN fwd(zsl, x, i) = Nil /\ lvl(zsl, x, i).span = zsl.length - pos(x)
               ELSE fwd(zsl, x, i) = next /\ lvl(zsl, x, i).span = pos(next) - pos(x)
=============================================================================
