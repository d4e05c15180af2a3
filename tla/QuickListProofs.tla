-------------------------- MODULE QuickListProofs ---------------------------
(***************************************************************************)
(* The quicklist holds the list, for any elements, lengths, fills and      *)
(* limits.                                                                 *)
(*                                                                         *)
(* Holds(q, s) says that the nodes of q, one after the other, hold the     *)
(* list s and that the cached count is its length; it is inductive, and    *)
(* every answer a quicklist gives follows from it.  Becomes(q, r, s) says  *)
(* of an operation that r holds s, and that every node of r is within the  *)
(* fill or no fuller than some node of q was.  Each operation is shown to  *)
(* be such a step by taking the nodes apart around the one it works on     *)
(* and putting them together again; the loops of delete_range and          *)
(* remove_value by induction over their turns.                             *)
(***************************************************************************)
EXTENDS QuickList, DataLemmas, FiniteSetTheorems

-----------------------------------------------------------------------------
(* Cutting sequences.                                                      *)

(* Two sequences joined and cut again.                                     *)
LEMMA CutWhereJoined ==
  ASSUME NEW S, NEW a \in Seq(S), NEW b \in Seq(S)
  PROVE  /\ SubSeq(a \o b, 1, Len(a)) = a
         /\ Without(a \o b, Len(a)) = b
<1>1. Len(a) \in 0..Len(a) /\ 0 \in 0..Len(b) /\ Len(a) + 0 = Len(a)
  OBVIOUS
<1>2. SubSeq(a \o b, 1, Len(a)) = SubSeq(a, 1, Len(a))
  BY <1>1, FrontLeft
<1>3. SubSeq(a, 1, Len(a)) = a /\ SubSeq(b, 1, Len(b)) = b
  BY SubSeqFull
<1>4. Without(a \o b, Len(a) + 0) = Without(b, 0)
  BY <1>1, WithoutAll
<1>5. Without(b, 0) = SubSeq(b, 1, Len(b))
  BY DEF Without
<1>6. QED
  BY <1>1, <1>2, <1>3, <1>4, <1>5

(* A sequence around its k-th element.                                     *)
LEMMA SplitAround ==
  ASSUME NEW S, NEW s \in Seq(S), NEW k \in 1..Len(s)
  PROVE  /\ SubSeq(s, 1, k - 1) \in Seq(S) /\ Without(s, k) \in Seq(S) /\ s[k] \in S
         /\ Len(SubSeq(s, 1, k - 1)) = k - 1
         /\ Without(s, k - 1) = <<s[k]>> \o Without(s, k)
         /\ s = SubSeq(s, 1, k - 1) \o (<<s[k]>> \o Without(s, k))
         /\ SubSeq(s, 1, k) = SubSeq(s, 1, k - 1) \o <<s[k]>>
<1>1. k - 1 \in 0..Len(s) /\ k \in 0..Len(s) /\ Len(s) \in k..Len(s) /\ (k - 1) + 1 = k
      /\ 1 \in 1..Len(s) /\ k \in 1..Len(s)
  OBVIOUS
<1>2. s = SubSeq(s, 1, k - 1) \o Without(s, k - 1)
  BY <1>1, FrontAndRest
<1>3. SubSeq(s, k, Len(s)) = <<s[k]>> \o SubSeq(s, k + 1, Len(s))
  BY <1>1, SubSeqRecursiveFirst
<1>4. Without(s, k - 1) = <<s[k]>> \o Without(s, k)
  BY <1>1, <1>3 DEF Without
<1>5. SubSeq(s, 1, k - 1) \in Seq(S) /\ Without(s, k) \in Seq(S) /\ s[k] \in S
      /\ Len(SubSeq(s, 1, k - 1)) = k - 1
  BY <1>1, FrontType, WithoutType, ElementOfSeq
<1>6. SubSeq(s, 1, k) = SubSeq(s, 1, k - 1) \o <<s[k]>>
  BY <1>1, SubSeqRecursiveSecond
<1>7. QED
  BY <1>2, <1>4, <1>5, <1>6

(* One element replaced.                                                   *)
LEMMA ReplacedAround ==
  ASSUME NEW S, NEW s \in Seq(S), NEW k \in 1..Len(s), NEW e \in S
  PROVE  [s EXCEPT ![k] = e] = SubSeq(s, 1, k - 1) \o (<<e>> \o Without(s, k))
<1> DEFINE x == [s EXCEPT ![k] = e]
           a == SubSeq(s, 1, k - 1)
           b == Without(s, k)
           c == <<e>> \o b
<1>1. x \in Seq(S) /\ Len(x) = Len(s)
      /\ \A j \in 1 .. Len(s) : x[j] = IF j = k THEN e ELSE s[j]
  BY ExceptSeq
<1>2. k - 1 \in 0..Len(s) /\ k \in 0..Len(s) /\ Len(s) \in Nat
  OBVIOUS
<1>3. a \in Seq(S) /\ Len(a) = k - 1 /\ \A i \in 1..k-1 : a[i] = s[i]
  BY <1>2, FrontType
<1>4. b \in Seq(S) /\ Len(b) = Len(s) - k /\ \A i \in 1..Len(s)-k : b[i] = s[k + i]
  BY <1>2, WithoutType
<1> HIDE DEF x, a, b
<1>5. <<e>> \in Seq(S) /\ Len(<<e>>) = 1 /\ <<e>>[1] = e
  OBVIOUS
<1>6. c \in Seq(S) /\ Len(c) = 1 + Len(b)
      /\ \A i \in 1..1+Len(b) : c[i] = IF i <= 1 THEN <<e>>[i] ELSE b[i - 1]
  BY <1>4, <1>5, ConcatProperties
<1> HIDE DEF c
<1>7. a \o c \in Seq(S) /\ Len(a \o c) = Len(a) + Len(c)
      /\ \A i \in 1..Len(a)+Len(c) : (a \o c)[i] = IF i <= Len(a) THEN a[i] ELSE c[i - Len(a)]
  BY <1>3, <1>6, ConcatProperties
<1>8. Len(a \o c) = Len(x)
  BY <1>1, <1>2, <1>3, <1>4, <1>6, <1>7
<1>9. ASSUME NEW i \in 1..Len(x) PROVE x[i] = (a \o c)[i]
  <2>1. x[i] = (IF i = k THEN e ELSE s[i]) /\ i \in 1..Len(s)
    BY <1>1
  <2>2. (a \o c)[i] = IF i <= k - 1 THEN a[i] ELSE c[i - (k - 1)]
    BY <1>3, <1>7, <1>8
  <2>3. CASE i <= k - 1
    BY <2>1, <2>2, <2>3, <1>3
  <2>4. CASE i = k
    <3>1. i - (k - 1) = 1 /\ 1 \in 1..1+Len(b)
      BY <2>4, <1>2, <1>4
    <3>2. QED
      BY <3>1, <2>1, <2>2, <2>4, <1>5, <1>6
  <2>5. CASE i > k
    <3> DEFINE m == i - (k - 1)
    <3>1. m \in 1..1+Len(b) /\ ~(m <= 1) /\ m - 1 \in 1..Len(s)-k /\ k + (m - 1) = i
      BY <2>5, <2>1, <1>2, <1>4
    <3>2. c[m] = b[m - 1] /\ b[m - 1] = s[k + (m - 1)]
      BY <3>1, <1>4, <1>6
    <3>3. QED
      BY <3>1, <3>2, <2>1, <2>2, <2>5
  <2>6. i \in Int /\ k \in Int
    BY <2>1
  <2>7. i <= k - 1 \/ i = k \/ i > k
    BY <2>6
  <2>8. QED
    BY <2>3, <2>4, <2>5, <2>7
<1>10. x = a \o c
  BY <1>1, <1>7, <1>8, <1>9, SeqEqual
<1>11. QED
  BY <1>10 DEF x, a, b, c

(* One element removed.                                                    *)
LEMMA RemovedAround ==
  ASSUME NEW s, NEW k
  PROVE  Seqs!RemoveAt(s, k) = SubSeq(s, 1, k - 1) \o Without(s, k)
BY DEF Seqs!RemoveAt, Without

(* One element inserted.                                                   *)
LEMMA InsertedAround ==
  ASSUME NEW s, NEW k \in Int, NEW e
  PROVE  Seqs!InsertAt(s, k, e) = (SubSeq(s, 1, k - 1) \o <<e>>) \o Without(s, k - 1)
<1>1. (k - 1) + 1 = k
  OBVIOUS
<1>2. QED
  BY <1>1 DEF Seqs!InsertAt, Without

(* Nodes and the elements they hold one after the other.                   *)
QlNode == {n \in [plain : BOOLEAN, elems : Seq(QLValues)] :
             n.elems # <<>> /\ (n.plain => Len(n.elems) = 1)}

ElemsOf(ns) == [k \in DOMAIN ns |-> ns[k].elems]
FlatOf(ns) == Seqs!FlattenSeq(ElemsOf(ns))

(* A node has elements, and counts them right.                             *)
LEMMA NodeType ==
  ASSUME NEW n \in QlNode
  PROVE  /\ n.elems \in Seq(QLValues) /\ n.plain \in BOOLEAN /\ n.elems # <<>>
         /\ Len(n.elems) \in Nat \ {0} /\ NodeCount(n) = Len(n.elems)
<1>1. n \in [plain : BOOLEAN, elems : Seq(QLValues)] /\ n.elems # <<>>
      /\ (n.plain => Len(n.elems) = 1)
  BY DEF QlNode
<1>2. n.elems \in Seq(QLValues) /\ n.plain \in BOOLEAN
  BY <1>1
<1>3. Len(n.elems) \in Nat \ {0}
  BY <1>1, <1>2, EmptySeq
<1>4. NodeCount(n) = Len(n.elems)
  BY <1>1 DEF NodeCount
<1>5. QED
  BY <1>1, <1>2, <1>3, <1>4

(* The nodes the code makes are nodes.                                     *)
LEMMA PackedType ==
  ASSUME NEW e \in Seq(QLValues), e # <<>>
  PROVE  Packed(e) \in QlNode /\ Packed(e).elems = e
BY DEF Packed, QlNode

LEMMA PlainType ==
  ASSUME NEW v \in QLValues
  PROVE  Plain(v) \in QlNode /\ Plain(v).elems = <<v>>
BY DEF Plain, QlNode

(* A node made for one element.                                            *)
LEMMA NewNodeType ==
  ASSUME NEW q, NEW v \in QLValues
  PROVE  new_node(q, v) \in QlNode /\ new_node(q, v).elems = <<v>>
<1>1. <<v>> \in Seq(QLValues) /\ <<v>> # <<>>
  OBVIOUS
<1>2. QED
  BY <1>1, PackedType, PlainType DEF new_node

(* The elements by node.                                                   *)
LEMMA ElemsType ==
  ASSUME NEW ns \in Seq(QlNode)
  PROVE  /\ ElemsOf(ns) \in Seq(Seq(QLValues)) /\ Len(ElemsOf(ns)) = Len(ns)
         /\ \A k \in 1..Len(ns) : ElemsOf(ns)[k] = ns[k].elems
<1>1. Len(ns) \in Nat /\ DOMAIN ns = 1..Len(ns) /\ \A k \in 1..Len(ns) : ns[k] \in QlNode
  OBVIOUS
<1>2. \A k \in 1..Len(ns) : ns[k].elems \in Seq(QLValues)
  BY <1>1, NodeType
<1>3. QED
  <2> DEFINE A == Seq(QLValues)
  <2>1. \A k \in 1..Len(ns) : ns[k].elems \in A
    BY <1>2
  <2> HIDE DEF A
  <2>2. ElemsOf(ns) \in Seq(A) /\ Len(ElemsOf(ns)) = Len(ns)
        /\ \A k \in 1..Len(ns) : ElemsOf(ns)[k] = ns[k].elems
    BY <1>1, <2>1 DEF ElemsOf
  <2>3. QED
    BY <2>2 DEF A

(* Nodes in a row give their elements in a row.                            *)
LEMMA ElemsConcat ==
  ASSUME NEW a \in Seq(QlNode), NEW b \in Seq(QlNode)
  PROVE  ElemsOf(a \o b) = ElemsOf(a) \o ElemsOf(b)
<1> DEFINE A == Seq(QLValues)
           x == ElemsOf(a \o b)
           ea == ElemsOf(a)
           eb == ElemsOf(b)
<1>1. a \o b \in Seq(QlNode) /\ Len(a \o b) = Len(a) + Len(b)
      /\ \A i \in 1..Len(a)+Len(b) : (a \o b)[i] = IF i <= Len(a) THEN a[i] ELSE b[i - Len(a)]
  BY ConcatProperties
<1>2. x \in Seq(A) /\ Len(x) = Len(a) + Len(b)
      /\ \A k \in 1..Len(a)+Len(b) : x[k] = (a \o b)[k].elems
  BY <1>1, ElemsType
<1>3. ea \in Seq(A) /\ Len(ea) = Len(a) /\ \A k \in 1..Len(a) : ea[k] = a[k].elems
  BY ElemsType
<1>4. eb \in Seq(A) /\ Len(eb) = Len(b) /\ \A k \in 1..Len(b) : eb[k] = b[k].elems
  BY ElemsType
<1>a. Len(a) \in Nat /\ Len(b) \in Nat
  OBVIOUS
<1> HIDE DEF A, x, ea, eb
<1>5. ea \o eb \in Seq(A) /\ Len(ea \o eb) = Len(ea) + Len(eb)
      /\ \A i \in 1..Len(ea)+Len(eb) : (ea \o eb)[i] = IF i <= Len(ea) THEN ea[i] ELSE eb[i - Len(ea)]
  <2>1. ea \in Seq(A) /\ eb \in Seq(A)
    BY <1>3, <1>4
  <2>2. QED
    BY <2>1, ConcatProperties
<1>6. ASSUME NEW i \in 1..Len(x) PROVE x[i] = (ea \o eb)[i]
  <2>1. CASE i <= Len(a)
    <3>1. i \in 1..Len(a) /\ i \in 1..Len(a)+Len(b)
      BY <2>1, <1>2, <1>a
    <3>2. x[i] = a[i].elems /\ (ea \o eb)[i] = ea[i]
      BY <3>1, <2>1, <1>1, <1>2, <1>3, <1>4, <1>5
    <3>3. QED
      BY <3>1, <3>2, <1>3
  <2>2. CASE ~(i <= Len(a))
    <3>1. i - Len(a) \in 1..Len(b) /\ i \in 1..Len(a)+Len(b)
      BY <2>2, <1>2, <1>a
    <3>2. x[i] = b[i - Len(a)].elems /\ (ea \o eb)[i] = eb[i - Len(a)]
      BY <3>1, <2>2, <1>1, <1>2, <1>3, <1>4, <1>5
    <3>3. QED
      BY <3>1, <3>2, <1>4
  <2>3. QED
    BY <2>1, <2>2
<1>7. x = ea \o eb
  BY <1>2, <1>3, <1>4, <1>5, <1>6, SeqEqual
<1>8. QED
  BY <1>7 DEF x, ea, eb

(* The elements of all nodes.                                              *)
LEMMA FlatOfType ==
  ASSUME NEW ns \in Seq(QlNode)
  PROVE  FlatOf(ns) \in Seq(QLValues) /\ Len(FlatOf(ns)) \in Nat
BY ElemsType, FlattenType DEF FlatOf

LEMMA FlatOfNone == FlatOf(<<>>) = <<>>
<1>1. ElemsOf(<<>>) = <<>>
  <2>1. <<>> \in Seq(QlNode) /\ Len(<<>>) = 0
    OBVIOUS
  <2>2. ElemsOf(<<>>) \in Seq(Seq(QLValues)) /\ Len(ElemsOf(<<>>)) = 0
    BY <2>1, ElemsType
  <2>3. QED
    BY <2>2, EmptySeq
<1>2. QED
  BY <1>1, FlattenEmpty DEF FlatOf

(* One node on its own.                                                    *)
LEMMA FlatOfOne ==
  ASSUME NEW n \in QlNode
  PROVE  <<n>> \in Seq(QlNode) /\ FlatOf(<<n>>) = n.elems
<1> DEFINE A == Seq(QLValues)
           x == ElemsOf(<<n>>)
<1>1. <<n>> \in Seq(QlNode) /\ Len(<<n>>) = 1 /\ <<n>>[1] = n
  OBVIOUS
<1>2. x \in Seq(A) /\ Len(x) = 1 /\ x[1] = n.elems
  <2>1. x \in Seq(A) /\ Len(x) = 1 /\ \A k \in 1..1 : x[k] = <<n>>[k].elems
    BY <1>1, ElemsType
  <2>2. QED
    BY <1>1, <2>1
<1>3. n.elems \in A
  BY NodeType
<1> HIDE DEF A, x
<1>4. x = <<n.elems>>
  BY <1>2, <1>3
<1>5. Seqs!FlattenSeq(<<n.elems>>) = n.elems
  BY <1>3, FlattenOne DEF A
<1>6. QED
  BY <1>1, <1>4, <1>5 DEF FlatOf, x

(* The elements of two runs of nodes.                                      *)
LEMMA FlatOfConcat ==
  ASSUME NEW a \in Seq(QlNode), NEW b \in Seq(QlNode)
  PROVE  a \o b \in Seq(QlNode) /\ FlatOf(a \o b) = FlatOf(a) \o FlatOf(b)
<1>1. ElemsOf(a) \in Seq(Seq(QLValues)) /\ ElemsOf(b) \in Seq(Seq(QLValues))
  BY ElemsType
<1>2. ElemsOf(a \o b) = ElemsOf(a) \o ElemsOf(b)
  BY ElemsConcat
<1>3. Seqs!FlattenSeq(ElemsOf(a) \o ElemsOf(b))
        = Seqs!FlattenSeq(ElemsOf(a)) \o Seqs!FlattenSeq(ElemsOf(b))
  BY <1>1, FlattenConcat
<1>4. a \o b \in Seq(QlNode)
  BY ConcatProperties
<1>5. QED
  BY <1>2, <1>3, <1>4 DEF FlatOf

(* What the fill allows, for any number of elements: a node is within the  *)
(* fill, or there was one at least as full among ms.                       *)
NodeWithin(n, ms, f) ==
  node_limit(f).count # 0 =>
    (NodeCount(n) > node_limit(f).count =>
       \E j \in DOMAIN ms : NodeCount(ms[j]) >= NodeCount(n))
Within(ns, ms, f) == \A k \in DOMAIN ns : NodeWithin(ns[k], ms, f)

(* A fill that counts elements sets no size, which is looked at first.     *)
LEMMA LimitType ==
  ASSUME NEW f \in Int
  PROVE  /\ node_limit(f).count \in Nat
         /\ node_limit(f).count # 0 => node_limit(f).size = 0
<1>1. CASE f >= 0
  BY <1>1 DEF node_limit
<1>2. CASE ~(f >= 0)
  BY <1>2 DEF node_limit
<1>3. QED
  BY <1>1, <1>2

(* Below the limit means no more elements than the fill allows.            *)
LEMMA NotExceeding ==
  ASSUME NEW f \in Int, NEW size, NEW c \in Nat, ~exceeds_limit(f, size, c)
  PROVE  node_limit(f).count # 0 => c <= node_limit(f).count
<1>1. node_limit(f).count \in Nat /\ (node_limit(f).count # 0 => node_limit(f).size = 0)
  BY LimitType
<1>2. QED
  BY <1>1 DEF exceeds_limit

(* Where an insert is allowed the node keeps to the fill ...               *)
LEMMA InsertAllowed ==
  ASSUME NEW f \in Int, NEW n \in QlNode, NEW size, allows_insert(n, f, size)
  PROVE  /\ ~n.plain
         /\ node_limit(f).count # 0 => Len(n.elems) + 1 <= node_limit(f).count
<1>1. Len(n.elems) \in Nat /\ NodeCount(n) = Len(n.elems)
  BY NodeType
<1>2. NodeCount(n) + 1 \in Nat
  BY <1>1
<1>3. ~n.plain /\ ~exceeds_limit(f, NodeBytes(n) + size + SIZE_ESTIMATE_OVERHEAD, NodeCount(n) + 1)
  BY DEF allows_insert
<1>4. node_limit(f).count # 0 => NodeCount(n) + 1 <= node_limit(f).count
  BY <1>2, <1>3, NotExceeding
<1>5. QED
  BY <1>1, <1>3, <1>4

(* ... and where a merge is, the merged node does.                         *)
LEMMA MergeAllowed ==
  ASSUME NEW f \in Int, NEW a \in QlNode, NEW b \in QlNode, allows_merge(a, b, f)
  PROVE  node_limit(f).count # 0 => Len(a.elems) + Len(b.elems) <= node_limit(f).count
<1>1. Len(a.elems) \in Nat /\ NodeCount(a) = Len(a.elems)
      /\ Len(b.elems) \in Nat /\ NodeCount(b) = Len(b.elems)
  BY NodeType
<1>2. NodeCount(a) + NodeCount(b) \in Nat
  <2>1. NodeCount(a) \in Nat /\ NodeCount(b) \in Nat
    BY <1>1
  <2>2. QED
    BY <2>1
<1>3. ~exceeds_limit(f, NodeBytes(a) + NodeBytes(b) - 11, NodeCount(a) + NodeCount(b))
  BY DEF allows_merge
<1>4. node_limit(f).count # 0 => NodeCount(a) + NodeCount(b) <= node_limit(f).count
  BY <1>2, <1>3, NotExceeding
<1>5. QED
  BY <1>1, <1>4

(* Ways to be within the fill: few elements ...                            *)
LEMMA WithinSmall ==
  ASSUME NEW f \in Int, NEW n \in QlNode, NEW ms,
         node_limit(f).count # 0 => Len(n.elems) <= node_limit(f).count
  PROVE  NodeWithin(n, ms, f)
<1>1. Len(n.elems) \in Nat /\ NodeCount(n) = Len(n.elems) /\ node_limit(f).count \in Nat
  BY NodeType, LimitType
<1>2. QED
  BY <1>1 DEF NodeWithin

(* ... one element ...                                                     *)
LEMMA WithinNew ==
  ASSUME NEW f \in Int, NEW n \in QlNode, NEW ms, Len(n.elems) = 1
  PROVE  NodeWithin(n, ms, f)
<1>1. node_limit(f).count \in Nat
  BY LimitType
<1>2. node_limit(f).count # 0 => Len(n.elems) <= node_limit(f).count
  BY <1>1
<1>3. QED
  BY <1>2, WithinSmall

(* ... or no more than a node that was.                                    *)
LEMMA WithinShorter ==
  ASSUME NEW f \in Int, NEW n \in QlNode, NEW m \in QlNode, NEW ns \in Seq(QlNode),
         Len(n.elems) <= Len(m.elems), NodeWithin(m, ns, f)
  PROVE  NodeWithin(n, ns, f)
<1>1. Len(n.elems) \in Nat /\ NodeCount(n) = Len(n.elems) /\ node_limit(f).count \in Nat
      /\ Len(m.elems) \in Nat /\ NodeCount(m) = Len(m.elems)
  BY NodeType, LimitType
<1>2. \A j \in DOMAIN ns : NodeCount(ns[j]) \in Nat
  <2>1. \A j \in DOMAIN ns : ns[j] \in QlNode
    OBVIOUS
  <2>2. QED
    BY <2>1, NodeType
<1>3. QED
  BY <1>1, <1>2 DEF NodeWithin

(* Being within the fill is reflexive, transitive and holds of runs.       *)
LEMMA WithinSelf ==
  ASSUME NEW f, NEW ns \in Seq(QlNode)
  PROVE  Within(ns, ns, f)
<1>1. SUFFICES ASSUME NEW k \in DOMAIN ns PROVE NodeWithin(ns[k], ns, f)
  BY DEF Within
<1>2. ns[k] \in QlNode
  OBVIOUS
<1>3. NodeCount(ns[k]) \in Nat
  BY <1>2, NodeType
<1>4. NodeCount(ns[k]) >= NodeCount(ns[k])
  BY <1>3
<1>5. QED
  BY <1>4 DEF NodeWithin

LEMMA WithinAgain ==
  ASSUME NEW f \in Int, NEW a \in Seq(QlNode), NEW b \in Seq(QlNode), NEW c \in Seq(QlNode),
         Within(b, a, f), Within(c, b, f)
  PROVE  Within(c, a, f)
<1>1. SUFFICES ASSUME NEW k \in DOMAIN c PROVE NodeWithin(c[k], a, f)
  BY DEF Within
<1>2. NodeWithin(c[k], b, f) /\ c[k] \in QlNode
  BY DEF Within
<1>3. SUFFICES ASSUME node_limit(f).count # 0, NodeCount(c[k]) > node_limit(f).count
               PROVE  \E j \in DOMAIN a : NodeCount(a[j]) >= NodeCount(c[k])
  BY DEF NodeWithin
<1>4. PICK j \in DOMAIN b : NodeCount(b[j]) >= NodeCount(c[k])
  BY <1>2, <1>3 DEF NodeWithin
<1>5. b[j] \in QlNode /\ NodeWithin(b[j], a, f)
  BY DEF Within
<1>6. NodeCount(b[j]) \in Nat /\ NodeCount(c[k]) \in Nat /\ node_limit(f).count \in Nat
  BY <1>2, <1>5, NodeType, LimitType
<1>7. NodeCount(b[j]) > node_limit(f).count
  BY <1>3, <1>4, <1>6
<1>8. PICK i \in DOMAIN a : NodeCount(a[i]) >= NodeCount(b[j])
  BY <1>3, <1>5, <1>7 DEF NodeWithin
<1>9. a[i] \in QlNode
  OBVIOUS
<1>10. NodeCount(a[i]) \in Nat
  BY <1>9, NodeType
<1>11. QED
  BY <1>4, <1>6, <1>8, <1>10

LEMMA WithinConcat ==
  ASSUME NEW f, NEW ms, NEW a \in Seq(QlNode), NEW b \in Seq(QlNode)
  PROVE  Within(a \o b, ms, f) <=> Within(a, ms, f) /\ Within(b, ms, f)
<1>1. a \o b \in Seq(QlNode) /\ Len(a \o b) = Len(a) + Len(b)
      /\ \A i \in 1..Len(a)+Len(b) : (a \o b)[i] = IF i <= Len(a) THEN a[i] ELSE b[i - Len(a)]
  BY ConcatProperties
<1>2. Len(a) \in Nat /\ Len(b) \in Nat /\ DOMAIN a = 1..Len(a) /\ DOMAIN b = 1..Len(b)
  OBVIOUS
<1>a. DOMAIN (a \o b) = 1..Len(a)+Len(b)
  BY <1>1, LenProperties
<1>3. ASSUME Within(a, ms, f), Within(b, ms, f) PROVE Within(a \o b, ms, f)
  <2>1. SUFFICES ASSUME NEW k \in 1..Len(a)+Len(b) PROVE NodeWithin((a \o b)[k], ms, f)
    BY <1>a DEF Within
  <2>2. CASE k <= Len(a)
    <3>1. k \in DOMAIN a /\ (a \o b)[k] = a[k]
      BY <2>2, <1>1, <1>2
    <3>2. QED
      BY <3>1, <1>3 DEF Within
  <2>3. CASE ~(k <= Len(a))
    <3>1. k - Len(a) \in DOMAIN b /\ (a \o b)[k] = b[k - Len(a)]
      BY <2>3, <1>1, <1>2
    <3>2. QED
      BY <3>1, <1>3 DEF Within
  <2>4. QED
    BY <2>2, <2>3
<1>4. ASSUME Within(a \o b, ms, f) PROVE Within(a, ms, f)
  <2>1. SUFFICES ASSUME NEW k \in 1..Len(a) PROVE NodeWithin(a[k], ms, f)
    BY <1>2 DEF Within
  <2>2. k \in 1..Len(a)+Len(b) /\ k <= Len(a)
    BY <1>2
  <2>3. (a \o b)[k] = a[k] /\ k \in DOMAIN (a \o b)
    BY <2>2, <1>1, <1>a
  <2>4. QED
    BY <2>3, <1>4 DEF Within
<1>5. ASSUME Within(a \o b, ms, f) PROVE Within(b, ms, f)
  <2>1. SUFFICES ASSUME NEW k \in 1..Len(b) PROVE NodeWithin(b[k], ms, f)
    BY <1>2 DEF Within
  <2>2. Len(a) + k \in 1..Len(a)+Len(b) /\ ~(Len(a) + k <= Len(a)) /\ Len(a) + k - Len(a) = k
    BY <1>2
  <2>3. (a \o b)[Len(a) + k] = b[k] /\ Len(a) + k \in DOMAIN (a \o b)
    BY <2>2, <1>1, <1>a
  <2>4. QED
    BY <2>3, <1>5 DEF Within
<1>6. QED
  BY <1>3, <1>4, <1>5

LEMMA WithinOne ==
  ASSUME NEW f, NEW ms, NEW n
  PROVE  Within(<<n>>, ms, f) <=> NodeWithin(n, ms, f)
<1>1. DOMAIN <<n>> = {1} /\ <<n>>[1] = n
  OBVIOUS
<1>2. QED
  BY <1>1 DEF Within

(* The quicklist q holds the list s; r holds s and comes from q by steps   *)
(* that mind the fill.                                                     *)
QlType == [nodes : Seq(QlNode), count : Nat, fill : Int]
Holds(q, s) == q \in QlType /\ q.count = Len(s) /\ FlatOf(q.nodes) = s
Becomes(q, r, s) == Holds(r, s) /\ r.fill = q.fill /\ Within(r.nodes, q.nodes, q.fill)

(* The types of a quicklist that holds a list.                             *)
LEMMA HoldsType ==
  ASSUME NEW q, NEW s, Holds(q, s)
  PROVE  /\ q.nodes \in Seq(QlNode) /\ q.count \in Nat /\ q.fill \in Int
         /\ s \in Seq(QLValues) /\ q.count = Len(s) /\ FlatOf(q.nodes) = s
         /\ Len(q.nodes) \in Nat /\ Len(s) \in Nat
<1>1. q.nodes \in Seq(QlNode) /\ q.count \in Nat /\ q.fill \in Int
      /\ q.count = Len(s) /\ FlatOf(q.nodes) = s
  BY DEF Holds, QlType
<1>2. s \in Seq(QLValues)
  BY <1>1, FlatOfType
<1>3. QED
  BY <1>1, <1>2

(* Steps that mind the fill: none, and one after another.                  *)
LEMMA BecomesSame ==
  ASSUME NEW q, NEW s, Holds(q, s)
  PROVE  Becomes(q, q, s)
<1>1. q.nodes \in Seq(QlNode)
  BY HoldsType
<1>2. QED
  BY <1>1, WithinSelf DEF Becomes

LEMMA BecomesThen ==
  ASSUME NEW q, NEW s, Holds(q, s), NEW r, NEW t, Becomes(q, r, t), NEW p, NEW u, Becomes(r, p, u)
  PROVE  Becomes(q, p, u)
<1>1. q.nodes \in Seq(QlNode) /\ q.fill \in Int
  BY HoldsType
<1>2. r.nodes \in Seq(QlNode) /\ r.fill = q.fill /\ Within(r.nodes, q.nodes, q.fill)
  BY HoldsType DEF Becomes
<1>3. p.nodes \in Seq(QlNode) /\ p.fill = r.fill /\ Within(p.nodes, r.nodes, r.fill) /\ Holds(p, u)
  BY HoldsType DEF Becomes
<1>4. Within(p.nodes, q.nodes, q.fill)
  BY <1>1, <1>2, <1>3, WithinAgain
<1>5. QED
  BY <1>2, <1>3, <1>4 DEF Becomes

(* The quicklist around its k-th node.                                     *)
LEMMA AroundNode ==
  ASSUME NEW q, NEW s, Holds(q, s), NEW k \in 1..Len(q.nodes)
  PROVE  LET a == SubSeq(q.nodes, 1, k - 1)
             b == Without(q.nodes, k)
             n == q.nodes[k]
         IN /\ a \in Seq(QlNode) /\ b \in Seq(QlNode) /\ n \in QlNode
            /\ FlatOf(a) \in Seq(QLValues) /\ FlatOf(b) \in Seq(QLValues)
            /\ n.elems \in Seq(QLValues) /\ Len(a) = k - 1
            /\ q.nodes = a \o (<<n>> \o b)
            /\ s = FlatOf(a) \o (n.elems \o FlatOf(b))
            /\ Within(a, q.nodes, q.fill) /\ Within(b, q.nodes, q.fill)
            /\ NodeWithin(n, q.nodes, q.fill)
<1> DEFINE ns == q.nodes
           a == SubSeq(ns, 1, k - 1)
           b == Without(ns, k)
           n == ns[k]
<1>1. ns \in Seq(QlNode) /\ FlatOf(ns) = s
  BY HoldsType
<1>2. a \in Seq(QlNode) /\ b \in Seq(QlNode) /\ n \in QlNode
      /\ ns = a \o (<<n>> \o b) /\ Len(a) = k - 1
  <2> HIDE DEF ns
  <2>1. k \in 1..Len(ns)
    BY DEF ns
  <2>2. QED
    BY <1>1, <2>1, SplitAround
<1> HIDE DEF ns, a, b, n
<1>3. <<n>> \in Seq(QlNode) /\ FlatOf(<<n>>) = n.elems
  BY <1>2, FlatOfOne
<1>4. <<n>> \o b \in Seq(QlNode) /\ FlatOf(<<n>> \o b) = n.elems \o FlatOf(b)
  BY <1>2, <1>3, FlatOfConcat
<1>5. FlatOf(a \o (<<n>> \o b)) = FlatOf(a) \o (n.elems \o FlatOf(b))
  BY <1>2, <1>4, FlatOfConcat
<1>6. Within(a \o (<<n>> \o b), ns, q.fill)
  BY <1>1, <1>2, WithinSelf
<1>7. Within(a, ns, q.fill) /\ Within(<<n>> \o b, ns, q.fill)
  BY <1>2, <1>4, <1>6, WithinConcat
<1>8. Within(<<n>>, ns, q.fill) /\ Within(b, ns, q.fill)
  BY <1>2, <1>3, <1>7, WithinConcat
<1>9. NodeWithin(n, ns, q.fill)
  BY <1>8, WithinOne
<1>10. FlatOf(a) \in Seq(QLValues) /\ FlatOf(b) \in Seq(QLValues) /\ n.elems \in Seq(QLValues)
  BY <1>2, FlatOfType, NodeType
<1>11. QED
  BY <1>1, <1>2, <1>5, <1>7, <1>8, <1>9, <1>10 DEF ns, a, b, n

(* And put together again from two or three runs of nodes.                 *)
Put(q, ns, c) == [q EXCEPT !.count = c, !.nodes = ns]

(* Any nodes within the fill, with the count set right.                    *)
LEMMA PutHolds ==
  ASSUME NEW q, NEW s, Holds(q, s), NEW ns \in Seq(QlNode), Within(ns, q.nodes, q.fill)
  PROVE  Becomes(q, Put(q, ns, Len(FlatOf(ns))), FlatOf(ns))
<1> DEFINE c == Len(FlatOf(ns))
<1>1. q \in QlType /\ c \in Nat
  BY FlatOfType DEF Holds
<1> HIDE DEF c
<1>2. Put(q, ns, c) \in QlType /\ Put(q, ns, c).nodes = ns /\ Put(q, ns, c).count = c
      /\ Put(q, ns, c).fill = q.fill
  BY <1>1 DEF Put, QlType
<1>3. QED
  BY <1>2 DEF Becomes, Holds, c

LEMMA TwoRuns ==
  ASSUME NEW q, NEW s, Holds(q, s), NEW a \in Seq(QlNode), NEW b \in Seq(QlNode),
         Within(a, q.nodes, q.fill), Within(b, q.nodes, q.fill)
  PROVE  LET t == FlatOf(a) \o FlatOf(b) IN Becomes(q, Put(q, a \o b, Len(t)), t)
<1>1. a \o b \in Seq(QlNode) /\ FlatOf(a \o b) = FlatOf(a) \o FlatOf(b)
  BY FlatOfConcat
<1>2. Within(a \o b, q.nodes, q.fill)
  BY WithinConcat
<1>3. Becomes(q, Put(q, a \o b, Len(FlatOf(a \o b))), FlatOf(a \o b))
  BY <1>1, <1>2, PutHolds
<1>4. QED
  BY <1>1, <1>3

LEMMA ThreeRuns ==
  ASSUME NEW q, NEW s, Holds(q, s),
         NEW a \in Seq(QlNode), NEW m \in Seq(QlNode), NEW b \in Seq(QlNode),
         Within(a, q.nodes, q.fill), Within(m, q.nodes, q.fill), Within(b, q.nodes, q.fill)
  PROVE  LET t == FlatOf(a) \o (FlatOf(m) \o FlatOf(b))
         IN  /\ Becomes(q, Put(q, a \o (m \o b), Len(t)), t)
             /\ a \o (m \o b) = (a \o m) \o b
<1>1. m \o b \in Seq(QlNode) /\ FlatOf(m \o b) = FlatOf(m) \o FlatOf(b)
  BY FlatOfConcat
<1>2. (a \o m) \o b = a \o (m \o b)
  BY ConcatAssociative
<1>3. Within(m \o b, q.nodes, q.fill)
  BY WithinConcat
<1>4. LET t == FlatOf(a) \o FlatOf(m \o b) IN Becomes(q, Put(q, a \o (m \o b), Len(t)), t)
  BY <1>1, <1>3, TwoRuns
<1>5. QED
  BY <1>1, <1>2, <1>4

-----------------------------------------------------------------------------
(* The two ends.                                                           *)

(* Empty or not, by length.                                                *)
LEMMA NotEmpty ==
  ASSUME NEW S, NEW s \in Seq(S)
  PROVE  s # <<>> <=> Len(s) >= 1
<1>1. Len(s) \in Nat
  OBVIOUS
<1>2. s # <<>> => Len(s) \in Nat \ {0}
  BY EmptySeq
<1>3. s = <<>> => Len(s) = 0
  BY EmptySeq
<1>4. QED
  BY <1>1, <1>2, <1>3

(* Runs of one node: as it was ...                                         *)
LEMMA OneNode ==
  ASSUME NEW n \in QlNode, NEW ms, NEW f, NodeWithin(n, ms, f)
  PROVE  <<n>> \in Seq(QlNode) /\ FlatOf(<<n>>) = n.elems /\ Within(<<n>>, ms, f)
BY FlatOfOne, WithinOne

(* ... new ...                                                             *)
LEMMA NewNode ==
  ASSUME NEW q, NEW v \in QLValues, NEW ms, NEW f \in Int
  PROVE  LET m == <<new_node(q, v)>>
         IN m \in Seq(QlNode) /\ FlatOf(m) = <<v>> /\ Within(m, ms, f)
<1>1. new_node(q, v) \in QlNode /\ new_node(q, v).elems = <<v>> /\ Len(<<v>>) = 1
  BY NewNodeType
<1>2. NodeWithin(new_node(q, v), ms, f)
  BY <1>1, WithinNew
<1>3. QED
  BY <1>1, <1>2, OneNode

(* ... packed, of few elements ...                                         *)
LEMMA PackedNode ==
  ASSUME NEW e \in Seq(QLValues), e # <<>>, NEW ms, NEW f \in Int,
         node_limit(f).count # 0 => Len(e) <= node_limit(f).count
  PROVE  LET m == <<Packed(e)>>
         IN m \in Seq(QlNode) /\ FlatOf(m) = e /\ Within(m, ms, f)
<1>1. Packed(e) \in QlNode /\ Packed(e).elems = e
  BY PackedType
<1>2. NodeWithin(Packed(e), ms, f)
  BY <1>1, WithinSmall
<1>3. QED
  BY <1>1, <1>2, OneNode

(* ... or with some of the elements of a node that was there.              *)
LEMMA PackedPart ==
  ASSUME NEW e \in Seq(QLValues), e # <<>>, NEW ms \in Seq(QlNode), NEW f \in Int,
         NEW n \in QlNode, NodeWithin(n, ms, f), Len(e) <= Len(n.elems)
  PROVE  LET m == <<Packed(e)>>
         IN m \in Seq(QlNode) /\ FlatOf(m) = e /\ Within(m, ms, f)
<1>1. Packed(e) \in QlNode /\ Packed(e).elems = e
  BY PackedType
<1>2. NodeWithin(Packed(e), ms, f)
  BY <1>1, WithinShorter
<1>3. QED
  BY <1>1, <1>2, OneNode

(* The first node and the rest.                                            *)
LEMMA HeadNode ==
  ASSUME NEW q, NEW s, Holds(q, s), q.nodes # <<>>
  PROVE  LET n == q.nodes[1]
             b == Tail(q.nodes)
         IN /\ n \in QlNode /\ b \in Seq(QlNode) /\ Within(b, q.nodes, q.fill)
            /\ NodeWithin(n, q.nodes, q.fill) /\ s = n.elems \o FlatOf(b)
            /\ FlatOf(b) \in Seq(QLValues) /\ n.elems \in Seq(QLValues)
<1> DEFINE ns == q.nodes
<1>1. ns \in Seq(QlNode) /\ Len(ns) \in Nat \ {0}
  BY HoldsType, EmptySeq
<1>2. 1 \in 1..Len(ns) /\ Without(ns, 1) = SubSeq(ns, 2, Len(ns)) /\ SubSeq(ns, 1, 1 - 1) = <<>>
  <2>1. 1 + 1 = 2 /\ 1 \in 1..Len(ns) /\ 1 - 1 = 0
    BY <1>1
  <2>2. SubSeq(ns, 1, 0) = <<>>
    BY SubSeqEmpty
  <2>3. QED
    BY <2>1, <2>2 DEF Without
<1>3. Tail(ns) = SubSeq(ns, 2, Len(ns))
  BY <1>1, TailIsSubSeq
<1>4. LET a == SubSeq(q.nodes, 1, 1 - 1)
          b == Without(q.nodes, 1)
          n == q.nodes[1]
      IN /\ b \in Seq(QlNode) /\ n \in QlNode
         /\ FlatOf(b) \in Seq(QLValues) /\ n.elems \in Seq(QLValues)
         /\ s = FlatOf(a) \o (n.elems \o FlatOf(b))
         /\ Within(b, q.nodes, q.fill) /\ NodeWithin(n, q.nodes, q.fill)
  <2> DEFINE k == 1
  <2>1. k \in 1..Len(q.nodes)
    BY <1>2
  <2> HIDE DEF k
  <2>2. LET a == SubSeq(q.nodes, 1, k - 1)
            b == Without(q.nodes, k)
            n == q.nodes[k]
        IN /\ b \in Seq(QlNode) /\ n \in QlNode
           /\ FlatOf(b) \in Seq(QLValues) /\ n.elems \in Seq(QLValues)
           /\ s = FlatOf(a) \o (n.elems \o FlatOf(b))
           /\ Within(b, q.nodes, q.fill) /\ NodeWithin(n, q.nodes, q.fill)
    BY <2>1, AroundNode
  <2>3. QED
    BY <2>2 DEF k
<1>5. s = <<>> \o (q.nodes[1].elems \o FlatOf(Tail(ns)))
  BY <1>2, <1>3, <1>4, FlatOfNone
<1>6. q.nodes[1].elems \o FlatOf(Tail(ns)) \in Seq(QLValues)
  BY <1>2, <1>3, <1>4, ConcatProperties
<1>7. s = q.nodes[1].elems \o FlatOf(Tail(ns))
  BY <1>5, <1>6, ConcatEmptySeq
<1>8. QED
  BY <1>2, <1>3, <1>4, <1>7

(* The last node and the rest.                                             *)
LEMMA LastNode ==
  ASSUME NEW q, NEW s, Holds(q, s), q.nodes # <<>>
  PROVE  LET n == Seqs!Last(q.nodes)
             a == Seqs!Front(q.nodes)
         IN /\ n \in QlNode /\ a \in Seq(QlNode) /\ Within(a, q.nodes, q.fill)
            /\ NodeWithin(n, q.nodes, q.fill) /\ s = FlatOf(a) \o n.elems
            /\ FlatOf(a) \in Seq(QLValues) /\ n.elems \in Seq(QLValues)
<1> DEFINE ns == q.nodes
           k == Len(ns)
<1>1. ns \in Seq(QlNode) /\ k \in Nat \ {0}
  BY HoldsType, EmptySeq
<1>2. k \in 1..Len(ns) /\ Without(ns, k) = <<>>
  <2>1. k \in 1..Len(ns) /\ k \in Int /\ k + 1 \in Int /\ k < k + 1
    BY <1>1
  <2> HIDE DEF k
  <2>2. SubSeq(ns, k + 1, k) = <<>>
    BY <2>1, SubSeqEmpty
  <2>3. QED
    BY <2>1, <2>2 DEF Without, k
<1>3. Seqs!Last(ns) = ns[k] /\ Seqs!Front(ns) = SubSeq(ns, 1, k - 1)
  BY DEF Seqs!Last, Seqs!Front
<1>4. LET a == SubSeq(q.nodes, 1, k - 1)
          b == Without(q.nodes, k)
          n == q.nodes[k]
      IN /\ a \in Seq(QlNode) /\ n \in QlNode
         /\ FlatOf(a) \in Seq(QLValues) /\ n.elems \in Seq(QLValues)
         /\ s = FlatOf(a) \o (n.elems \o FlatOf(b))
         /\ Within(a, q.nodes, q.fill) /\ NodeWithin(n, q.nodes, q.fill)
  <2> HIDE DEF k
  <2>1. k \in 1..Len(q.nodes)
    BY <1>2
  <2>2. QED
    BY <2>1, AroundNode
<1>5. s = FlatOf(SubSeq(ns, 1, k - 1)) \o (ns[k].elems \o <<>>)
  BY <1>2, <1>4, FlatOfNone
<1>6. ns[k].elems \o <<>> = ns[k].elems
  BY <1>4, ConcatEmptySeq
<1>7. QED
  BY <1>3, <1>4, <1>5, <1>6

(* LPUSH.                                                                  *)
LEMMA PushHeadHolds ==
  ASSUME NEW q, NEW s, Holds(q, s), NEW v \in QLValues
  PROVE  Becomes(q, push_head(q, v), <<v>> \o s)
<1> DEFINE n == q.nodes[1]
           one == <<Packed(<<v>> \o n.elems)>>
           c == Len(<<v>> \o s)
<1>1. q.nodes \in Seq(QlNode) /\ q.fill \in Int /\ s \in Seq(QLValues) /\ FlatOf(q.nodes) = s
      /\ q.count = Len(s) /\ <<v>> \in Seq(QLValues) /\ Len(<<v>>) = 1 /\ Len(s) \in Nat
  BY HoldsType
<1>2. q.count + 1 = Len(<<v>> \o s)
  <2>1. Len(<<v>> \o s) = Len(<<v>>) + Len(s)
    BY <1>1, ConcatProperties
  <2>2. QED
    BY <1>1, <2>1
<1>3. CASE q.nodes # <<>> /\ allows_insert(n, q.fill, QLLen[v])
  <2>1. /\ n \in QlNode /\ Tail(q.nodes) \in Seq(QlNode) /\ Within(Tail(q.nodes), q.nodes, q.fill)
        /\ s = n.elems \o FlatOf(Tail(q.nodes))
        /\ FlatOf(Tail(q.nodes)) \in Seq(QLValues) /\ n.elems \in Seq(QLValues)
    BY <1>3, HeadNode
  <2> HIDE DEF n
  <2>2. <<v>> \o n.elems \in Seq(QLValues) /\ Len(<<v>> \o n.elems) = 1 + Len(n.elems)
        /\ Len(n.elems) \in Nat
    BY <2>1, <1>1, ConcatProperties
  <2>3. <<v>> \o n.elems # <<>>
    BY <2>2, EmptySeq
  <2>4. node_limit(q.fill).count # 0 => Len(n.elems) + 1 <= node_limit(q.fill).count
    BY <2>1, <1>1, <1>3, InsertAllowed
  <2>5. one \in Seq(QlNode) /\ FlatOf(one) = <<v>> \o n.elems /\ Within(one, q.nodes, q.fill)
    <3> DEFINE e == <<v>> \o n.elems
    <3>1. e \in Seq(QLValues) /\ e # <<>> /\ (node_limit(q.fill).count # 0 => Len(e) <= node_limit(q.fill).count)
      BY <2>2, <2>3, <2>4
    <3> HIDE DEF e
    <3>2. LET m == <<Packed(e)>>
          IN m \in Seq(QlNode) /\ FlatOf(m) = e /\ Within(m, q.nodes, q.fill)
      BY <3>1, <1>1, PackedNode
    <3>3. QED
      BY <3>2 DEF e
  <2> DEFINE t == FlatOf(one) \o FlatOf(Tail(q.nodes))
  <2>6. Becomes(q, Put(q, one \o Tail(q.nodes), Len(t)), t)
    <3> HIDE DEF one
    <3>1. QED
      BY <2>1, <2>5, TwoRuns
  <2>7. t = <<v>> \o s
    <3>1. (<<v>> \o n.elems) \o FlatOf(Tail(q.nodes)) = <<v>> \o (n.elems \o FlatOf(Tail(q.nodes)))
      <4> DEFINE x == <<v>>
                 y == n.elems
                 z == FlatOf(Tail(q.nodes))
      <4>1. x \in Seq(QLValues) /\ y \in Seq(QLValues) /\ z \in Seq(QLValues)
        BY <2>1, <1>1
      <4> HIDE DEF x, y, z
      <4>2. (x \o y) \o z = x \o (y \o z)
        BY <4>1, ConcatAssociative
      <4>3. QED
        BY <4>2 DEF x, y, z
    <3>2. QED
      BY <3>1, <2>1, <2>5
  <2>8. push_head(q, v) = Put(q, one \o Tail(q.nodes), q.count + 1)
    BY <1>3 DEF push_head, Put, n
  <2>9. QED
    BY <2>6, <2>7, <2>8, <1>2
<1>4. CASE ~(q.nodes # <<>> /\ allows_insert(n, q.fill, QLLen[v]))
  <2> DEFINE new == <<new_node(q, v)>>
  <2>1. new \in Seq(QlNode) /\ FlatOf(new) = <<v>> /\ Within(new, q.nodes, q.fill)
    BY <1>1, NewNode
  <2>2. Within(q.nodes, q.nodes, q.fill)
    BY <1>1, WithinSelf
  <2>3. push_head(q, v) = Put(q, new \o q.nodes, q.count + 1)
    BY <1>4 DEF push_head, Put
  <2> DEFINE t == FlatOf(new) \o FlatOf(q.nodes)
  <2> HIDE DEF new
  <2>4. Becomes(q, Put(q, new \o q.nodes, Len(t)), t)
    BY <1>1, <2>1, <2>2, TwoRuns
  <2>5. QED
    BY <1>1, <1>2, <2>1, <2>3, <2>4
<1>5. QED
  BY <1>3, <1>4

(* RPUSH.                                                                  *)
LEMMA PushTailHolds ==
  ASSUME NEW q, NEW s, Holds(q, s), NEW v \in QLValues
  PROVE  Becomes(q, push_tail(q, v), Append(s, v)) /\ Append(s, v) = s \o <<v>>
<1> DEFINE n == Seqs!Last(q.nodes)
           a == Seqs!Front(q.nodes)
           one == <<Packed(Append(n.elems, v))>>
<1>1. q.nodes \in Seq(QlNode) /\ q.fill \in Int /\ s \in Seq(QLValues) /\ FlatOf(q.nodes) = s
      /\ q.count = Len(s) /\ <<v>> \in Seq(QLValues) /\ Len(s) \in Nat
  BY HoldsType
<1>2. Append(s, v) = s \o <<v>> /\ q.count + 1 = Len(Append(s, v))
  BY <1>1, AppendProperties, AppendIsConcat
<1>3. CASE q.nodes # <<>> /\ allows_insert(n, q.fill, QLLen[v])
  <2>1. /\ n \in QlNode /\ a \in Seq(QlNode) /\ Within(a, q.nodes, q.fill)
        /\ s = FlatOf(a) \o n.elems
        /\ FlatOf(a) \in Seq(QLValues) /\ n.elems \in Seq(QLValues)
    BY <1>3, LastNode
  <2>a. push_tail(q, v) = Put(q, Append(a, Packed(Append(n.elems, v))), q.count + 1)
    BY <1>3 DEF push_tail, Put
  <2> HIDE DEF n, a
  <2> DEFINE e == Append(n.elems, v)
  <2>2. e \in Seq(QLValues) /\ Len(e) = Len(n.elems) + 1 /\ e # <<>> /\ e = n.elems \o <<v>>
    BY <2>1, AppendProperties, AppendIsConcat
  <2>4. node_limit(q.fill).count # 0 => Len(n.elems) + 1 <= node_limit(q.fill).count
    BY <2>1, <1>1, <1>3, InsertAllowed
  <2> HIDE DEF e
  <2>b. LET m == <<Packed(e)>>
        IN m \in Seq(QlNode) /\ FlatOf(m) = e /\ Within(m, q.nodes, q.fill)
    BY <1>1, <2>2, <2>4, PackedNode
  <2>5. one \in Seq(QlNode) /\ FlatOf(one) = e /\ Within(one, q.nodes, q.fill)
    BY <2>b DEF e
  <2> DEFINE t == FlatOf(a) \o FlatOf(one)
  <2>6. Becomes(q, Put(q, a \o one, Len(t)), t)
    <3> HIDE DEF one
    <3>1. QED
      BY <2>1, <2>5, TwoRuns
  <2>7. t = Append(s, v)
    <3>1. FlatOf(a) \o (n.elems \o <<v>>) = (FlatOf(a) \o n.elems) \o <<v>>
      <4> DEFINE x == FlatOf(a)
                 y == n.elems
                 z == <<v>>
      <4>1. x \in Seq(QLValues) /\ y \in Seq(QLValues) /\ z \in Seq(QLValues)
        BY <2>1, <1>1
      <4> HIDE DEF x, y, z
      <4>2. (x \o y) \o z = x \o (y \o z)
        BY <4>1, ConcatAssociative
      <4>3. QED
        BY <4>2 DEF x, y, z
    <3>2. QED
      BY <3>1, <2>1, <2>2, <2>5, <1>2
  <2>8. Append(a, Packed(e)) = a \o <<Packed(e)>>
    <3>1. Packed(e) \in QlNode
      BY <2>2, PackedType
    <3>2. QED
      BY <3>1, <2>1, AppendIsConcat
  <2>9. push_tail(q, v) = Put(q, a \o one, q.count + 1)
    BY <2>a, <2>8 DEF e
  <2>10. QED
    BY <2>6, <2>7, <2>9, <1>2
<1>4. CASE ~(q.nodes # <<>> /\ allows_insert(n, q.fill, QLLen[v]))
  <2> DEFINE new == <<new_node(q, v)>>
  <2>1. new \in Seq(QlNode) /\ FlatOf(new) = <<v>> /\ Within(new, q.nodes, q.fill)
    BY <1>1, NewNode
  <2>2. Within(q.nodes, q.nodes, q.fill)
    BY <1>1, WithinSelf
  <2>a. push_tail(q, v) = Put(q, Append(q.nodes, new_node(q, v)), q.count + 1)
    BY <1>4 DEF push_tail, Put
  <2>b. new_node(q, v) \in QlNode
    BY NewNodeType
  <2>c. Append(q.nodes, new_node(q, v)) = q.nodes \o new
    BY <1>1, <2>b, AppendIsConcat
  <2>3. push_tail(q, v) = Put(q, q.nodes \o new, q.count + 1)
    BY <2>a, <2>c
  <2> DEFINE t == FlatOf(q.nodes) \o FlatOf(new)
  <2> HIDE DEF new
  <2>4. Becomes(q, Put(q, q.nodes \o new, Len(t)), t)
    BY <1>1, <2>1, <2>2, TwoRuns
  <2>5. QED
    BY <1>1, <1>2, <2>1, <2>3, <2>4
<1>5. QED
  BY <1>2, <1>3, <1>4

(* A list that is not empty is kept in some node.                          *)
LEMMA NodesThere ==
  ASSUME NEW q, NEW s, Holds(q, s)
  PROVE  q.nodes = <<>> <=> s = <<>>
<1>1. ASSUME q.nodes = <<>> PROVE s = <<>>
  BY <1>1, HoldsType, FlatOfNone
<1>2. ASSUME q.nodes # <<>>, s = <<>> PROVE FALSE
  <2>1. /\ q.nodes[1] \in QlNode /\ FlatOf(Tail(q.nodes)) \in Seq(QLValues)
        /\ q.nodes[1].elems \in Seq(QLValues) /\ s = q.nodes[1].elems \o FlatOf(Tail(q.nodes))
    BY <1>2, HeadNode
  <2>2. q.nodes[1].elems # <<>>
    BY <2>1, NodeType
  <2>3. QED
    <3>1. (q.nodes[1].elems \o FlatOf(Tail(q.nodes)) = <<>>)
            <=> (q.nodes[1].elems = <<>> /\ FlatOf(Tail(q.nodes)) = <<>>)
      BY <2>1, ConcatEqualIffEmpty
    <3>2. QED
      BY <2>1, <2>2, <3>1, <1>2
<1>3. QED
  BY <1>1, <1>2

(* Dropping an end of two sequences joined.                                *)
LEMMA TailOfConcat ==
  ASSUME NEW S, NEW a \in Seq(S), NEW b \in Seq(S), a # <<>>
  PROVE  Tail(a \o b) = Tail(a) \o b /\ Tail(a) \in Seq(S) /\ Len(Tail(a)) = Len(a) - 1
<1>1. Len(a) \in Nat \ {0} /\ Tail(a) \in Seq(S) /\ Len(Tail(a)) = Len(a) - 1
      /\ Tail(a) = SubSeq(a, 2, Len(a))
  BY EmptySeq, HeadTailProperties, TailIsSubSeq
<1>2. a \o b \in Seq(S) /\ a \o b # <<>>
  BY ConcatProperties, ConcatEqualIffEmpty
<1>3. Tail(a \o b) = SubSeq(a \o b, 2, Len(a \o b))
  BY <1>2, TailIsSubSeq
<1>4. 1 \in 0..Len(a) /\ 1 + 1 = 2
  BY <1>1
<1>5. Without(a \o b, 1) = Without(a, 1) \o b
  BY <1>4, WithoutLeft
<1>6. QED
  BY <1>1, <1>3, <1>4, <1>5 DEF Without

LEMMA FrontOfConcat ==
  ASSUME NEW S, NEW a \in Seq(S), NEW b \in Seq(S), b # <<>>
  PROVE  /\ Seqs!Front(a \o b) = a \o Seqs!Front(b)
         /\ Seqs!Front(b) \in Seq(S) /\ Len(Seqs!Front(b)) = Len(b) - 1
<1> DEFINE k == Len(b)
           c == SubSeq(b, 1, k - 1)
<1>1. k \in Nat \ {0} /\ Seqs!Front(b) = c
  BY EmptySeq DEF Seqs!Front
<1>2. k \in 1..Len(b) /\ Len(a \o b) = Len(a) + k /\ Len(a) \in Nat
  BY <1>1, ConcatProperties
<1>3. c \in Seq(S) /\ Len(c) = k - 1 /\ b[k] \in S /\ SubSeq(b, 1, k) = c \o <<b[k]>>
  <2> HIDE DEF k
  <2>1. QED
    BY <1>2, SplitAround
<1>4. b = c \o <<b[k]>>
  BY <1>3, SubSeqFull
<1> HIDE DEF c
<1>5. <<b[k]>> \in Seq(S)
  BY <1>3
<1>6. a \o b = (a \o c) \o <<b[k]>>
  <2>1. (a \o c) \o <<b[k]>> = a \o (c \o <<b[k]>>)
    <3> DEFINE x == a
               y == c
               z == <<b[k]>>
    <3>1. x \in Seq(S) /\ y \in Seq(S) /\ z \in Seq(S)
      BY <1>3, <1>5
    <3> HIDE DEF x, y, z
    <3>2. (x \o y) \o z = x \o (y \o z)
      BY <3>1, ConcatAssociative
    <3>3. QED
      BY <3>2 DEF x, y, z
  <2>2. QED
    BY <2>1, <1>4, Zenon
<1>7. a \o c \in Seq(S) /\ Len(a \o c) = Len(a \o b) - 1
  <2>1. a \o c \in Seq(S) /\ Len(a \o c) = Len(a) + Len(c)
    BY <1>3, ConcatProperties
  <2>2. QED
    BY <2>1, <1>1, <1>2, <1>3
<1>8. SubSeq(a \o b, 1, Len(a \o c)) = a \o c
  BY <1>5, <1>6, <1>7, CutWhereJoined
<1>9. Seqs!Front(a \o b) = a \o c
  BY <1>7, <1>8 DEF Seqs!Front
<1>10. QED
  BY <1>1, <1>3, <1>9

(* LPOP.                                                                   *)
LEMMA DropHeadHolds ==
  ASSUME NEW q, NEW s, Holds(q, s), s # <<>>
  PROVE  Becomes(q, drop_head(q), Tail(s))
<1> DEFINE n == q.nodes[1]
           b == Tail(q.nodes)
<1>1. q.nodes # <<>>
  BY NodesThere
<1>2. /\ n \in QlNode /\ b \in Seq(QlNode) /\ Within(b, q.nodes, q.fill)
      /\ NodeWithin(n, q.nodes, q.fill) /\ s = n.elems \o FlatOf(b)
      /\ FlatOf(b) \in Seq(QLValues) /\ n.elems \in Seq(QLValues)
  BY <1>1, HeadNode
<1>3. q.nodes \in Seq(QlNode) /\ q.fill \in Int /\ s \in Seq(QLValues) /\ q.count = Len(s)
  BY HoldsType
<1>4. n.elems # <<>> /\ Len(n.elems) \in Nat \ {0} /\ (n.plain => Len(n.elems) = 1)
  BY <1>2, NodeType DEF QlNode
<1>5. drop_head(q) = Put(q, IF n.plain \/ Len(n.elems) = 1 THEN b
                            ELSE <<Packed(Tail(n.elems))>> \o b, q.count - 1)
  BY <1>1 DEF drop_head, Put
<1> HIDE DEF n, b
<1>6. /\ Tail(s) = Tail(n.elems) \o FlatOf(b) /\ Tail(n.elems) \in Seq(QLValues)
      /\ Len(Tail(n.elems)) = Len(n.elems) - 1
  BY <1>2, <1>4, TailOfConcat
<1>7. Len(Tail(s)) = q.count - 1
  BY <1>3, HeadTailProperties
<1>8. CASE n.plain \/ Len(n.elems) = 1
  <2>1. Len(Tail(n.elems)) = 0
    BY <1>4, <1>6, <1>8
  <2>2. Tail(n.elems) = <<>>
    BY <2>1, <1>6, EmptySeq
  <2>3. Tail(s) = FlatOf(b)
    BY <2>2, <1>2, <1>6, ConcatEmptySeq
  <2>4. Becomes(q, Put(q, b, Len(FlatOf(b))), FlatOf(b))
    BY <1>2, PutHolds
  <2>5. QED
    BY <2>3, <2>4, <1>5, <1>7, <1>8
<1>9. CASE ~(n.plain \/ Len(n.elems) = 1)
  <2> DEFINE e == Tail(n.elems)
             one == <<Packed(e)>>
  <2>1. e \in Seq(QLValues) /\ e # <<>> /\ Len(e) <= Len(n.elems)
    <3>1. e \in Seq(QLValues) /\ Len(e) = Len(n.elems) - 1
      BY <1>6
    <3> HIDE DEF e
    <3>a. Len(n.elems) # 1
      BY <1>9
    <3>2. Len(e) >= 1 /\ Len(e) <= Len(n.elems)
      <4>1. PICK N \in Nat : N = Len(n.elems)
        BY <1>4
      <4>2. N \in Nat \ {0} /\ N # 1 /\ Len(e) = N - 1
        BY <4>1, <3>1, <3>a, <1>4
      <4>3. N - 1 >= 1 /\ N - 1 <= N
        BY <4>2
      <4>4. QED
        BY <4>1, <4>2, <4>3, Zenon
    <3>3. QED
      BY <3>1, <3>2, NotEmpty
  <2>a. drop_head(q) = Put(q, one \o b, q.count - 1)
    BY <1>5, <1>9
  <2> HIDE DEF e
  <2>2. one \in Seq(QlNode) /\ FlatOf(one) = e /\ Within(one, q.nodes, q.fill)
    BY <2>1, <1>2, <1>3, PackedPart
  <2> HIDE DEF one
  <2> DEFINE t == FlatOf(one) \o FlatOf(b)
  <2>3. Becomes(q, Put(q, one \o b, Len(t)), t)
    BY <2>2, <1>2, TwoRuns
  <2>4. t = Tail(s)
    BY <2>2, <1>6 DEF e
  <2>5. QED
    BY <2>3, <2>4, <2>a, <1>7
<1>10. QED
  BY <1>8, <1>9

(* RPOP.                                                                   *)
LEMMA DropTailHolds ==
  ASSUME NEW q, NEW s, Holds(q, s), s # <<>>
  PROVE  Becomes(q, drop_tail(q), Seqs!Front(s))
<1> DEFINE n == Seqs!Last(q.nodes)
           a == Seqs!Front(q.nodes)
<1>1. q.nodes # <<>>
  BY NodesThere
<1>2. /\ n \in QlNode /\ a \in Seq(QlNode) /\ Within(a, q.nodes, q.fill)
      /\ NodeWithin(n, q.nodes, q.fill) /\ s = FlatOf(a) \o n.elems
      /\ FlatOf(a) \in Seq(QLValues) /\ n.elems \in Seq(QLValues)
  BY <1>1, LastNode
<1>3. q.nodes \in Seq(QlNode) /\ q.fill \in Int /\ s \in Seq(QLValues) /\ q.count = Len(s)
  BY HoldsType
<1>4. n.elems # <<>> /\ Len(n.elems) \in Nat \ {0} /\ (n.plain => Len(n.elems) = 1)
  BY <1>2, NodeType DEF QlNode
<1>5. drop_tail(q) = Put(q, IF n.plain \/ Len(n.elems) = 1 THEN a
                            ELSE Append(a, Packed(Seqs!Front(n.elems))), q.count - 1)
  BY <1>1 DEF drop_tail, Put
<1> HIDE DEF n, a
<1> DEFINE e == Seqs!Front(n.elems)
<1>6. /\ Seqs!Front(s) = FlatOf(a) \o e /\ e \in Seq(QLValues)
      /\ Len(e) = Len(n.elems) - 1
  BY <1>2, <1>4, FrontOfConcat
<1>a. drop_tail(q) = Put(q, IF n.plain \/ Len(n.elems) = 1 THEN a
                            ELSE Append(a, Packed(e)), q.count - 1)
  BY <1>5
<1>7. Len(Seqs!Front(s)) = q.count - 1
  <2>1. <<>> \in Seq(QLValues) /\ <<>> \o s = s
    BY <1>3, ConcatEmptySeq
  <2>2. Len(Seqs!Front(s)) = Len(s) - 1
    BY <1>3, <2>1, FrontOfConcat
  <2>3. QED
    BY <2>2, <1>3
<1> HIDE DEF e
<1>8. CASE n.plain \/ Len(n.elems) = 1
  <2>1. Len(e) = 0
    BY <1>4, <1>6, <1>8
  <2>2. e = <<>>
    BY <2>1, <1>6, EmptySeq
  <2>3. Seqs!Front(s) = FlatOf(a)
    BY <2>2, <1>2, <1>6, ConcatEmptySeq
  <2>4. Becomes(q, Put(q, a, Len(FlatOf(a))), FlatOf(a))
    BY <1>2, PutHolds
  <2>5. QED
    BY <2>3, <2>4, <1>a, <1>7, <1>8
<1>9. CASE ~(n.plain \/ Len(n.elems) = 1)
  <2> DEFINE one == <<Packed(e)>>
  <2>1. e # <<>> /\ Len(e) <= Len(n.elems)
    <3>a. Len(n.elems) # 1
      BY <1>9
    <3>b. Len(e) = Len(n.elems) - 1 /\ Len(n.elems) \in Nat \ {0}
      BY <1>4, <1>6
    <3>1. Len(e) >= 1 /\ Len(e) <= Len(n.elems)
      <4>1. PICK N \in Nat : N = Len(n.elems)
        BY <3>b
      <4>2. N \in Nat \ {0} /\ N # 1 /\ Len(e) = N - 1
        BY <4>1, <3>a, <3>b
      <4>3. N - 1 >= 1 /\ N - 1 <= N
        BY <4>2
      <4>4. QED
        BY <4>1, <4>2, <4>3, Zenon
    <3>2. QED
      BY <3>1, <1>6, NotEmpty
  <2>2. one \in Seq(QlNode) /\ FlatOf(one) = e /\ Within(one, q.nodes, q.fill)
    BY <2>1, <1>2, <1>3, <1>6, PackedPart
  <2>a. drop_tail(q) = Put(q, Append(a, Packed(e)), q.count - 1)
    BY <1>a, <1>9
  <2>b. Packed(e) \in QlNode
    BY <2>1, <1>6, PackedType
  <2>c. Append(a, Packed(e)) = a \o one
    BY <2>b, <1>2, AppendIsConcat
  <2> HIDE DEF one
  <2> DEFINE t == FlatOf(a) \o FlatOf(one)
  <2>3. Becomes(q, Put(q, a \o one, Len(t)), t)
    BY <2>2, <1>2, TwoRuns
  <2>4. t = Seqs!Front(s)
    BY <2>2, <1>6
  <2>5. QED
    BY <2>3, <2>4, <2>a, <2>c, <1>7
<1>10. QED
  BY <1>8, <1>9

-----------------------------------------------------------------------------
(* Walking the nodes to an element.                                        *)

(* What a sum of the model adds up to.                                     *)
LEMMA QlSumIs ==
  ASSUME NEW f, NEW m \in Nat, NEW G \in [0..m -> Nat],
         G[0] = 0, \A k \in 1..m : G[k] = G[k - 1] + f[k]
  PROVE  QlSum(f, m) = G[m]
<1> DEFINE Q(h) == h = [k \in 0 .. m |-> IF k = 0 THEN 0 ELSE h[k - 1] + f[k]]
           h0 == CHOOSE h : Q(h)
<1>5. Q(G)
  <2>1. ASSUME NEW k \in 0 .. m PROVE G[k] = IF k = 0 THEN 0 ELSE G[k - 1] + f[k]
    <3>1. k = 0 \/ k \in 1..m
      OBVIOUS
    <3>2. QED
      BY <3>1
  <2>2. G = [k \in 0 .. m |-> G[k]]
    OBVIOUS
  <2>3. G = [k \in 0 .. m |-> IF k = 0 THEN 0 ELSE G[k - 1] + f[k]]
    BY <2>1, <2>2
  <2>4. QED
    BY <2>3
<1>6. Q(h0)
  <2> HIDE DEF Q
  <2>1. QED
    BY <1>5
<1>7. QlSum(f, m) = h0[m]
  BY DEF QlSum
<1> HIDE DEF h0
<1>8. \A k \in 0 .. m : h0[k] = IF k = 0 THEN 0 ELSE h0[k - 1] + f[k]
  BY <1>6
<1> HIDE DEF Q
<1> DEFINE T == {k \in Nat : k <= m => h0[k] = G[k]}
<1>9. 0 \in T
  BY <1>8
<1>10. ASSUME NEW k \in Nat, k \in T PROVE k + 1 \in T
  <2>1. SUFFICES ASSUME k + 1 <= m PROVE h0[k + 1] = G[k + 1]
    OBVIOUS
  <2>2. k + 1 \in 0..m /\ k + 1 \in 1..m /\ k + 1 # 0 /\ (k + 1) - 1 = k /\ k <= m
    BY <2>1
  <2>3. h0[k + 1] = h0[k] + f[k + 1]
    BY <1>8, <2>2
  <2>4. G[k + 1] = G[k] + f[k + 1]
    BY <2>2
  <2>5. h0[k] = G[k]
    BY <1>10, <2>2
  <2>6. QED
    BY <2>3, <2>4, <2>5
<1>11. \A k \in Nat : k \in T
  <2> HIDE DEF T
  <2>1. QED
    BY <1>9, <1>10, Induction
<1>12. QED
  BY <1>7, <1>11

(* Elements before a node and from it on.                                  *)
Passed(ns, k) == Len(FlatOf(SubSeq(ns, 1, k)))
Ahead(ns, k) == Len(FlatOf(Without(ns, k)))

(* Both grow by the node passed, and add up to the list.                   *)
LEMMA PassedAndAhead ==
  ASSUME NEW ns \in Seq(QlNode)
  PROVE  /\ Passed(ns, 0) = 0 /\ Passed(ns, Len(ns)) = Len(FlatOf(ns)) /\ Ahead(ns, Len(ns)) = 0
         /\ \A k \in 0..Len(ns) :
              Passed(ns, k) \in Nat /\ Ahead(ns, k) \in Nat
              /\ Passed(ns, k) + Ahead(ns, k) = Len(FlatOf(ns))
         /\ \A k \in 1..Len(ns) : ns[k] \in QlNode /\ Len(ns[k].elems) \in Nat
              /\ Passed(ns, k) = Passed(ns, k - 1) + Len(ns[k].elems)
              /\ Ahead(ns, k - 1) = Ahead(ns, k) + Len(ns[k].elems)
<1>1. Len(ns) \in Nat /\ SubSeq(ns, 1, Len(ns)) = ns
  BY SubSeqFull
<1>2. SubSeq(ns, 1, 0) = <<>> /\ Without(ns, Len(ns)) = <<>>
  <2>1. SubSeq(ns, 1, 0) = <<>>
    BY SubSeqEmpty
  <2>2. Len(ns) \in Int /\ Len(ns) + 1 \in Int /\ Len(ns) < Len(ns) + 1
    BY <1>1
  <2>3. SubSeq(ns, Len(ns) + 1, Len(ns)) = <<>>
    BY <2>2, SubSeqEmpty
  <2>4. QED
    BY <2>1, <2>3 DEF Without
<1>3. Len(FlatOf(<<>>)) = 0
  BY FlatOfNone
<1>4. ASSUME NEW k \in 0..Len(ns)
      PROVE  /\ Passed(ns, k) \in Nat /\ Ahead(ns, k) \in Nat
             /\ Passed(ns, k) + Ahead(ns, k) = Len(FlatOf(ns))
  <2> DEFINE a == SubSeq(ns, 1, k)
             b == Without(ns, k)
  <2>1. a \in Seq(QlNode) /\ b \in Seq(QlNode) /\ ns = a \o b
    BY FrontType, WithoutType, FrontAndRest
  <2> HIDE DEF a, b
  <2>2. FlatOf(ns) = FlatOf(a) \o FlatOf(b) /\ FlatOf(a) \in Seq(QLValues) /\ FlatOf(b) \in Seq(QLValues)
    BY <2>1, FlatOfConcat, FlatOfType
  <2>3. Len(FlatOf(ns)) = Len(FlatOf(a)) + Len(FlatOf(b)) /\ Len(FlatOf(a)) \in Nat
        /\ Len(FlatOf(b)) \in Nat
    BY <2>2, ConcatProperties
  <2>4. QED
    BY <2>3 DEF Passed, Ahead, a, b
<1>5. ASSUME NEW k \in 1..Len(ns)
      PROVE  /\ ns[k] \in QlNode /\ Len(ns[k].elems) \in Nat
             /\ Passed(ns, k) = Passed(ns, k - 1) + Len(ns[k].elems)
             /\ Ahead(ns, k - 1) = Ahead(ns, k) + Len(ns[k].elems)
  <2>1. /\ ns[k] \in QlNode /\ SubSeq(ns, 1, k - 1) \in Seq(QlNode) /\ Without(ns, k) \in Seq(QlNode)
        /\ Without(ns, k - 1) = <<ns[k]>> \o Without(ns, k)
        /\ SubSeq(ns, 1, k) = SubSeq(ns, 1, k - 1) \o <<ns[k]>>
    BY SplitAround
  <2>2. <<ns[k]>> \in Seq(QlNode) /\ FlatOf(<<ns[k]>>) = ns[k].elems /\ ns[k].elems \in Seq(QLValues)
        /\ Len(ns[k].elems) \in Nat
    BY <2>1, FlatOfOne, NodeType
  <2> DEFINE a == SubSeq(ns, 1, k - 1)
             b == Without(ns, k)
             m == <<ns[k]>>
             x == FlatOf(a)
             y == FlatOf(b)
             e == ns[k].elems
  <2>3. a \in Seq(QlNode) /\ b \in Seq(QlNode) /\ m \in Seq(QlNode) /\ FlatOf(m) = e
    BY <2>1, <2>2
  <2> HIDE DEF a, b, m
  <2>4. FlatOf(a \o m) = FlatOf(a) \o FlatOf(m) /\ FlatOf(m \o b) = FlatOf(m) \o FlatOf(b)
        /\ x \in Seq(QLValues) /\ y \in Seq(QLValues)
    BY <2>3, FlatOfConcat, FlatOfType
  <2>5. e \in Seq(QLValues)
    BY <2>2
  <2> HIDE DEF x, y, e
  <2>6. Len(x \o e) = Len(x) + Len(e) /\ Len(e \o y) = Len(e) + Len(y)
        /\ Len(x) \in Nat /\ Len(y) \in Nat /\ Len(e) \in Nat
    BY <2>4, <2>5, ConcatProperties
  <2>7. Passed(ns, k) = Len(x \o e) /\ Passed(ns, k - 1) = Len(x)
        /\ Ahead(ns, k - 1) = Len(e \o y) /\ Ahead(ns, k) = Len(y)
    BY <2>1, <2>3, <2>4 DEF Passed, Ahead, a, b, m, x, y
  <2>8. Passed(ns, k) = Passed(ns, k - 1) + Len(e) /\ Ahead(ns, k - 1) = Ahead(ns, k) + Len(e)
    BY <2>6, <2>7
  <2>9. QED
    BY <2>1, <2>2, <2>8 DEF e
<1>6. QED
  BY <1>1, <1>2, <1>3, <1>4, <1>5 DEF Passed, Ahead

(* The walk from either end passes the elements it should.                 *)
LEMMA WalkForward ==
  ASSUME NEW ns \in Seq(QlNode), NEW k \in 1..Len(ns)
  PROVE  QlSum([j \in 1 .. Len(ns) |-> NodeCount(ns[j])], k - 1) = Passed(ns, k - 1)
<1> DEFINE m == k - 1
           f == [j \in 1 .. Len(ns) |-> NodeCount(ns[j])]
           G == [j \in 0..m |-> Passed(ns, j)]
<1>1. m \in Nat /\ m <= Len(ns) /\ Len(ns) \in Nat
  OBVIOUS
<1> HIDE DEF m
<1>2. \A j \in 0..m : j \in 0..Len(ns)
  BY <1>1
<1>3. G \in [0..m -> Nat]
  BY <1>2, PassedAndAhead
<1>4. G[0] = 0
  BY <1>1, PassedAndAhead
<1>5. ASSUME NEW j \in 1..m PROVE G[j] = G[j - 1] + f[j]
  <2>1. j \in 1..Len(ns) /\ j \in 0..m /\ j - 1 \in 0..m
    BY <1>1
  <2>2. ns[j] \in QlNode /\ Passed(ns, j) = Passed(ns, j - 1) + Len(ns[j].elems)
    BY <2>1, PassedAndAhead
  <2>3. f[j] = Len(ns[j].elems)
    BY <2>1, <2>2, NodeType
  <2>4. G[j] = Passed(ns, j) /\ G[j - 1] = Passed(ns, j - 1)
    BY <2>1
  <2>5. QED
    BY <2>2, <2>3, <2>4
<1>a. G[m] = Passed(ns, m)
  BY <1>1
<1> HIDE DEF G, f
<1>6. QlSum(f, m) = G[m]
  BY <1>1, <1>3, <1>4, <1>5, QlSumIs
<1>7. QED
  BY <1>6, <1>a DEF f, m

LEMMA WalkBackward ==
  ASSUME NEW ns \in Seq(QlNode), NEW k \in 1..Len(ns)
  PROVE  QlSum([j \in 1 .. Len(ns) |-> NodeCount(ns[Len(ns) + 1 - j])], Len(ns) - k + 1)
           = Ahead(ns, k - 1)
<1>0. PICK n \in Nat : n = Len(ns)
  OBVIOUS
<1> DEFINE m == n - k + 1
           f == [j \in 1 .. n |-> NodeCount(ns[n + 1 - j])]
           G == [j \in 0..m |-> Ahead(ns, n - j)]
<1>1. m \in Nat /\ m <= n /\ k \in 1..n /\ n - m = k - 1
  BY <1>0
<1>b. /\ Ahead(ns, n) = 0
      /\ \A j \in 0..n : Ahead(ns, j) \in Nat
      /\ \A j \in 1..n : ns[j] \in QlNode /\ Len(ns[j].elems) \in Nat
              /\ Ahead(ns, j - 1) = Ahead(ns, j) + Len(ns[j].elems)
  BY <1>0, PassedAndAhead
<1> HIDE DEF m
<1>2. \A j \in 0..m : n - j \in 0..n
  BY <1>1
<1>3. G \in [0..m -> Nat]
  BY <1>2, <1>b
<1>4. G[0] = 0
  <2>1. 0 \in 0..m /\ n - 0 = n
    BY <1>1
  <2>2. QED
    BY <2>1, <1>b
<1>5. ASSUME NEW j \in 1..m PROVE G[j] = G[j - 1] + f[j]
  <2>1. n + 1 - j \in 1..n /\ j \in 0..m /\ j - 1 \in 0..m /\ j \in 1..n
        /\ (n + 1 - j) - 1 = n - j /\ n - (j - 1) = n + 1 - j
    BY <1>1
  <2> DEFINE i == n + 1 - j
  <2>2. ns[i] \in QlNode /\ Ahead(ns, i - 1) = Ahead(ns, i) + Len(ns[i].elems)
    BY <2>1, <1>b
  <2>3. f[j] = Len(ns[i].elems)
    BY <2>1, <2>2, NodeType
  <2>4. G[j] = Ahead(ns, i - 1) /\ G[j - 1] = Ahead(ns, i)
    BY <2>1
  <2>5. QED
    BY <2>2, <2>3, <2>4
<1>a. G[m] = Ahead(ns, k - 1)
  <2>1. m \in 0..m
    BY <1>1
  <2>2. QED
    BY <1>1, <2>1
<1> HIDE DEF G, f
<1>6. QlSum(f, m) = G[m]
  BY <1>1, <1>3, <1>4, <1>5, QlSumIs
<1>7. QED
  BY <1>0, <1>6, <1>a DEF f, m

(* The place of element i: node k, off elements into it.                   *)
Place(ns, i, k, off) ==
  k \in 1..Len(ns) /\ off \in Nat /\ off < Len(ns[k].elems) /\ Passed(ns, k - 1) + off = i

(* Every element has a place.                                              *)
LEMMA PlaceExists ==
  ASSUME NEW ns \in Seq(QlNode), NEW i \in Nat, i < Len(FlatOf(ns))
  PROVE  \E k \in 1..Len(ns) : i - Passed(ns, k - 1) \in 0 .. Len(ns[k].elems) - 1
<1>0. PICK n \in Nat : n = Len(ns)
  OBVIOUS
<1>1. /\ Passed(ns, 0) = 0 /\ Passed(ns, n) = Len(FlatOf(ns))
      /\ \A k \in 0..n : Passed(ns, k) \in Nat
      /\ \A k \in 1..n : ns[k] \in QlNode /\ Len(ns[k].elems) \in Nat
              /\ Passed(ns, k) = Passed(ns, k - 1) + Len(ns[k].elems)
  BY <1>0, PassedAndAhead
<1> DEFINE T == {k \in 0..n : Passed(ns, k) > i}
<1>2. n \in T /\ T \in SUBSET Nat
  BY <1>1
<1>3. PICK k \in T : \A j \in T : k <= j
  <2> HIDE DEF T
  <2>1. QED
    BY <1>2, LeastNumber
<1>4. k \in 1..n
  <2>1. k # 0
    BY <1>1
  <2>2. QED
    BY <2>1
<1>5. k - 1 \in 0..n /\ k - 1 \notin T
  BY <1>3, <1>4
<1>6. ~(Passed(ns, k - 1) > i) /\ Passed(ns, k) > i
  BY <1>5
<1>7. PICK a \in Nat : a = Passed(ns, k - 1)
  BY <1>1, <1>5
<1>8. PICK l \in Nat : l = Len(ns[k].elems)
  BY <1>1, <1>4
<1>9. ~(a > i) /\ a + l > i
  BY <1>1, <1>4, <1>6, <1>7, <1>8
<1>10. i - a \in 0 .. l - 1
  BY <1>9
<1>11. QED
  BY <1>0, <1>4, <1>7, <1>8, <1>10

(* locate finds it, whichever end it walks from.                           *)
LEMMA LocateFinds ==
  ASSUME NEW q, NEW s, Holds(q, s), NEW i \in 0..Len(s)-1
  PROVE  /\ locate(q, i) # Nil
         /\ \E k \in 1..Len(q.nodes), off \in Nat : locate(q, i) = <<k, off>> /\ Place(q.nodes, i, k, off)
<1> DEFINE ns == q.nodes
           n == Len(ns)
           before(k) == QlSum([j \in 1 .. n |-> NodeCount(ns[j])], k - 1)
           from(k) == QlSum([j \in 1 .. n |-> NodeCount(ns[n + 1 - j])], n - k + 1)
           base(k) == IF i <= q.count \div 2 THEN before(k) ELSE q.count - from(k)
           S == {p \in {<<k, i - base(k)>> : k \in 1 .. n} :
                    p[2] \in 0 .. NodeCount(ns[p[1]]) - 1}
<1>1. ns \in Seq(QlNode) /\ q.count = Len(s) /\ FlatOf(ns) = s /\ Len(s) \in Nat /\ n \in Nat
  BY HoldsType
<1>2. locate(q, i) = TheOne(S)
  <2>1. ~(i >= q.count)
    BY <1>1
  <2>2. QED
    BY <2>1 DEF locate
<1>3. ASSUME NEW k \in 1..n PROVE base(k) = Passed(ns, k - 1) /\ Passed(ns, k - 1) \in Nat
  <2> HIDE DEF ns
  <2>1. before(k) = Passed(ns, k - 1) /\ from(k) = Ahead(ns, k - 1)
    BY <1>1, WalkForward, WalkBackward
  <2>2. k - 1 \in 0..Len(ns)
    BY <1>1
  <2>3. Passed(ns, k - 1) \in Nat /\ Ahead(ns, k - 1) \in Nat
        /\ Passed(ns, k - 1) + Ahead(ns, k - 1) = Len(FlatOf(ns))
    BY <1>1, <2>2, PassedAndAhead
  <2> HIDE DEF before, from
  <2>4. q.count - from(k) = Passed(ns, k - 1)
    BY <1>1, <2>1, <2>3
  <2>5. QED
    BY <2>1, <2>3, <2>4
<1> HIDE DEF base
<1>4. \A k \in 1..n : ns[k] \in QlNode /\ NodeCount(ns[k]) = Len(ns[k].elems) /\ Len(ns[k].elems) \in Nat
  <2>1. \A k \in 1..n : ns[k] \in QlNode
    BY <1>1
  <2>2. QED
    BY <2>1, NodeType
<1>5. S # {}
  <2>1. i \in Nat /\ i < Len(FlatOf(ns))
    BY <1>1
  <2>2. PICK k \in 1..n : i - Passed(ns, k - 1) \in 0 .. Len(ns[k].elems) - 1
    <3> HIDE DEF ns
    <3>1. QED
      BY <1>1, <2>1, PlaceExists
  <2> DEFINE p == <<k, i - base(k)>>
  <2>3. p[1] = k /\ p[2] = i - base(k)
    OBVIOUS
  <2>4. p[2] \in 0 .. NodeCount(ns[p[1]]) - 1
    BY <2>2, <2>3, <1>3, <1>4
  <2>5. p \in {<<j, i - base(j)>> : j \in 1 .. n}
    OBVIOUS
  <2> HIDE DEF p
  <2>6. QED
    BY <2>4, <2>5
<1>6. locate(q, i) \in S
  BY <1>2, <1>5 DEF TheOne
<1>7. PICK k \in 1..n : locate(q, i) = <<k, i - base(k)>>
  BY <1>6
<1> DEFINE off == i - Passed(ns, k - 1)
<1>8. locate(q, i) = <<k, off>>
  BY <1>3, <1>7
<1>9. locate(q, i)[2] \in 0 .. NodeCount(ns[locate(q, i)[1]]) - 1
  BY <1>6
<1>10. off \in 0 .. Len(ns[k].elems) - 1
  <2>1. locate(q, i)[1] = k /\ locate(q, i)[2] = off
    BY <1>8
  <2>2. QED
    BY <1>4, <1>9, <2>1
<1>11. off \in Nat /\ off < Len(ns[k].elems) /\ Passed(ns, k - 1) + off = i
  BY <1>3, <1>4, <1>10
<1> HIDE DEF off
<1>12. <<k, off>> \in Nat \X Nat
  BY <1>1, <1>11
<1>13. locate(q, i) # Nil
  BY <1>8, <1>12, QuicklistConstants DEF QuicklistConstants
<1>14. QED
  BY <1>8, <1>11, <1>13 DEF Place

-----------------------------------------------------------------------------
(* Merging neighbours.                                                     *)

(* Concatenation read in another grouping; as predicates, which the        *)
(* provers match as they stand.                                            *)
FourRegroup(w, x, y, z) == (w \o x) \o (y \o z) = w \o ((x \o y) \o z)
FiveRegroup(v, w, x, y, z) == ((v \o w) \o x) \o (y \o z) = v \o (((w \o x) \o y) \o z)

(* Concatenation is associative.                                           *)
LEMMA RegroupFour ==
  ASSUME NEW S, NEW w \in Seq(S), NEW x \in Seq(S), NEW y \in Seq(S), NEW z \in Seq(S)
  PROVE  FourRegroup(w, x, y, z)
<1> DEFINE yz == y \o z
<1>1. yz \in Seq(S)
  BY ConcatProperties
<1>2. x \o yz = (x \o y) \o z
  BY ConcatAssociative
<1> HIDE DEF yz
<1>3. (w \o x) \o yz = w \o (x \o yz)
  BY <1>1, ConcatAssociative
<1>4. QED
  BY <1>2, <1>3 DEF yz, FourRegroup

LEMMA RegroupFive ==
  ASSUME NEW S, NEW v \in Seq(S), NEW w \in Seq(S), NEW x \in Seq(S), NEW y \in Seq(S), NEW z \in Seq(S)
  PROVE  FiveRegroup(v, w, x, y, z)
<1> DEFINE wx == w \o x
<1>1. wx \in Seq(S)
  BY ConcatProperties
<1>2. (v \o w) \o x = v \o wx
  <2>1. v \in Seq(S) /\ w \in Seq(S) /\ x \in Seq(S)
    OBVIOUS
  <2>2. (v \o w) \o x = v \o (w \o x)
    BY ONLY <2>1, ConcatAssociative
  <2>3. QED
    BY <2>2
<1> HIDE DEF wx
<1>3. FourRegroup(v, wx, y, z)
  BY <1>1, RegroupFour
<1>4. QED
  BY <1>2, <1>3 DEF wx, FourRegroup, FiveRegroup

(* A change of the nodes alone.                                            *)
LEMMA PutNodes ==
  ASSUME NEW q \in QlType, NEW ns
  PROVE  [q EXCEPT !.nodes = ns] = Put(q, ns, q.count)
BY DEF QlType, Put

(* The quicklist cut between two nodes.                                    *)
LEMMA BetweenNodes ==
  ASSUME NEW q, NEW s, Holds(q, s), NEW k \in 0..Len(q.nodes)
  PROVE  LET a == SubSeq(q.nodes, 1, k)
             b == Without(q.nodes, k)
         IN /\ a \in Seq(QlNode) /\ b \in Seq(QlNode)
            /\ FlatOf(a) \in Seq(QLValues) /\ FlatOf(b) \in Seq(QLValues)
            /\ Len(FlatOf(a)) = Passed(q.nodes, k)
            /\ q.nodes = a \o b /\ s = FlatOf(a) \o FlatOf(b)
            /\ Within(a, q.nodes, q.fill) /\ Within(b, q.nodes, q.fill)
<1> DEFINE ns == q.nodes
           a == SubSeq(ns, 1, k)
           b == Without(ns, k)
<1>1. ns \in Seq(QlNode) /\ FlatOf(ns) = s
  BY HoldsType
<1>2. a \in Seq(QlNode) /\ b \in Seq(QlNode) /\ ns = a \o b
  <2> HIDE DEF ns
  <2>1. k \in 0..Len(ns)
    BY DEF ns
  <2>2. QED
    BY <1>1, <2>1, FrontType, WithoutType, FrontAndRest
<1>3. Len(FlatOf(a)) = Passed(ns, k)
  BY DEF Passed
<1> HIDE DEF ns, a, b
<1>4. FlatOf(a \o b) = FlatOf(a) \o FlatOf(b) /\ FlatOf(a) \in Seq(QLValues) /\ FlatOf(b) \in Seq(QLValues)
  BY <1>2, FlatOfConcat, FlatOfType
<1>5. Within(a \o b, ns, q.fill)
  BY <1>1, <1>2, WithinSelf
<1>6. Within(a, ns, q.fill) /\ Within(b, ns, q.fill)
  BY <1>2, <1>5, WithinConcat
<1>7. QED
  BY <1>1, <1>2, <1>3, <1>4, <1>6 DEF ns, a, b

(* Merging two nodes changes no element and minds the fill.                *)
LEMMA TryMergeHolds ==
  ASSUME NEW q, NEW s, Holds(q, s), NEW i
  PROVE  Becomes(q, try_merge(q, i), s)
<1>1. CASE ~CanMerge(q, i)
  BY <1>1, BecomesSame DEF try_merge
<1>2. CASE CanMerge(q, i)
  <2> DEFINE ns == q.nodes
             a == SubSeq(ns, 1, i - 1)
             c == Without(ns, i + 1)
             x == ns[i].elems
             y == ns[i + 1].elems
             e == x \o y
             one == <<Packed(e)>>
  <2>0. q \in QlType /\ ns \in Seq(QlNode) /\ q.fill \in Int /\ q.count = Len(s) /\ Len(ns) \in Nat
    BY HoldsType DEF Holds
  <2>1. i \in 1 .. Len(ns) - 1 /\ allows_merge(ns[i], ns[i + 1], q.fill)
    BY <1>2 DEF CanMerge
  <2>2. i \in 1..Len(ns) /\ i + 1 \in 1..Len(ns) /\ (i + 1) - 1 = i /\ (i + 1) + 1 = i + 2
    BY <2>0, <2>1
  <2>3. try_merge(q, i) = Put(q, (a \o one) \o c, q.count)
    <3>1. try_merge(q, i) = [q EXCEPT !.nodes = (a \o one) \o c]
      BY <1>2, <2>2 DEF try_merge, Without
    <3>2. QED
      BY <3>1, <2>0, PutNodes
  <2>4. /\ a \in Seq(QlNode) /\ ns[i] \in QlNode /\ FlatOf(a) \in Seq(QLValues) /\ x \in Seq(QLValues)
        /\ s = FlatOf(a) \o (x \o FlatOf(Without(ns, i))) /\ Within(a, ns, q.fill)
    BY <2>2, AroundNode
  <2>5. /\ c \in Seq(QlNode) /\ ns[i + 1] \in QlNode /\ FlatOf(c) \in Seq(QLValues) /\ y \in Seq(QLValues)
        /\ Within(c, ns, q.fill)
    <3> DEFINE k == i + 1
    <3>1. k \in 1..Len(q.nodes)
      BY <2>2
    <3> HIDE DEF k
    <3>2. /\ Without(q.nodes, k) \in Seq(QlNode) /\ q.nodes[k] \in QlNode
          /\ FlatOf(Without(q.nodes, k)) \in Seq(QLValues) /\ q.nodes[k].elems \in Seq(QLValues)
          /\ Within(Without(q.nodes, k), q.nodes, q.fill)
      BY <3>1, AroundNode
    <3>3. QED
      BY <3>2 DEF k
  <2>6. Without(ns, i) = <<ns[i + 1]>> \o c
    <3> DEFINE k == i + 1
    <3>1. k \in 1..Len(ns) /\ k - 1 = i
      BY <2>2
    <3> HIDE DEF k, ns
    <3>2. Without(ns, k - 1) = <<ns[k]>> \o Without(ns, k)
      BY <2>0, <3>1, SplitAround
    <3>3. QED
      BY <3>1, <3>2 DEF k
  <2>7. node_limit(q.fill).count # 0 => Len(x) + Len(y) <= node_limit(q.fill).count
    BY <2>0, <2>1, <2>4, <2>5, MergeAllowed
  <2>8. x # <<>>
    BY <2>4, NodeType
  <2>9. FlatOf(Without(ns, i)) = y \o FlatOf(c)
    <3>1. <<ns[i + 1]>> \in Seq(QlNode) /\ FlatOf(<<ns[i + 1]>>) = y
      BY <2>5, FlatOfOne
    <3>2. FlatOf(<<ns[i + 1]>> \o c) = FlatOf(<<ns[i + 1]>>) \o FlatOf(c)
      BY <2>5, <3>1, FlatOfConcat
    <3>3. QED
      BY <2>6, <3>1, <3>2
  <2> HIDE DEF x, y, a, c, ns
  <2>10. e \in Seq(QLValues) /\ Len(e) = Len(x) + Len(y) /\ e # <<>>
    BY <2>4, <2>5, <2>8, ConcatProperties, ConcatEqualIffEmpty
  <2> HIDE DEF e
  <2>11. one \in Seq(QlNode) /\ FlatOf(one) = e /\ Within(one, ns, q.fill)
    <3>1. node_limit(q.fill).count # 0 => Len(e) <= node_limit(q.fill).count
      BY <2>7, <2>10
    <3>2. QED
      BY <2>0, <2>10, <3>1, PackedNode
  <2> HIDE DEF one
  <2> DEFINE t == FlatOf(a) \o (FlatOf(one) \o FlatOf(c))
  <2>12. Becomes(q, Put(q, a \o (one \o c), Len(t)), t) /\ a \o (one \o c) = (a \o one) \o c
    <3>1. Within(a, q.nodes, q.fill) /\ Within(one, q.nodes, q.fill) /\ Within(c, q.nodes, q.fill)
      BY <2>4, <2>5, <2>11 DEF ns
    <3>2. QED
      BY <2>4, <2>5, <2>11, <3>1, ThreeRuns
  <2>13. t = s
    <3>1. (x \o y) \o FlatOf(c) = x \o (y \o FlatOf(c))
      BY <2>4, <2>5, ConcatAssociative
    <3>2. QED
      BY <3>1, <2>4, <2>9, <2>11 DEF e
  <2>14. QED
    BY <2>0, <2>3, <2>12, <2>13
<1>3. QED
  BY <1>1, <1>2

(* Nor does merging on both sides ...                                      *)
LEMMA MergeAroundHolds ==
  ASSUME NEW q, NEW s, Holds(q, s), NEW i
  PROVE  Becomes(q, merge_around(q, i), s)
<1>1. CASE i > 1 /\ CanMerge(q, i - 1)
  <2> DEFINE r == try_merge(q, i - 1)
             p == try_merge(r, i - 1)
  <2>1. Becomes(q, r, s)
    BY TryMergeHolds
  <2>2. Holds(r, s)
    BY <2>1 DEF Becomes
  <2> HIDE DEF r
  <2>3. Becomes(r, p, s)
    BY <2>2, TryMergeHolds
  <2> HIDE DEF p
  <2>4. Becomes(q, p, s)
    BY <2>1, <2>3, BecomesThen
  <2>5. QED
    BY <1>1, <2>4 DEF merge_around, p, r
<1>2. CASE ~(i > 1 /\ CanMerge(q, i - 1))
  BY <1>2, TryMergeHolds DEF merge_around
<1>3. QED
  BY <1>1, <1>2

(* ... after another step.                                                 *)
LEMMA MergedHolds ==
  ASSUME NEW q, NEW s, Holds(q, s), NEW r, NEW t, Becomes(q, r, t), NEW i
  PROVE  Becomes(q, merge_around(r, i), t)
<1>1. Holds(r, t)
  BY DEF Becomes
<1>2. Becomes(r, merge_around(r, i), t)
  BY <1>1, MergeAroundHolds
<1>3. QED
  BY <1>2, BecomesThen

(* The list cut at the place of element i.                                 *)
CutAtPlace(q, s, i, k, off) ==
  LET x == FlatOf(SubSeq(q.nodes, 1, k - 1))
      e == q.nodes[k].elems
      y == FlatOf(Without(q.nodes, k))
  IN /\ SubSeq(e, 1, off) \in Seq(QLValues) /\ Without(e, off) \in Seq(QLValues)
     /\ Len(SubSeq(e, 1, off)) = off /\ Len(Without(e, off)) = Len(e) - off
     /\ e = SubSeq(e, 1, off) \o Without(e, off)
     /\ SubSeq(s, 1, i) = x \o SubSeq(e, 1, off)
     /\ Without(s, i) = Without(e, off) \o y
     /\ i \in 0..Len(s)-1 /\ i \in 0..Len(s)
     /\ SubSeq(s, 1, i) \in Seq(QLValues) /\ Without(s, i) \in Seq(QLValues)
     /\ q.nodes[k] \in QlNode /\ off \in 0..Len(e) /\ Len(e) \in Nat

(* The list falls apart there as the nodes do.                             *)
LEMMA PlaceSplits ==
  ASSUME NEW q, NEW s, Holds(q, s), NEW i, NEW k, NEW off, Place(q.nodes, i, k, off)
  PROVE  CutAtPlace(q, s, i, k, off)
<1> DEFINE x == FlatOf(SubSeq(q.nodes, 1, k - 1))
           e == q.nodes[k].elems
           y == FlatOf(Without(q.nodes, k))
<1>1. k \in 1..Len(q.nodes) /\ off \in Nat /\ off < Len(e) /\ Len(x) + off = i
  BY DEF Place, Passed
<1>2. x \in Seq(QLValues) /\ e \in Seq(QLValues) /\ y \in Seq(QLValues) /\ s = x \o (e \o y)
      /\ q.nodes[k] \in QlNode
  BY <1>1, AroundNode
<1> HIDE DEF x, e, y
<1> DEFINE e1 == SubSeq(e, 1, off)
           e2 == Without(e, off)
<1>3. off \in 0..Len(e) /\ Len(e) \in Nat /\ Len(x) \in Nat /\ Len(y) \in Nat
  BY <1>1, <1>2
<1>4. e1 \in Seq(QLValues) /\ e2 \in Seq(QLValues) /\ Len(e1) = off /\ Len(e2) = Len(e) - off
      /\ e = e1 \o e2
  BY <1>2, <1>3, FrontType, WithoutType, FrontAndRest
<1> HIDE DEF e1, e2
<1>5. x \o e1 \in Seq(QLValues) /\ e2 \o y \in Seq(QLValues) /\ Len(x \o e1) = i
      /\ Len(e2 \o y) = Len(e2) + Len(y)
  <2>1. x \o e1 \in Seq(QLValues) /\ Len(x \o e1) = Len(x) + Len(e1)
    BY <1>2, <1>4, ConcatProperties
  <2>2. e2 \o y \in Seq(QLValues) /\ Len(e2 \o y) = Len(e2) + Len(y)
    BY <1>2, <1>4, ConcatProperties
  <2>3. QED
    BY <1>1, <1>4, <2>1, <2>2
<1>6. s = (x \o e1) \o (e2 \o y)
  <2>1. FourRegroup(x, e1, e2, y)
    BY <1>2, <1>4, RegroupFour
  <2>2. QED
    BY <1>2, <1>4, <2>1 DEF FourRegroup
<1>7. SubSeq(s, 1, i) = x \o e1 /\ Without(s, i) = e2 \o y
  BY <1>5, <1>6, CutWhereJoined
<1>8. i \in 0..Len(s)-1 /\ i \in 0..Len(s)
  <2>1. Len(s) = Len(x \o e1) + Len(e2 \o y)
    BY <1>5, <1>6, ConcatProperties
  <2>2. QED
    BY <2>1, <1>1, <1>3, <1>4, <1>5
<1>9. QED
  BY <1>2, <1>3, <1>4, <1>5, <1>7, <1>8 DEF x, e, y, e1, e2, CutAtPlace

-----------------------------------------------------------------------------
(* Inserting.                                                              *)

(* The list with v put at i.                                               *)
With(s, i, v) == (SubSeq(s, 1, i) \o <<v>>) \o Without(s, i)

(* That is a list, one element longer.                                     *)
LEMMA WithType ==
  ASSUME NEW s \in Seq(QLValues), NEW i \in 0..Len(s), NEW v \in QLValues
  PROVE  /\ With(s, i, v) = Seqs!InsertAt(s, i + 1, v)
         /\ With(s, i, v) \in Seq(QLValues) /\ Len(With(s, i, v)) = Len(s) + 1
         /\ <<v>> \in Seq(QLValues) /\ Len(s) \in Nat
<1> DEFINE a == SubSeq(s, 1, i)
           b == Without(s, i)
           c == <<v>>
<1>1. a \in Seq(QLValues) /\ b \in Seq(QLValues) /\ Len(a) = i /\ Len(b) = Len(s) - i
  BY FrontType, WithoutType
<1>2. c \in Seq(QLValues) /\ Len(c) = 1 /\ Len(s) \in Nat
  OBVIOUS
<1>3. i + 1 \in Int /\ (i + 1) - 1 = i
  OBVIOUS
<1>4. Seqs!InsertAt(s, i + 1, v) = (SubSeq(s, 1, (i + 1) - 1) \o <<v>>) \o Without(s, (i + 1) - 1)
  BY <1>3, InsertedAround
<1>5. With(s, i, v) = Seqs!InsertAt(s, i + 1, v) /\ With(s, i, v) = (a \o c) \o b
  BY <1>3, <1>4 DEF With
<1> HIDE DEF a, b, c
<1> DEFINE d == a \o c
<1>6. d \in Seq(QLValues) /\ Len(d) = i + 1
  <2>1. d \in Seq(QLValues) /\ Len(d) = Len(a) + Len(c)
    BY <1>1, <1>2, ConcatProperties
  <2>2. QED
    BY <2>1, <1>1, <1>2
<1> HIDE DEF d
<1>7. d \o b \in Seq(QLValues) /\ Len(d \o b) = Len(d) + Len(b)
  BY <1>1, <1>6, ConcatProperties
<1>8. Len(d \o b) = Len(s) + 1
  BY <1>1, <1>2, <1>6, <1>7
<1>9. QED
  BY <1>2, <1>5, <1>7, <1>8 DEF c, d

(* The four ways to insert: into the node itself ...                       *)
LEMMA InsertInside ==
  ASSUME NEW q, NEW s, Holds(q, s), NEW i, NEW k, NEW off, Place(q.nodes, i, k, off),
         NEW v \in QLValues, allows_insert(q.nodes[k], q.fill, QLLen[v])
  PROVE  Becomes(q, insert_in_node(q, k, off, v), With(s, i, v))
<1> DEFINE ns == q.nodes
           n == ns[k]
           a == SubSeq(ns, 1, k - 1)
           b == Without(ns, k)
           e1 == SubSeq(n.elems, 1, off)
           e2 == Without(n.elems, off)
           e == Seqs!InsertAt(n.elems, off + 1, v)
           one == <<Packed(e)>>
           c == <<v>>
<1>1. q \in QlType /\ ns \in Seq(QlNode) /\ q.fill \in Int /\ q.count = Len(s) /\ s \in Seq(QLValues)
  BY HoldsType DEF Holds
<1>2. k \in 1..Len(ns)
  BY DEF Place
<1>3. /\ a \in Seq(QlNode) /\ b \in Seq(QlNode) /\ n \in QlNode
      /\ FlatOf(a) \in Seq(QLValues) /\ FlatOf(b) \in Seq(QLValues) /\ n.elems \in Seq(QLValues)
      /\ Within(a, ns, q.fill) /\ Within(b, ns, q.fill)
  BY <1>2, AroundNode
<1>4. /\ e1 \in Seq(QLValues) /\ e2 \in Seq(QLValues)
      /\ SubSeq(s, 1, i) = FlatOf(a) \o e1 /\ Without(s, i) = e2 \o FlatOf(b)
      /\ i \in 0..Len(s)-1 /\ off \in 0..Len(n.elems) /\ Len(n.elems) \in Nat
  <2>1. CutAtPlace(q, s, i, k, off)
    BY PlaceSplits
  <2>2. QED
    BY <2>1 DEF CutAtPlace
<1>5. With(n.elems, off, v) = e /\ e \in Seq(QLValues) /\ Len(e) = Len(n.elems) + 1
  BY <1>3, <1>4, WithType
<1>6. e = (e1 \o c) \o e2
  BY <1>5 DEF With
<1>7. i \in 0..Len(s)
  BY <1>4
<1>8. Len(With(s, i, v)) = q.count + 1 /\ c \in Seq(QLValues)
  BY <1>1, <1>7, WithType
<1>9. insert_in_node(q, k, off, v) = Put(q, [ns EXCEPT ![k] = Packed(e)], q.count + 1)
  <2>1. insert_in_node(q, k, off, v) = [[q EXCEPT !.count = @ + 1] EXCEPT !.nodes[k] = Packed(e)]
    BY DEF insert_in_node
  <2>2. QED
    BY <2>1, <1>1 DEF Put, QlType
<1>10. node_limit(q.fill).count # 0 => Len(n.elems) + 1 <= node_limit(q.fill).count
  BY <1>1, <1>3, InsertAllowed
<1>11. e # <<>>
  <2> HIDE DEF e
  <2>1. Len(e) >= 1
    BY <1>4, <1>5
  <2>2. QED
    BY <1>5, <2>1, NotEmpty
<1> HIDE DEF ns, n, a, b, e1, e2, e, c
<1>12. one \in Seq(QlNode) /\ FlatOf(one) = e /\ Within(one, q.nodes, q.fill) /\ Packed(e) \in QlNode
  <2>1. node_limit(q.fill).count # 0 => Len(e) <= node_limit(q.fill).count
    BY <1>5, <1>10
  <2>2. QED
    BY <1>1, <1>5, <1>11, <2>1, PackedNode, PackedType
<1>13. [ns EXCEPT ![k] = Packed(e)] = a \o (one \o b)
  <2> DEFINE p == Packed(e)
  <2>1. p \in QlNode
    BY <1>12
  <2> HIDE DEF p
  <2>2. [ns EXCEPT ![k] = p] = SubSeq(ns, 1, k - 1) \o (<<p>> \o Without(ns, k))
    BY <1>1, <1>2, <2>1, ReplacedAround
  <2>3. QED
    BY <2>2 DEF a, b, p
<1> HIDE DEF one
<1> DEFINE t == FlatOf(a) \o (FlatOf(one) \o FlatOf(b))
<1>14. Becomes(q, Put(q, a \o (one \o b), Len(t)), t)
  <2>1. Within(a, q.nodes, q.fill) /\ Within(b, q.nodes, q.fill)
    BY <1>3 DEF ns
  <2>2. QED
    BY <1>3, <1>12, <2>1, ThreeRuns
<1>15. t = With(s, i, v)
  <2> DEFINE x == FlatOf(a)
             y == FlatOf(b)
  <2>1. x \in Seq(QLValues) /\ y \in Seq(QLValues)
    BY <1>3
  <2>a. t = x \o (((e1 \o c) \o e2) \o y) /\ With(s, i, v) = ((x \o e1) \o c) \o (e2 \o y)
    BY <1>4, <1>6, <1>12 DEF With, c
  <2> HIDE DEF x, y
  <2>2. FiveRegroup(x, e1, c, e2, y)
    BY <2>1, <1>4, <1>8, RegroupFive
  <2>3. QED
    BY <2>a, <2>2 DEF FiveRegroup
<1>16. QED
  BY <1>8, <1>9, <1>13, <1>14, <1>15

(* ... at the end of the node before it ...                                *)
LEMMA InsertBefore ==
  ASSUME NEW q, NEW s, Holds(q, s), NEW i, NEW k, Place(q.nodes, i, k, 0), k > 1,
         NEW v \in QLValues, ~allows_insert(q.nodes[k], q.fill, QLLen[v]),
         allows_insert(q.nodes[k - 1], q.fill, QLLen[v])
  PROVE  Becomes(q, insert_in_node(q, k, 0, v), With(s, i, v))
<1>0. PICK j : j = k - 1
  OBVIOUS
<1> DEFINE ns == q.nodes
           n == ns[j]
           a == SubSeq(ns, 1, j - 1)
           b == Without(ns, j)
           e == Append(n.elems, v)
           one == <<Packed(e)>>
           c == <<v>>
<1>1. q \in QlType /\ ns \in Seq(QlNode) /\ q.fill \in Int /\ q.count = Len(s) /\ s \in Seq(QLValues)
      /\ Len(ns) \in Nat
  BY HoldsType DEF Holds
<1>2. k \in 1..Len(ns) /\ Passed(ns, k - 1) = i
  <2>1. k \in 1..Len(ns) /\ Passed(ns, k - 1) + 0 = i
    BY DEF Place
  <2>2. k - 1 \in 0..Len(ns)
    BY <2>1
  <2>3. Passed(ns, k - 1) \in Nat
    BY <1>1, <2>2, PassedAndAhead
  <2>4. QED
    BY <2>1, <2>3
<1>a. j \in 1..Len(ns) /\ j \in 0..Len(ns) /\ Passed(ns, j) = i
  BY <1>0, <1>1, <1>2
<1>3. /\ a \in Seq(QlNode) /\ b \in Seq(QlNode) /\ n \in QlNode
      /\ FlatOf(a) \in Seq(QLValues) /\ FlatOf(b) \in Seq(QLValues) /\ n.elems \in Seq(QLValues)
      /\ Within(a, ns, q.fill) /\ Within(b, ns, q.fill)
  BY <1>a, AroundNode
<1>b. SubSeq(ns, 1, j) = a \o <<n>>
  <2> HIDE DEF ns
  <2>1. QED
    BY <1>1, <1>a, SplitAround
<1>c. FlatOf(SubSeq(ns, 1, j)) = FlatOf(a) \o n.elems
  <2>1. <<n>> \in Seq(QlNode) /\ FlatOf(<<n>>) = n.elems
    BY <1>3, FlatOfOne
  <2>2. FlatOf(a \o <<n>>) = FlatOf(a) \o FlatOf(<<n>>)
    BY <1>3, <2>1, FlatOfConcat
  <2>3. QED
    BY <1>b, <2>1, <2>2
<1>d. /\ FlatOf(SubSeq(ns, 1, j)) \in Seq(QLValues) /\ Len(FlatOf(SubSeq(ns, 1, j))) = i
      /\ s = FlatOf(SubSeq(ns, 1, j)) \o FlatOf(b)
  BY <1>a, BetweenNodes
<1>4. /\ SubSeq(s, 1, i) = FlatOf(a) \o n.elems /\ Without(s, i) = FlatOf(b)
  <2> DEFINE x == FlatOf(SubSeq(ns, 1, j))
             y == FlatOf(b)
  <2>1. x \in Seq(QLValues) /\ y \in Seq(QLValues) /\ Len(x) = i /\ s = x \o y
    BY <1>3, <1>d
  <2>a. x = FlatOf(a) \o n.elems
    BY <1>c
  <2> HIDE DEF x, y
  <2>2. SubSeq(s, 1, i) = x /\ Without(s, i) = y
    BY <2>1, CutWhereJoined
  <2>3. QED
    BY <2>2, <2>a DEF y
<1>e. i \in 0..Len(s)
  <2>1. CutAtPlace(q, s, i, k, 0)
    BY PlaceSplits
  <2>2. QED
    BY <2>1 DEF CutAtPlace
<1>5. e \in Seq(QLValues) /\ Len(e) = Len(n.elems) + 1 /\ e # <<>> /\ e = n.elems \o c
  <2> DEFINE z == n.elems
  <2>1. z \in Seq(QLValues)
    BY <1>3
  <2> HIDE DEF z
  <2>2. Append(z, v) \in Seq(QLValues) /\ Append(z, v) # <<>> /\ Len(Append(z, v)) = Len(z) + 1
    BY <2>1, AppendProperties
  <2>3. Append(z, v) = z \o c
    BY <2>1, AppendIsConcat
  <2>4. QED
    BY <2>2, <2>3 DEF z
<1>8. Len(With(s, i, v)) = q.count + 1 /\ c \in Seq(QLValues)
  BY <1>1, <1>e, WithType
<1>9. insert_in_node(q, k, 0, v) = Put(q, [ns EXCEPT ![j] = Packed(e)], q.count + 1)
  <2>1. insert_in_node(q, k, 0, v) = [[q EXCEPT !.count = @ + 1] EXCEPT !.nodes[k - 1] = Packed(Append(@.elems, v))]
    BY DEF insert_in_node
  <2>2. QED
    BY <2>1, <1>0, <1>1 DEF Put, QlType
<1>10. node_limit(q.fill).count # 0 => Len(n.elems) + 1 <= node_limit(q.fill).count
  <2>1. allows_insert(n, q.fill, QLLen[v])
    BY <1>0
  <2> HIDE DEF n
  <2>2. QED
    BY <2>1, <1>1, <1>3, InsertAllowed
<1> HIDE DEF ns, n, a, b, e, c
<1>12. one \in Seq(QlNode) /\ FlatOf(one) = e /\ Within(one, q.nodes, q.fill) /\ Packed(e) \in QlNode
  <2>1. node_limit(q.fill).count # 0 => Len(e) <= node_limit(q.fill).count
    BY <1>5, <1>10
  <2>2. QED
    BY <1>1, <1>5, <2>1, PackedNode, PackedType
<1>13. [ns EXCEPT ![j] = Packed(e)] = a \o (one \o b)
  <2> DEFINE p == Packed(e)
  <2>1. p \in QlNode
    BY <1>12
  <2> HIDE DEF p
  <2>2. [ns EXCEPT ![j] = p] = SubSeq(ns, 1, j - 1) \o (<<p>> \o Without(ns, j))
    <3>1. ns \in Seq(QlNode) /\ j \in 1..Len(ns)
      BY <1>1, <1>a
    <3>2. QED
      BY ONLY <2>1, <3>1, ReplacedAround
  <2>3. QED
    BY <2>2 DEF a, b, p
<1> HIDE DEF one
<1> DEFINE t == FlatOf(a) \o (FlatOf(one) \o FlatOf(b))
<1>14. Becomes(q, Put(q, a \o (one \o b), Len(t)), t)
  <2>1. Within(a, q.nodes, q.fill) /\ Within(b, q.nodes, q.fill)
    BY <1>3 DEF ns
  <2>2. QED
    BY <1>3, <1>12, <2>1, ThreeRuns
<1>15. t = With(s, i, v)
  <2> DEFINE x == FlatOf(a)
             y == FlatOf(b)
             z == n.elems
             zc == z \o c
  <2>1. x \in Seq(QLValues) /\ y \in Seq(QLValues) /\ z \in Seq(QLValues)
    BY <1>3
  <2>a. t = x \o ((z \o c) \o y) /\ With(s, i, v) = ((x \o z) \o c) \o y
    BY <1>4, <1>5, <1>12 DEF With, c
  <2> HIDE DEF x, y, z
  <2>2. (x \o z) \o c = x \o zc /\ zc \in Seq(QLValues)
    BY <2>1, <1>8, ConcatAssociative, ConcatProperties
  <2>b. t = x \o (zc \o y)
    BY <2>a
  <2> HIDE DEF zc
  <2>3. (x \o zc) \o y = x \o (zc \o y)
    BY <2>1, <2>2, ConcatAssociative
  <2>4. QED
    BY <2>a, <2>b, <2>2, <2>3
<1>16. QED
  BY <1>8, <1>9, <1>13, <1>14, <1>15

(* ... as a node of its own before it ...                                  *)
LEMMA InsertOwnNode ==
  ASSUME NEW q, NEW s, Holds(q, s), NEW i, NEW k, NEW off, Place(q.nodes, i, k, off),
         off = 0 \/ q.nodes[k].plain, NEW v \in QLValues,
         ~allows_insert(q.nodes[k], q.fill, QLLen[v]),
         ~(off = 0 /\ k > 1 /\ allows_insert(q.nodes[k - 1], q.fill, QLLen[v]))
  PROVE  Becomes(q, insert_in_node(q, k, off, v), With(s, i, v))
<1> DEFINE ns == q.nodes
           a == SubSeq(ns, 1, k - 1)
           b == Without(ns, k - 1)
           one == <<new_node(q, v)>>
           c == <<v>>
<1>1. q \in QlType /\ ns \in Seq(QlNode) /\ q.fill \in Int /\ q.count = Len(s) /\ s \in Seq(QLValues)
      /\ Len(ns) \in Nat
  BY HoldsType DEF Holds
<1>2. k \in 1..Len(ns) /\ off \in Nat /\ off < Len(ns[k].elems) /\ Passed(ns, k - 1) + off = i
  BY DEF Place
<1>3. off = 0
  <2>1. ns[k] \in QlNode
    BY <1>1, <1>2
  <2>2. ns[k].plain => Len(ns[k].elems) = 1
    BY <2>1 DEF QlNode
  <2>3. CASE ns[k].plain
    <3>1. off \in Nat /\ off < 1
      BY <2>2, <2>3, <1>2
    <3>2. QED
      BY <3>1
  <2>4. QED
    BY <2>3
<1>a. k - 1 \in 0..Len(ns) /\ k \in Int /\ Passed(ns, k - 1) = i
  <2>1. k - 1 \in 0..Len(ns) /\ k \in Int
    BY <1>1, <1>2
  <2>2. Passed(ns, k - 1) \in Nat
    BY <1>1, <2>1, PassedAndAhead
  <2>3. QED
    BY <2>1, <2>2, <1>2, <1>3
<1>d. /\ a \in Seq(QlNode) /\ b \in Seq(QlNode)
      /\ FlatOf(a) \in Seq(QLValues) /\ FlatOf(b) \in Seq(QLValues) /\ Len(FlatOf(a)) = i
      /\ s = FlatOf(a) \o FlatOf(b) /\ Within(a, ns, q.fill) /\ Within(b, ns, q.fill)
  <2> DEFINE j == k - 1
  <2>1. j \in 0..Len(q.nodes)
    BY <1>a
  <2> HIDE DEF j
  <2>2. LET x == SubSeq(q.nodes, 1, j)
            y == Without(q.nodes, j)
         IN /\ x \in Seq(QlNode) /\ y \in Seq(QlNode)
            /\ FlatOf(x) \in Seq(QLValues) /\ FlatOf(y) \in Seq(QLValues)
            /\ Len(FlatOf(x)) = Passed(q.nodes, j)
            /\ s = FlatOf(x) \o FlatOf(y)
            /\ Within(x, q.nodes, q.fill) /\ Within(y, q.nodes, q.fill)
    BY <2>1, BetweenNodes
  <2>3. QED
    BY <2>2, <1>a DEF j
<1>e. i \in 0..Len(s)
  <2>1. CutAtPlace(q, s, i, k, off)
    BY PlaceSplits
  <2>2. QED
    BY <2>1 DEF CutAtPlace
<1>8. Len(With(s, i, v)) = q.count + 1 /\ c \in Seq(QLValues)
  BY <1>1, <1>e, WithType
<1>9. insert_in_node(q, k, off, v) = merge_around(Put(q, (a \o one) \o b, q.count + 1), k)
  <2>1. insert_in_node(q, k, off, v)
          = merge_around([[q EXCEPT !.count = @ + 1] EXCEPT !.nodes = Seqs!InsertAt(@, k, new_node(q, v))], k)
    BY <1>3 DEF insert_in_node
  <2>2. [[q EXCEPT !.count = @ + 1] EXCEPT !.nodes = Seqs!InsertAt(@, k, new_node(q, v))]
          = Put(q, Seqs!InsertAt(ns, k, new_node(q, v)), q.count + 1)
    BY <1>1 DEF Put, QlType
  <2>3. Seqs!InsertAt(ns, k, new_node(q, v)) = (a \o one) \o b
    BY <1>a, InsertedAround
  <2>4. QED
    BY <2>1, <2>2, <2>3
<1>10. one \in Seq(QlNode) /\ FlatOf(one) = c /\ Within(one, ns, q.fill)
  BY <1>1, NewNode
<1> HIDE DEF a, b, one, c, ns
<1> DEFINE t == FlatOf(a) \o (FlatOf(one) \o FlatOf(b))
<1>14. Becomes(q, Put(q, a \o (one \o b), Len(t)), t) /\ a \o (one \o b) = (a \o one) \o b
  <2>1. Within(a, q.nodes, q.fill) /\ Within(b, q.nodes, q.fill) /\ Within(one, q.nodes, q.fill)
    BY <1>d, <1>10 DEF ns
  <2>2. QED
    BY <1>d, <1>10, <2>1, ThreeRuns
<1>15. t = With(s, i, v)
  <2> DEFINE x == FlatOf(a)
             y == FlatOf(b)
  <2>1. x \in Seq(QLValues) /\ y \in Seq(QLValues) /\ Len(x) = i /\ s = x \o y
    BY <1>d
  <2>a. t = x \o (c \o y)
    BY <1>10
  <2> HIDE DEF x, y
  <2>2. SubSeq(s, 1, i) = x /\ Without(s, i) = y
    BY <2>1, CutWhereJoined
  <2>3. (x \o c) \o y = x \o (c \o y)
    BY <2>1, <1>8, ConcatAssociative
  <2>4. QED
    BY <2>a, <2>2, <2>3 DEF With, c
<1>16. Becomes(q, Put(q, (a \o one) \o b, q.count + 1), With(s, i, v))
  BY <1>8, <1>14, <1>15
<1>17. QED
  BY <1>9, <1>16, MergedHolds

(* ... or as a node of its own between the two halves of the node.         *)
LEMMA ThreeNodes ==
  ASSUME NEW x \in QlNode, NEW y \in QlNode, NEW z \in QlNode, NEW ms, NEW f,
         NodeWithin(x, ms, f), NodeWithin(y, ms, f), NodeWithin(z, ms, f)
  PROVE  /\ <<x, y, z>> \in Seq(QlNode) /\ Within(<<x, y, z>>, ms, f)
         /\ FlatOf(<<x, y, z>>) = (x.elems \o y.elems) \o z.elems
<1> DEFINE a == <<x>>
           b == <<y>>
           c == <<z>>
<1>1. <<x, y, z>> = (a \o b) \o c
  <2>1. <<x>> \in Seq(QlNode) /\ <<x, y>> \in Seq(QlNode)
    OBVIOUS
  <2>2. Append(<<x>>, y) = <<x, y>> /\ Append(<<x, y>>, z) = <<x, y, z>>
    <3> DEFINE p == Append(<<x>>, y)
               r == Append(<<x, y>>, z)
    <3>1. /\ p \in Seq(QlNode) /\ Len(p) = 2 /\ p[1] = x /\ p[2] = y
          /\ r \in Seq(QlNode) /\ Len(r) = 3 /\ r[1] = x /\ r[2] = y /\ r[3] = z
      OBVIOUS
    <3> HIDE DEF p, r
    <3>2. p = <<x, y>>
      BY <3>1
    <3>3. r = <<x, y, z>>
      BY <3>1
    <3>4. QED
      BY <3>2, <3>3 DEF p, r
  <2>3. Append(<<x>>, y) = <<x>> \o <<y>> /\ Append(<<x, y>>, z) = <<x, y>> \o <<z>>
    BY <2>1, AppendIsConcat
  <2>4. QED
    BY <2>2, <2>3
<1>2. /\ a \in Seq(QlNode) /\ FlatOf(a) = x.elems /\ Within(a, ms, f)
      /\ b \in Seq(QlNode) /\ FlatOf(b) = y.elems /\ Within(b, ms, f)
      /\ c \in Seq(QlNode) /\ FlatOf(c) = z.elems /\ Within(c, ms, f)
  BY OneNode
<1> HIDE DEF a, b, c
<1> DEFINE d == a \o b
<1>3. d \in Seq(QlNode) /\ FlatOf(d) = x.elems \o y.elems
  BY <1>2, FlatOfConcat
<1>4. Within(d, ms, f)
  BY <1>2, WithinConcat
<1> HIDE DEF d
<1>5. d \o c \in Seq(QlNode) /\ FlatOf(d \o c) = FlatOf(d) \o FlatOf(c)
  BY <1>2, <1>3, FlatOfConcat
<1>6. Within(d \o c, ms, f)
  BY <1>2, <1>3, <1>4, WithinConcat
<1>7. QED
  BY <1>1, <1>2, <1>3, <1>5, <1>6 DEF d

LEMMA InsertBetween ==
  ASSUME NEW q, NEW s, Holds(q, s), NEW i, NEW k, NEW off, Place(q.nodes, i, k, off),
         ~(off = 0 \/ q.nodes[k].plain), NEW v \in QLValues,
         ~allows_insert(q.nodes[k], q.fill, QLLen[v])
  PROVE  Becomes(q, insert_in_node(q, k, off, v), With(s, i, v))
<1> DEFINE ns == q.nodes
           n == ns[k]
           a == SubSeq(ns, 1, k - 1)
           b == Without(ns, k)
           e1 == SubSeq(n.elems, 1, off)
           e2 == Without(n.elems, off)
           three == <<Packed(e1), new_node(q, v), Packed(e2)>>
           c == <<v>>
<1>1. q \in QlType /\ ns \in Seq(QlNode) /\ q.fill \in Int /\ q.count = Len(s) /\ s \in Seq(QLValues)
  BY HoldsType DEF Holds
<1>2. k \in 1..Len(ns) /\ off \in Nat /\ off < Len(n.elems)
  BY DEF Place
<1>3. /\ a \in Seq(QlNode) /\ b \in Seq(QlNode) /\ n \in QlNode
      /\ FlatOf(a) \in Seq(QLValues) /\ FlatOf(b) \in Seq(QLValues)
      /\ Within(a, ns, q.fill) /\ Within(b, ns, q.fill) /\ NodeWithin(n, ns, q.fill)
  BY <1>2, AroundNode
<1>4. /\ e1 \in Seq(QLValues) /\ e2 \in Seq(QLValues)
      /\ Len(e1) = off /\ Len(e2) = Len(n.elems) - off
      /\ SubSeq(s, 1, i) = FlatOf(a) \o e1 /\ Without(s, i) = e2 \o FlatOf(b)
      /\ i \in 0..Len(s) /\ Len(n.elems) \in Nat
  <2>1. CutAtPlace(q, s, i, k, off)
    BY PlaceSplits
  <2>2. QED
    BY <2>1 DEF CutAtPlace
<1>5. e1 # <<>> /\ e2 # <<>> /\ Len(e1) <= Len(n.elems) /\ Len(e2) <= Len(n.elems)
  <2>1. PICK N \in Nat : N = Len(n.elems)
    BY <1>4
  <2>2. off # 0
    OBVIOUS
  <2>3. off >= 1 /\ N - off >= 1 /\ off <= N /\ N - off <= N
    BY <2>1, <2>2, <1>2
  <2>4. Len(e1) >= 1 /\ Len(e2) >= 1 /\ Len(e1) <= Len(n.elems) /\ Len(e2) <= Len(n.elems)
    BY <2>1, <2>3, <1>4, Zenon
  <2> HIDE DEF e1, e2, n
  <2>5. QED
    BY <2>4, <1>4, NotEmpty
<1>8. Len(With(s, i, v)) = q.count + 1 /\ c \in Seq(QLValues)
  BY <1>1, <1>4, WithType
<1>9. insert_in_node(q, k, off, v) = merge_around(Put(q, (a \o three) \o b, q.count + 1), k + 1)
  <2>1. off # 0 /\ ~n.plain
    OBVIOUS
  <2>2. insert_in_node(q, k, off, v)
          = merge_around([[q EXCEPT !.count = @ + 1] EXCEPT !.nodes = (a \o three) \o b], k + 1)
    BY <1>1, <2>1 DEF insert_in_node, Without, QlType
  <2> HIDE DEF a, three, b
  <2>3. [[q EXCEPT !.count = @ + 1] EXCEPT !.nodes = (a \o three) \o b]
          = Put(q, (a \o three) \o b, q.count + 1)
    BY <1>1 DEF Put, QlType
  <2>4. QED
    BY <2>2, <2>3
<1>10. /\ new_node(q, v) \in QlNode /\ new_node(q, v).elems = c
       /\ NodeWithin(new_node(q, v), ns, q.fill)
  <2>1. new_node(q, v) \in QlNode /\ new_node(q, v).elems = c /\ Len(c) = 1
    BY NewNodeType
  <2>2. QED
    BY <2>1, <1>1, WithinNew
<1> HIDE DEF ns, n, a, b, e1, e2, c
<1>11. /\ Packed(e1) \in QlNode /\ Packed(e1).elems = e1 /\ Packed(e2) \in QlNode /\ Packed(e2).elems = e2
  BY <1>4, <1>5, PackedType
<1>12. NodeWithin(Packed(e1), ns, q.fill) /\ NodeWithin(Packed(e2), ns, q.fill)
  BY <1>1, <1>3, <1>5, <1>11, WithinShorter
<1>13. three \in Seq(QlNode) /\ Within(three, ns, q.fill) /\ FlatOf(three) = (e1 \o c) \o e2
  <2> DEFINE x == Packed(e1)
             y == new_node(q, v)
             z == Packed(e2)
  <2>1. /\ x \in QlNode /\ y \in QlNode /\ z \in QlNode
        /\ NodeWithin(x, ns, q.fill) /\ NodeWithin(y, ns, q.fill) /\ NodeWithin(z, ns, q.fill)
        /\ x.elems = e1 /\ y.elems = c /\ z.elems = e2
    BY <1>10, <1>11, <1>12
  <2>2. three = <<x, y, z>>
    OBVIOUS
  <2> HIDE DEF x, y, z, three
  <2>3. /\ <<x, y, z>> \in Seq(QlNode) /\ Within(<<x, y, z>>, ns, q.fill)
        /\ FlatOf(<<x, y, z>>) = (x.elems \o y.elems) \o z.elems
    BY <2>1, ThreeNodes
  <2>4. QED
    BY <2>1, <2>2, <2>3
<1> HIDE DEF three
<1> DEFINE t == FlatOf(a) \o (FlatOf(three) \o FlatOf(b))
<1>14. Becomes(q, Put(q, a \o (three \o b), Len(t)), t) /\ a \o (three \o b) = (a \o three) \o b
  <2>1. Within(a, q.nodes, q.fill) /\ Within(b, q.nodes, q.fill) /\ Within(three, q.nodes, q.fill)
    BY <1>3, <1>13 DEF ns
  <2>2. QED
    BY <1>3, <1>13, <2>1, ThreeRuns
<1>15. t = With(s, i, v)
  <2> DEFINE x == FlatOf(a)
             y == FlatOf(b)
  <2>1. x \in Seq(QLValues) /\ y \in Seq(QLValues)
    BY <1>3
  <2>a. t = x \o (((e1 \o c) \o e2) \o y) /\ With(s, i, v) = ((x \o e1) \o c) \o (e2 \o y)
    BY <1>4, <1>13 DEF With, c
  <2> HIDE DEF x, y
  <2>2. FiveRegroup(x, e1, c, e2, y)
    BY <2>1, <1>4, <1>8, RegroupFive
  <2>3. QED
    BY <2>a, <2>2 DEF FiveRegroup
<1>16. Becomes(q, Put(q, (a \o three) \o b, q.count + 1), With(s, i, v))
  BY <1>8, <1>14, <1>15
<1>17. QED
  BY <1>9, <1>16, MergedHolds

(* The four ways together.                                                 *)
LEMMA InsertInNodeHolds ==
  ASSUME NEW q, NEW s, Holds(q, s), NEW i, NEW k, NEW off, Place(q.nodes, i, k, off),
         NEW v \in QLValues
  PROVE  Becomes(q, insert_in_node(q, k, off, v), With(s, i, v))
<1>1. CASE allows_insert(q.nodes[k], q.fill, QLLen[v])
  BY <1>1, InsertInside
<1>2. CASE /\ ~allows_insert(q.nodes[k], q.fill, QLLen[v])
           /\ off = 0 /\ k > 1 /\ allows_insert(q.nodes[k - 1], q.fill, QLLen[v])
  BY <1>2, InsertBefore
<1>3. CASE /\ ~allows_insert(q.nodes[k], q.fill, QLLen[v])
           /\ ~(off = 0 /\ k > 1 /\ allows_insert(q.nodes[k - 1], q.fill, QLLen[v]))
           /\ off = 0 \/ q.nodes[k].plain
  BY <1>3, InsertOwnNode
<1>4. CASE /\ ~allows_insert(q.nodes[k], q.fill, QLLen[v])
           /\ ~(off = 0 \/ q.nodes[k].plain)
  BY <1>4, InsertBetween
<1>5. QED
  BY <1>1, <1>2, <1>3, <1>4

(* LINSERT: at the ends a push, else into a node.                          *)
LEMMA InsertAtHolds ==
  ASSUME NEW q, NEW s, Holds(q, s), NEW i \in 0..Len(s), NEW v \in QLValues
  PROVE  Becomes(q, qlInsertAt(q, i, v), With(s, i, v))
<1>1. q.count = Len(s) /\ Len(s) \in Nat /\ s \in Seq(QLValues) /\ <<v>> \in Seq(QLValues)
  BY HoldsType
<1>2. CASE i = 0
  <2>1. SubSeq(s, 1, 0) = <<>> /\ Without(s, 0) = s
    BY <1>1, SubSeqEmpty, SubSeqFull DEF Without
  <2>2. <<>> \o <<v>> = <<v>>
    BY <1>1, ConcatEmptySeq
  <2>3. With(s, i, v) = <<v>> \o s
    BY <1>2, <2>1, <2>2 DEF With
  <2>4. QED
    BY <1>2, <2>3, PushHeadHolds DEF qlInsertAt
<1>3. CASE i # 0 /\ i >= q.count
  <2>1. i = Len(s)
    BY <1>1, <1>3
  <2>2. Len(s) \in Int /\ Len(s) + 1 \in Int /\ Len(s) < Len(s) + 1
    BY <1>1
  <2>3. SubSeq(s, 1, Len(s)) = s /\ Without(s, Len(s)) = <<>>
    BY <1>1, <2>2, SubSeqFull, SubSeqEmpty DEF Without
  <2>4. s \o <<v>> \in Seq(QLValues)
    BY <1>1, ConcatProperties
  <2>5. (s \o <<v>>) \o <<>> = s \o <<v>>
    BY <2>4, ConcatEmptySeq
  <2>6. With(s, i, v) = s \o <<v>>
    BY <2>1, <2>3, <2>5 DEF With
  <2>7. Becomes(q, push_tail(q, v), Append(s, v)) /\ Append(s, v) = s \o <<v>>
    BY PushTailHolds
  <2>8. qlInsertAt(q, i, v) = push_tail(q, v)
    BY <1>3 DEF qlInsertAt
  <2>9. QED
    BY <2>6, <2>7, <2>8
<1>4. CASE i # 0 /\ ~(i >= q.count)
  <2>1. i \in 0..Len(s)-1
    BY <1>1, <1>4
  <2>2. locate(q, i) # Nil
        /\ \E k \in 1..Len(q.nodes), off \in Nat : locate(q, i) = <<k, off>> /\ Place(q.nodes, i, k, off)
    BY <2>1, LocateFinds
  <2>3. PICK k \in 1..Len(q.nodes), off \in Nat : locate(q, i) = <<k, off>> /\ Place(q.nodes, i, k, off)
    BY <2>2
  <2>4. qlInsertAt(q, i, v) = insert_in_node(q, k, off, v)
    <3>1. qlInsertAt(q, i, v) = insert_in_node(q, locate(q, i)[1], locate(q, i)[2], v)
      BY <1>4, <2>2 DEF qlInsertAt
    <3>2. locate(q, i)[1] = k /\ locate(q, i)[2] = off
      BY <2>3
    <3>3. QED
      BY <3>1, <3>2
  <2>5. QED
    BY <2>3, <2>4, InsertInNodeHolds
<1>5. QED
  BY <1>2, <1>3, <1>4

-----------------------------------------------------------------------------
(* Deleting.                                                               *)

(* The list without the m elements from i on.                              *)
Gone(s, i, m) == SubSeq(s, 1, i) \o Without(s, i + m)

(* That is a list, m elements shorter.                                     *)
LEMMA GoneType ==
  ASSUME NEW S, NEW s \in Seq(S), NEW i \in Nat, NEW m \in Nat, i + m <= Len(s)
  PROVE  /\ Gone(s, i, m) \in Seq(S) /\ Len(Gone(s, i, m)) = Len(s) - m
         /\ SubSeq(Gone(s, i, m), 1, i) = SubSeq(s, 1, i)
         /\ Without(Gone(s, i, m), i) = Without(s, i + m)
<1> DEFINE a == SubSeq(s, 1, i)
           b == Without(s, i + m)
<1>1. i \in 0..Len(s) /\ i + m \in 0..Len(s) /\ Len(s) \in Nat
  OBVIOUS
<1>2. a \in Seq(S) /\ b \in Seq(S) /\ Len(a) = i /\ Len(b) = Len(s) - (i + m)
  BY <1>1, FrontType, WithoutType
<1> HIDE DEF a, b
<1>3. a \o b \in Seq(S) /\ Len(a \o b) = Len(a) + Len(b)
  BY <1>2, ConcatProperties
<1>4. Len(a \o b) = Len(s) - m
  BY <1>1, <1>2, <1>3
<1>5. SubSeq(a \o b, 1, i) = a /\ Without(a \o b, i) = b
  BY <1>2, CutWhereJoined
<1>6. QED
  BY <1>3, <1>4, <1>5 DEF Gone, a, b

(* Deleting again at the same place deletes more.                          *)
LEMMA GoneMore ==
  ASSUME NEW S, NEW s \in Seq(S), NEW i \in Nat, NEW m \in Nat, NEW l \in Nat, i + m + l <= Len(s)
  PROVE  Gone(Gone(s, i, m), i, l) = Gone(s, i, m + l)
<1> DEFINE g == Gone(s, i, m)
<1>1. Len(s) \in Nat /\ i + m <= Len(s) /\ i + l <= Len(s) - m /\ i + m \in Nat /\ (i + m) + l <= Len(s)
      /\ (i + m) + l = i + (m + l)
  OBVIOUS
<1>2. g \in Seq(S) /\ Len(g) = Len(s) - m /\ SubSeq(g, 1, i) = SubSeq(s, 1, i)
      /\ Without(g, i) = Without(s, i + m)
  BY <1>1, GoneType
<1> HIDE DEF g
<1>3. Without(g, i + l) = Without(Without(g, i), l)
  BY <1>1, <1>2, WithoutTwice
<1>4. Without(Without(s, i + m), l) = Without(s, (i + m) + l)
  <2> DEFINE k == i + m
  <2>1. k \in Nat /\ k + l <= Len(s)
    BY <1>1
  <2> HIDE DEF k
  <2>2. Without(Without(s, k), l) = Without(s, k + l)
    BY <2>1, WithoutTwice
  <2>3. QED
    BY <2>2 DEF k
<1>5. QED
  BY <1>1, <1>2, <1>3, <1>4 DEF Gone, g

(* Deleting nothing.                                                       *)
LEMMA GoneNone ==
  ASSUME NEW S, NEW s \in Seq(S), NEW i \in Nat, i <= Len(s)
  PROVE  Gone(s, i, 0) = s
<1>1. i \in 0..Len(s) /\ i + 0 = i
  OBVIOUS
<1>2. s = SubSeq(s, 1, i) \o Without(s, i)
  BY <1>1, FrontAndRest
<1>3. QED
  BY <1>1, <1>2 DEF Gone

(* One node loses what the loop still wants of it.                         *)
LEMMA CutAtHolds ==
  ASSUME NEW q, NEW s, Holds(q, s), NEW i, NEW k, NEW off, Place(q.nodes, i, k, off),
         NEW left \in Nat \ {0}
  PROVE  \E m \in 1..left : i + m <= Len(s) /\ Becomes(q, CutAt(q, <<k, off>>, left), Gone(s, i, m))
<1> DEFINE ns == q.nodes
           n == ns[k]
           a == SubSeq(ns, 1, k - 1)
           b == Without(ns, k)
           e == n.elems
           e1 == SubSeq(e, 1, off)
           end == IF Len(e) - off < left THEN Len(e) ELSE off + left
           m == end - off
           e2 == SubSeq(e, end + 1, Len(e))
           d == e1 \o e2
           x == FlatOf(a)
           y == FlatOf(b)
<1>1. q \in QlType /\ ns \in Seq(QlNode) /\ q.fill \in Int /\ q.count = Len(s) /\ s \in Seq(QLValues)
      /\ Len(s) \in Nat
  BY HoldsType DEF Holds
<1>2. k \in 1..Len(ns) /\ off \in Nat /\ off < Len(e)
  BY DEF Place
<1>3. /\ a \in Seq(QlNode) /\ b \in Seq(QlNode) /\ n \in QlNode /\ e \in Seq(QLValues)
      /\ x \in Seq(QLValues) /\ y \in Seq(QLValues)
      /\ Within(a, ns, q.fill) /\ Within(b, ns, q.fill) /\ NodeWithin(n, ns, q.fill)
  BY <1>2, AroundNode
<1>4. /\ e1 \in Seq(QLValues) /\ Len(e1) = off
      /\ Without(e, off) \in Seq(QLValues) /\ Len(Without(e, off)) = Len(e) - off
      /\ SubSeq(s, 1, i) = x \o e1 /\ Without(s, i) = Without(e, off) \o y
      /\ i \in 0..Len(s)-1 /\ Len(e) \in Nat
      /\ SubSeq(s, 1, i) \in Seq(QLValues) /\ Without(s, i) \in Seq(QLValues)
  <2>1. CutAtPlace(q, s, i, k, off)
    BY PlaceSplits
  <2>2. QED
    BY <2>1 DEF CutAtPlace
<1>5. CutAt(q, <<k, off>>, left)
        = [q EXCEPT !.count = @ - m, !.nodes = IF d = <<>> THEN Seqs!RemoveAt(@, k)
                                              ELSE Seqs!ReplaceAt(@, k, Packed(d))]
  <2>1. <<k, off>>[1] = k /\ <<k, off>>[2] = off
    OBVIOUS
  <2>2. QED
    BY <2>1 DEF CutAt
<1>6. m \in 1..left /\ end = off + m /\ end \in Nat /\ end <= Len(e) /\ m <= Len(e) - off
  <2>1. PICK N \in Nat : N = Len(e)
    BY <1>4
  <2>2. off < N
    BY <1>2, <2>1
  <2>3. end = IF N - off < left THEN N ELSE off + left
    BY <2>1
  <2> HIDE DEF end
  <2>4. m \in 1..left /\ end = off + m /\ end \in Nat /\ end <= N /\ m <= N - off
    BY <1>2, <2>2, <2>3
  <2>5. QED
    BY <2>1, <2>4
<1>7. e2 = Without(e, end)
  BY DEF Without
<1> HIDE DEF end, e2, e1, e, n, x, y, a, b
<1>8. e2 \in Seq(QLValues) /\ Len(e2) = Len(e) - end
  <2>1. end \in 0..Len(e)
    BY <1>4, <1>6
  <2>2. QED
    BY <1>3, <1>7, <2>1, WithoutType
<1> HIDE DEF m
<1>9. Without(Without(e, off), m) = e2
  <2>1. off \in Nat /\ m \in Nat /\ off + m <= Len(e)
    BY <1>2, <1>4, <1>6
  <2>2. Without(Without(e, off), m) = Without(e, off + m)
    BY <1>3, <2>1, WithoutTwice
  <2>3. QED
    BY <2>2, <1>6, <1>7
<1>10. i + m <= Len(s) /\ i \in Nat /\ m \in Nat
  <2>1. Len(Without(s, i)) = Len(s) - i
    <3>1. i \in 0..Len(s)
      BY <1>4, <1>1
    <3>2. QED
      BY <1>1, <3>1, WithoutType
  <2>2. Len(Without(s, i)) = Len(Without(e, off)) + Len(y) /\ Len(y) \in Nat
    BY <1>3, <1>4, ConcatProperties
  <2>3. PICK N \in Nat : N = Len(e)
    BY <1>4
  <2>4. PICK L \in Nat : L = Len(s)
    BY <1>1
  <2>5. PICK Y \in Nat : Y = Len(y)
    BY <2>2
  <2>6. L - i = (N - off) + Y /\ m <= N - off /\ m \in Nat /\ i \in Nat /\ off \in Nat /\ off < N
    BY <2>1, <2>2, <2>3, <2>4, <2>5, <1>2, <1>4, <1>6
  <2>7. i + m <= L
    BY <2>6
  <2>8. QED
    BY <2>4, <2>6, <2>7
<1>11. Without(s, i + m) = e2 \o y
  <2>1. Without(s, i + m) = Without(Without(s, i), m)
    BY <1>1, <1>10, WithoutTwice
  <2> DEFINE w == Without(e, off)
  <2>2. w \in Seq(QLValues) /\ m \in 0..Len(w)
    BY <1>4, <1>6
  <2>a. Without(s, i) = w \o y /\ Without(w, m) = e2
    BY <1>4, <1>9
  <2> HIDE DEF w
  <2>3. Without(w \o y, m) = Without(w, m) \o y
    BY <1>3, <2>2, WithoutLeft
  <2>4. QED
    BY <2>1, <2>3, <2>a
<1>12. Gone(s, i, m) = x \o (d \o y)
  <2>1. FourRegroup(x, e1, e2, y)
    BY <1>3, <1>4, <1>8, RegroupFour
  <2>2. QED
    BY <2>1, <1>4, <1>11 DEF FourRegroup, Gone
<1>13. d \in Seq(QLValues) /\ Len(d) <= Len(e)
  <2>1. d \in Seq(QLValues) /\ Len(d) = Len(e1) + Len(e2)
    BY <1>4, <1>8, ConcatProperties
  <2> HIDE DEF d
  <2>2. PICK N \in Nat : N = Len(e)
    BY <1>4
  <2>3. Len(d) = off + (N - (off + m))
    BY <2>1, <2>2, <1>4, <1>6, <1>8
  <2>4. off + (N - (off + m)) <= N
    BY <1>2, <1>6
  <2>5. QED
    BY <2>1, <2>2, <2>3, <2>4, Zenon
<1>14. Len(Gone(s, i, m)) = q.count - m
  BY <1>1, <1>10, GoneType
<1> HIDE DEF d, ns
<1>15. CASE d = <<>>
  <2>1. CutAt(q, <<k, off>>, left) = Put(q, a \o b, q.count - m)
    <3>1. CutAt(q, <<k, off>>, left) = [q EXCEPT !.count = @ - m, !.nodes = Seqs!RemoveAt(@, k)]
      BY <1>5, <1>15
    <3>2. Seqs!RemoveAt(q.nodes, k) = a \o b
      BY RemovedAround DEF a, b, ns
    <3>3. QED
      BY <3>1, <3>2 DEF Put
  <2>2. Gone(s, i, m) = FlatOf(a) \o FlatOf(b)
    <3>1. <<>> \o y = y
      BY <1>3, ConcatEmptySeq
    <3>2. QED
      BY <3>1, <1>12, <1>15 DEF x, y
  <2> DEFINE t == FlatOf(a) \o FlatOf(b)
  <2>3. Becomes(q, Put(q, a \o b, Len(t)), t)
    <3>1. Within(a, q.nodes, q.fill) /\ Within(b, q.nodes, q.fill)
      BY <1>3 DEF ns
    <3>2. QED
      BY <1>3, <3>1, TwoRuns
  <2>4. Becomes(q, CutAt(q, <<k, off>>, left), Gone(s, i, m))
    BY <2>1, <2>2, <2>3, <1>14
  <2>5. QED
    BY <2>4, <1>6, <1>10
<1>16. CASE d # <<>>
  <2> DEFINE p == Packed(d)
             one == <<p>>
  <2>1. one \in Seq(QlNode) /\ FlatOf(one) = d /\ Within(one, q.nodes, q.fill) /\ p \in QlNode
    <3>1. NodeWithin(n, q.nodes, q.fill) /\ Len(d) <= Len(n.elems) /\ q.nodes \in Seq(QlNode)
      BY <1>1, <1>3, <1>13 DEF ns, e
    <3>2. QED
      BY <1>1, <1>3, <1>13, <1>16, <3>1, PackedPart, PackedType
  <2>2. CutAt(q, <<k, off>>, left) = Put(q, a \o (one \o b), q.count - m)
    <3>1. CutAt(q, <<k, off>>, left) = [q EXCEPT !.count = @ - m, !.nodes = Seqs!ReplaceAt(@, k, p)]
      BY <1>5, <1>16
    <3> HIDE DEF p
    <3>2. Seqs!ReplaceAt(q.nodes, k, p) = [ns EXCEPT ![k] = p]
      BY DEF Seqs!ReplaceAt, ns
    <3>3. [ns EXCEPT ![k] = p] = a \o (one \o b)
      <4>1. ns \in Seq(QlNode) /\ k \in 1..Len(ns) /\ p \in QlNode
        BY <1>1, <1>2, <2>1
      <4>2. [ns EXCEPT ![k] = p] = SubSeq(ns, 1, k - 1) \o (<<p>> \o Without(ns, k))
        BY ONLY <4>1, ReplacedAround
      <4>3. QED
        BY <4>2 DEF a, b
    <3>4. QED
      BY <3>1, <3>2, <3>3 DEF Put
  <2> HIDE DEF one
  <2> DEFINE t == FlatOf(a) \o (FlatOf(one) \o FlatOf(b))
  <2>3. Becomes(q, Put(q, a \o (one \o b), Len(t)), t)
    <3>1. Within(a, q.nodes, q.fill) /\ Within(b, q.nodes, q.fill)
      BY <1>3 DEF ns
    <3>2. QED
      BY <1>3, <2>1, <3>1, ThreeRuns
  <2>4. t = Gone(s, i, m)
    BY <2>1, <1>12 DEF x, y
  <2>5. Becomes(q, CutAt(q, <<k, off>>, left), Gone(s, i, m))
    BY <2>2, <2>3, <2>4, <1>14
  <2>6. QED
    BY <2>5, <1>6, <1>10
<1>17. QED
  BY <1>15, <1>16

(* The loop of delete_range: r is q with m of the c elements gone.         *)
Deleting(q, s, i, c, m, r) == m \in 0..c /\ Becomes(q, r, Gone(s, i, m))

(* A turn deletes one element at least, until all are gone ...             *)
LEMMA DeleteTurnHolds ==
  ASSUME NEW q, NEW s, Holds(q, s), NEW i \in Nat, NEW c \in Nat, i + c <= Len(s),
         NEW m, NEW r, Deleting(q, s, i, c, m, r)
  PROVE  \E l \in 0..c : Deleting(q, s, i, c, l, DeleteTurn(r, i, Len(s) - c)) /\ (m = c \/ l > m)
                         /\ (m = c => l = c)
<1> DEFINE target == Len(s) - c
           g == Gone(s, i, m)
<1>1. s \in Seq(QLValues) /\ Len(s) \in Nat
  BY HoldsType
<1>2. m \in 0..c /\ Becomes(q, r, g) /\ Holds(r, g)
  BY DEF Deleting, Becomes
<1>3. m \in Nat /\ i + m <= Len(s)
  BY <1>1, <1>2
<1>4. Len(g) = Len(s) - m /\ g \in Seq(QLValues)
  BY <1>1, <1>3, GoneType
<1>5. r.count = Len(g)
  BY <1>2, HoldsType
<1> HIDE DEF g
<1>6. CASE m = c
  <2>1. r.count = target
    BY <1>4, <1>5, <1>6
  <2>2. DeleteTurn(r, i, target) = r
    BY <2>1 DEF DeleteTurn
  <2>3. Deleting(q, s, i, c, m, DeleteTurn(r, i, target))
    BY <2>2
  <2>4. QED
    BY <1>2, <1>6, <2>3
<1>7. CASE m # c
  <2>1. m < c /\ i \in 0..Len(g)-1
    BY <1>1, <1>2, <1>3, <1>4, <1>7
  <2>2. locate(r, i) # Nil
        /\ \E k \in 1..Len(r.nodes), off \in Nat : locate(r, i) = <<k, off>> /\ Place(r.nodes, i, k, off)
    BY <1>2, <2>1, LocateFinds
  <2>3. PICK k \in 1..Len(r.nodes), off \in Nat : locate(r, i) = <<k, off>> /\ Place(r.nodes, i, k, off)
    BY <2>2
  <2> DEFINE left == r.count - target
             p == CutAt(r, <<k, off>>, left)
  <2>4. left \in Nat \ {0} /\ left = c - m /\ r.count # target
    BY <1>1, <1>2, <1>4, <1>5, <2>1
  <2>5. DeleteTurn(r, i, target) = p
    BY <2>2, <2>3, <2>4 DEF DeleteTurn
  <2> HIDE DEF left
  <2>6. PICK l \in 1..left : i + l <= Len(g) /\ Becomes(r, p, Gone(g, i, l))
    BY <1>2, <2>3, <2>4, CutAtHolds
  <2> HIDE DEF p
  <2>7. Becomes(q, p, Gone(g, i, l))
    BY <1>2, <2>6, BecomesThen
  <2>8. l \in Nat /\ i + m + l <= Len(s) /\ m + l \in 0..c /\ m + l > m
    BY <1>1, <1>2, <1>3, <1>4, <2>4, <2>6
  <2>9. Gone(g, i, l) = Gone(s, i, m + l)
    BY <1>1, <1>3, <2>8, GoneMore DEF g
  <2>10. Deleting(q, s, i, c, m + l, p)
    BY <2>7, <2>8, <2>9 DEF Deleting
  <2>11. QED
    BY <1>7, <2>5, <2>8, <2>10
<1>8. QED
  BY <1>6, <1>7

(* ... so the loop deletes them all.                                       *)
LEMMA DeleteFromHolds ==
  ASSUME NEW q, NEW s, Holds(q, s), NEW i \in Nat, NEW c \in Nat, i + c <= Len(s)
  PROVE  Becomes(q, DeleteFrom(q, i, Len(s) - c), Gone(s, i, c))
<1> DEFINE target == Len(s) - c
           A == {r \in QlType : \E m \in 0..c : Deleting(q, s, i, c, m, r)}
           step == [p \in Nat \X A |-> DeleteTurn(p[2], i, target)]
           N == q.count
<1>1. s \in Seq(QLValues) /\ Len(s) \in Nat /\ N = Len(s) /\ i <= Len(s) /\ N \in Nat
  BY HoldsType
<1>2. Deleting(q, s, i, c, 0, q)
  <2>1. Gone(s, i, 0) = s
    BY <1>1, GoneNone
  <2>2. Becomes(q, q, s)
    BY BecomesSame
  <2>3. 0 \in 0..c
    OBVIOUS
  <2>4. QED
    BY <2>1, <2>2, <2>3 DEF Deleting
<1>3. ASSUME NEW r, NEW m \in 0..c, Deleting(q, s, i, c, m, r) PROVE r \in A
  <2>1. r \in QlType
    BY <1>3 DEF Deleting, Becomes, Holds
  <2>2. QED
    BY <1>3, <2>1
<1>4. q \in A
  <2>1. 0 \in 0..c
    OBVIOUS
  <2>2. QED
    BY <1>2, <1>3, <2>1
<1>5. ASSUME NEW r \in A PROVE DeleteTurn(r, i, target) \in A
  <2>1. PICK m \in 0..c : Deleting(q, s, i, c, m, r)
    OBVIOUS
  <2>2. \E l \in 0..c : Deleting(q, s, i, c, l, DeleteTurn(r, i, target))
    BY <2>1, DeleteTurnHolds
  <2>3. QED
    BY <1>3, <2>2
<1> HIDE DEF A, target
<1>6. step \in [Nat \X A -> A] /\ \A n \in Nat, v \in A : step[<<n, v>>] = DeleteTurn(v, i, target)
  BY <1>5
<1> HIDE DEF step
<1>7. PICK g \in [Nat -> A] : g[0] = q /\ \A n \in Nat : g[n + 1] = step[<<n, g[n]>>]
  <2>1. Unrolls(A, q, step)
    BY <1>4, <1>6, Recursion
  <2>2. QED
    BY <2>1 DEF Unrolls
<1>8. \A n \in Nat : g[n] \in A /\ g[n + 1] = DeleteTurn(g[n], i, target)
  BY <1>6, <1>7
<1> HIDE DEF N
<1> DEFINE Q(h) == h = [k \in 0 .. q.count |-> IF k = 0 THEN q ELSE DeleteTurn(h[k - 1], i, target)]
           h0 == CHOOSE h : Q(h)
           f == [k \in 0 .. q.count |-> g[k]]
<1>9. Q(f)
  <2>1. ASSUME NEW n \in 0 .. q.count
        PROVE  g[n] = IF n = 0 THEN q ELSE DeleteTurn(f[n - 1], i, target)
    <3>1. CASE n = 0
      BY <1>7, <3>1
    <3>2. CASE n # 0
      <4>1. n - 1 \in Nat /\ (n - 1) + 1 = n /\ n - 1 \in 0 .. q.count
        BY <1>1, <3>2 DEF N
      <4>2. g[n] = DeleteTurn(g[n - 1], i, target)
        <5>1. g[(n - 1) + 1] = DeleteTurn(g[n - 1], i, target)
          BY <1>8, <4>1
        <5>2. QED
          BY <4>1, <5>1
      <4>3. f[n - 1] = g[n - 1]
        BY <4>1
      <4> HIDE DEF f
      <4>4. QED
        BY <3>2, <4>2, <4>3
    <3>3. QED
      BY <3>1, <3>2
  <2>2. f = [n \in 0 .. q.count |-> IF n = 0 THEN q ELSE DeleteTurn(f[n - 1], i, target)]
    BY <2>1
  <2>3. QED
    <3> HIDE DEF f
    <3>1. QED
      BY <2>2
<1>10. Q(h0)
  <2> HIDE DEF f, Q
  <2>1. QED
    BY <1>9
<1>11. DeleteFrom(q, i, target) = h0[q.count]
  BY DEF DeleteFrom
<1> HIDE DEF h0, f
<1>12. \A k \in 0 .. q.count : h0[k] = IF k = 0 THEN q ELSE DeleteTurn(h0[k - 1], i, target)
  BY <1>10
<1> HIDE DEF Q
<1> DEFINE T == {k \in Nat : k <= N => \E m \in 0..c : Deleting(q, s, i, c, m, h0[k]) /\ (m = c \/ m >= k)}
<1>13. 0 \in T
  <2>1. h0[0] = q
    BY <1>1, <1>12 DEF N
  <2>2. 0 \in 0..c /\ 0 >= 0
    OBVIOUS
  <2>3. QED
    BY <1>2, <2>1, <2>2
<1>14. ASSUME NEW k \in Nat, k \in T PROVE k + 1 \in T
  <2>1. SUFFICES ASSUME k + 1 <= N
                 PROVE \E m \in 0..c : Deleting(q, s, i, c, m, h0[k + 1]) /\ (m = c \/ m >= k + 1)
    OBVIOUS
  <2>2. k <= N /\ k + 1 \in 0..N /\ k + 1 # 0 /\ (k + 1) - 1 = k
    BY <1>1, <2>1
  <2>3. PICK m \in 0..c : Deleting(q, s, i, c, m, h0[k]) /\ (m = c \/ m >= k)
    BY <1>14, <2>2
  <2>4. h0[k + 1] = DeleteTurn(h0[k], i, target)
    BY <1>12, <2>2 DEF N
  <2>5. PICK l \in 0..c : Deleting(q, s, i, c, l, DeleteTurn(h0[k], i, target))
                          /\ (m = c \/ l > m) /\ (m = c => l = c)
    BY <2>3, DeleteTurnHolds DEF target
  <2>6. l = c \/ l >= k + 1
    BY <2>3, <2>5
  <2>7. QED
    BY <2>4, <2>5, <2>6
<1>15. \A k \in Nat : k \in T
  <2> HIDE DEF T
  <2>1. QED
    BY <1>13, <1>14, Induction
<1>16. PICK m \in 0..c : Deleting(q, s, i, c, m, h0[N]) /\ (m = c \/ m >= N)
  BY <1>1, <1>15
<1>17. m = c
  BY <1>1, <1>16
<1>18. QED
  BY <1>11, <1>16, <1>17 DEF Deleting, N, target

(* The merge after it changes no element.                                  *)
LEMMA MergeNearHolds ==
  ASSUME NEW q, NEW s, Holds(q, s), NEW i
  PROVE  Becomes(q, MergeNear(q, i), s)
<1> DEFINE at == locate(q, IF i < q.count THEN i ELSE q.count - 1)
<1>1. MergeNear(q, i) = IF q.nodes = <<>> \/ at = Nil THEN q ELSE merge_around(q, at[1])
  BY DEF MergeNear
<1> HIDE DEF at
<1>2. Becomes(q, q, s)
  BY BecomesSame
<1>3. Becomes(q, merge_around(q, at[1]), s)
  BY MergeAroundHolds
<1>4. QED
  BY <1>1, <1>2, <1>3

(* An index from the head is itself.                                       *)
LEMMA NormalizeIs ==
  ASSUME NEW q, NEW s, Holds(q, s), NEW i \in 0..Len(s)-1
  PROVE  normalize(q, i) = i /\ i # Nil
<1>1. q.count = Len(s) /\ Len(s) \in Nat
  BY HoldsType
<1>2. i \in Int /\ ~(i < 0) /\ i \in 0 .. q.count - 1
  BY <1>1
<1>3. QED
  BY <1>2, QuicklistConstants DEF normalize, QuicklistConstants

(* LTRIM and the deletions of LREM and LSET.                               *)
LEMMA DeleteRangeHolds ==
  ASSUME NEW q, NEW s, Holds(q, s), NEW i \in 0..Len(s)-1, NEW n \in Nat \ {0}
  PROVE  /\ Becomes(q, qlDeleteRange(q, i, n), SubSeq(s, 1, i) \o SubSeq(s, i + n + 1, Len(s)))
         /\ n = 1 => SubSeq(s, 1, i) \o SubSeq(s, i + n + 1, Len(s)) = Gone(s, i, 1)
<1>1. q.count = Len(s) /\ Len(s) \in Nat /\ s \in Seq(QLValues)
  BY HoldsType
<1>2. normalize(q, i) = i /\ i # Nil
  BY NormalizeIs
<1>3. PICK N \in Nat : N = Len(s)
  BY <1>1
<1> DEFINE c == IF n < N - i THEN n ELSE N - i
           target == IF n < q.count - i THEN q.count - n ELSE i
           t == SubSeq(s, 1, i) \o SubSeq(s, i + n + 1, Len(s))
<1>4. c \in Nat /\ i \in Nat /\ i + c <= N /\ target = N - c /\ q.count # 0
  BY <1>1, <1>3
<1>5. qlDeleteRange(q, i, n) = MergeNear(DeleteFrom(q, i, target), i)
  BY <1>2, <1>4 DEF qlDeleteRange
<1>6. Gone(s, i, c) = t
  <2>1. CASE n < N - i
    BY <2>1 DEF Gone, Without
  <2>2. CASE ~(n < N - i)
    <3>1. i + n + 1 \in Int /\ Len(s) \in Int /\ Len(s) < i + n + 1
          /\ i + c = N /\ N + 1 \in Int /\ N \in Int /\ N < N + 1
      BY <1>1, <1>3, <2>2
    <3>2. SubSeq(s, i + n + 1, Len(s)) = <<>>
      BY <3>1, SubSeqEmpty
    <3>3. SubSeq(s, N + 1, N) = <<>>
      BY <3>1, SubSeqEmpty
    <3>4. Without(s, i + c) = <<>>
      BY <1>3, <3>1, <3>3 DEF Without
    <3>5. QED
      BY <3>2, <3>4 DEF Gone
  <2>3. QED
    BY <2>1, <2>2
<1>7. n = 1 => t = Gone(s, i, 1)
  BY DEF Gone, Without
<1> HIDE DEF c, target, t
<1>8. Becomes(q, DeleteFrom(q, i, Len(s) - c), Gone(s, i, c))
  BY <1>3, <1>4, DeleteFromHolds
<1> DEFINE r == DeleteFrom(q, i, target)
<1>9. Becomes(q, r, t)
  BY <1>3, <1>4, <1>6, <1>8
<1> HIDE DEF r
<1>10. Holds(r, t)
  BY <1>9 DEF Becomes
<1>11. Becomes(r, MergeNear(r, i), t)
  BY <1>10, MergeNearHolds
<1>12. Becomes(q, MergeNear(r, i), t)
  BY <1>9, <1>11, BecomesThen
<1>13. QED
  BY <1>5, <1>7, <1>12 DEF r, t

-----------------------------------------------------------------------------
(* Overwriting.                                                            *)

(* One element deleted.                                                    *)
LEMMA GoneOne ==
  ASSUME NEW S, NEW s \in Seq(S), NEW i \in 0..Len(s)-1
  PROVE  LET g == Gone(s, i, 1)
         IN /\ g \in Seq(S) /\ Len(g) = Len(s) - 1 /\ SubSeq(g, 1, i) = SubSeq(s, 1, i)
            /\ Without(g, i) = Without(s, i + 1)
<1>1. PICK m \in Nat : m = 1
  OBVIOUS
<1>2. i \in Nat /\ i + m <= Len(s)
  BY <1>1
<1>3. /\ Gone(s, i, m) \in Seq(S) /\ Len(Gone(s, i, m)) = Len(s) - m
      /\ SubSeq(Gone(s, i, m), 1, i) = SubSeq(s, 1, i)
      /\ Without(Gone(s, i, m), i) = Without(s, i + m)
  BY <1>2, GoneType
<1>4. QED
  BY <1>1, <1>3

(* The list with element i overwritten.                                    *)
Overwritten(s, i, v) ==
  /\ Seqs!ReplaceAt(s, i + 1, v) = SubSeq(s, 1, i) \o (<<v>> \o Without(s, i + 1))
  /\ Len(Seqs!ReplaceAt(s, i + 1, v)) = Len(s)

(* That is what ReplaceAt makes of it.                                     *)
LEMMA ReplacedIs ==
  ASSUME NEW S, NEW s \in Seq(S), NEW i \in 0..Len(s)-1, NEW v \in S
  PROVE  Overwritten(s, i, v)
<1> DEFINE k == i + 1
<1>1. k \in 1..Len(s) /\ k - 1 = i
  OBVIOUS
<1> HIDE DEF k
<1>2. [s EXCEPT ![k] = v] = SubSeq(s, 1, k - 1) \o (<<v>> \o Without(s, k))
  BY <1>1, ReplacedAround
<1>3. Len([s EXCEPT ![k] = v]) = Len(s)
  BY <1>1, ExceptSeq
<1>4. QED
  BY <1>1, <1>2, <1>3 DEF k, Seqs!ReplaceAt, Overwritten

(* An element overwritten within its node.                                 *)
LEMMA SetNodeHolds ==
  ASSUME NEW q, NEW s, Holds(q, s), NEW i, NEW k, NEW off, Place(q.nodes, i, k, off),
         NEW v \in QLValues, NEW p \in QlNode, p.elems = [q.nodes[k].elems EXCEPT ![off + 1] = v]
  PROVE  Becomes(q, [q EXCEPT !.nodes = [q.nodes EXCEPT ![k] = p]], Seqs!ReplaceAt(s, i + 1, v))
<1> DEFINE ns == q.nodes
           n == ns[k]
           a == SubSeq(ns, 1, k - 1)
           b == Without(ns, k)
           e == n.elems
           e1 == SubSeq(e, 1, off)
           e2 == Without(e, off + 1)
           x == FlatOf(a)
           y == FlatOf(b)
           one == <<p>>
           c == <<v>>
<1>1. q \in QlType /\ ns \in Seq(QlNode) /\ q.fill \in Int /\ q.count = Len(s) /\ s \in Seq(QLValues)
      /\ Len(s) \in Nat /\ c \in Seq(QLValues)
  BY HoldsType DEF Holds
<1>2. k \in 1..Len(ns) /\ off \in Nat /\ off < Len(e)
  BY DEF Place
<1>3. /\ a \in Seq(QlNode) /\ b \in Seq(QlNode) /\ n \in QlNode /\ e \in Seq(QLValues)
      /\ x \in Seq(QLValues) /\ y \in Seq(QLValues)
      /\ Within(a, ns, q.fill) /\ Within(b, ns, q.fill) /\ NodeWithin(n, ns, q.fill)
  BY <1>2, AroundNode
<1>4. /\ e1 \in Seq(QLValues)
      /\ Without(e, off) \in Seq(QLValues) /\ Len(Without(e, off)) = Len(e) - off
      /\ SubSeq(s, 1, i) = x \o e1 /\ Without(s, i) = Without(e, off) \o y
      /\ i \in 0..Len(s)-1 /\ Len(e) \in Nat
  <2>1. CutAtPlace(q, s, i, k, off)
    BY PlaceSplits
  <2>2. QED
    BY <2>1 DEF CutAtPlace
<1>5. off \in 0..Len(e)-1 /\ off + 1 \in 0..Len(e) /\ p.elems = Seqs!ReplaceAt(e, off + 1, v)
  BY <1>2, <1>4 DEF Seqs!ReplaceAt
<1> HIDE DEF ns, n, a, b, e, x, y
<1>6. p.elems = e1 \o (c \o e2) /\ Len(p.elems) = Len(e)
  <2>1. Overwritten(e, off, v)
    BY <1>3, <1>5, ReplacedIs
  <2>2. QED
    BY <1>5, <2>1 DEF Overwritten
<1>7. e2 \in Seq(QLValues)
  BY <1>3, <1>5, WithoutType
<1>8. NodeWithin(p, ns, q.fill)
  <2>1. Len(p.elems) <= Len(n.elems)
    BY <1>4, <1>6 DEF e
  <2>2. QED
    BY <1>1, <1>3, <2>1, WithinShorter
<1>9. one \in Seq(QlNode) /\ FlatOf(one) = p.elems /\ Within(one, ns, q.fill)
  BY <1>8, OneNode
<1>10. Without(s, i + 1) = e2 \o y
  <2> DEFINE w == Without(e, off)
  <2>1. i \in Nat /\ 1 \in Nat /\ i + 1 <= Len(s) /\ off + 1 <= Len(e)
    BY <1>1, <1>4, <1>5
  <2>2. Without(Without(s, i), 1) = Without(s, i + 1)
    BY <1>1, <2>1, WithoutTwice
  <2>3. Without(w, 1) = e2
    BY <1>2, <1>3, <2>1, WithoutTwice
  <2>4. w \in Seq(QLValues) /\ 1 \in 0..Len(w)
    <3>1. PICK N \in Nat : N = Len(e)
      BY <1>4
    <3>2. N - off >= 1 /\ N - off \in Nat
      BY <1>2, <3>1
    <3>3. Len(w) = N - off
      BY <1>4, <3>1
    <3>4. QED
      BY <1>4, <3>2, <3>3
  <2>a. Without(s, i) = w \o y
    BY <1>4
  <2> HIDE DEF w
  <2>5. Without(w \o y, 1) = Without(w, 1) \o y
    BY <1>3, <2>4, WithoutLeft
  <2>6. QED
    BY <2>2, <2>3, <2>5, <2>a
<1> DEFINE t == FlatOf(a) \o (FlatOf(one) \o FlatOf(b))
<1>11. Seqs!ReplaceAt(s, i + 1, v) = (x \o e1) \o (c \o (e2 \o y)) /\ Len(Seqs!ReplaceAt(s, i + 1, v)) = Len(s)
  <2>1. Overwritten(s, i, v)
    BY <1>1, <1>4, ReplacedIs
  <2>2. QED
    BY <1>4, <1>10, <2>1 DEF Overwritten
<1> HIDE DEF e1, e2, c
<1>12. (x \o e1) \o (c \o (e2 \o y)) = x \o ((e1 \o (c \o e2)) \o y)
  <2> DEFINE z == c \o e2
  <2>1. z \in Seq(QLValues) /\ z \o y = c \o (e2 \o y)
    <3>1. c \in Seq(QLValues) /\ e2 \in Seq(QLValues) /\ y \in Seq(QLValues)
      BY <1>1, <1>3, <1>7
    <3>2. z \in Seq(QLValues)
      BY <3>1, ConcatProperties
    <3>3. (c \o e2) \o y = c \o (e2 \o y)
      BY ONLY <3>1, ConcatAssociative
    <3>4. QED
      BY <3>2, <3>3
  <2> HIDE DEF z
  <2>2. FourRegroup(x, e1, z, y)
    BY <1>3, <1>4, <2>1, RegroupFour
  <2>3. QED
    BY <2>1, <2>2 DEF FourRegroup, z
<1>13. t = Seqs!ReplaceAt(s, i + 1, v)
  BY <1>6, <1>9, <1>11, <1>12 DEF x, y
<1>14. Becomes(q, Put(q, a \o (one \o b), Len(t)), t)
  <2> HIDE DEF one
  <2>1. Within(a, q.nodes, q.fill) /\ Within(b, q.nodes, q.fill) /\ Within(one, q.nodes, q.fill)
    BY <1>3, <1>9 DEF ns
  <2>2. QED
    BY <1>3, <1>9, <2>1, ThreeRuns
<1>15. [ns EXCEPT ![k] = p] = a \o (one \o b)
  <2>1. ns \in Seq(QlNode) /\ k \in 1..Len(ns) /\ p \in QlNode
    BY <1>1, <1>2
  <2>2. [ns EXCEPT ![k] = p] = SubSeq(ns, 1, k - 1) \o (<<p>> \o Without(ns, k))
    BY ONLY <2>1, ReplacedAround
  <2>3. QED
    BY <2>2 DEF a, b
<1>16. [q EXCEPT !.nodes = [ns EXCEPT ![k] = p]] = Put(q, [ns EXCEPT ![k] = p], q.count)
  BY <1>1, PutNodes
<1>17. QED
  BY <1>1, <1>11, <1>13, <1>14, <1>15, <1>16 DEF ns

(* LSET: in place, or across the plain/packed boundary.                    *)
LEMMA SetAtHolds ==
  ASSUME NEW q, NEW s, Holds(q, s), NEW i \in 0..Len(s)-1, NEW v \in QLValues
  PROVE  Becomes(q, SetAt(q, i, locate(q, i), v), Seqs!ReplaceAt(s, i + 1, v))
<1> DEFINE t == Seqs!ReplaceAt(s, i + 1, v)
           large == is_large_element(QLLen[v], q.fill)
<1>1. locate(q, i) # Nil
      /\ \E k \in 1..Len(q.nodes), off \in Nat : locate(q, i) = <<k, off>> /\ Place(q.nodes, i, k, off)
  BY LocateFinds
<1>2. PICK k \in 1..Len(q.nodes), off \in Nat : locate(q, i) = <<k, off>> /\ Place(q.nodes, i, k, off)
  BY <1>1
<1>3. locate(q, i)[1] = k /\ locate(q, i)[2] = off
  BY <1>2
<1> DEFINE n == q.nodes[k]
<1>4. SetAt(q, i, locate(q, i), v) =
        IF n.plain /\ large THEN [q EXCEPT !.nodes[k] = Plain(v)]
        ELSE IF ~n.plain /\ ~large THEN [q EXCEPT !.nodes[k].elems[off + 1] = v]
        ELSE qlInsertAt(qlDeleteRange(q, i, 1), i, v)
  BY <1>1, <1>3 DEF SetAt
<1>5. q \in QlType /\ q.nodes \in Seq(QlNode) /\ n \in QlNode /\ s \in Seq(QLValues) /\ Len(s) \in Nat
      /\ Len(n.elems) \in Nat /\ n.elems \in Seq(QLValues)
  <2>1. q \in QlType /\ q.nodes \in Seq(QlNode) /\ s \in Seq(QLValues) /\ Len(s) \in Nat
    BY HoldsType DEF Holds
  <2>2. n \in QlNode
    BY <2>1
  <2>3. QED
    BY <2>1, <2>2, NodeType
<1>a. off < Len(n.elems)
  BY <1>2 DEF Place
<1> HIDE DEF large
<1>6. CASE n.plain /\ large
  <2>1. Plain(v) \in QlNode /\ Plain(v).elems = <<v>>
    BY PlainType
  <2>2. Len(n.elems) = 1
    BY <1>5, <1>6 DEF QlNode
  <2>3. off < 1
    BY <1>a, <2>2
  <2>4. off = 0 /\ off + 1 = 1
    BY <2>3
  <2>5. [n.elems EXCEPT ![1] = v] = <<v>>
    <3> DEFINE e == n.elems
               d == [e EXCEPT ![1] = v]
    <3>1. e \in Seq(QLValues) /\ Len(e) = 1
      BY <1>5, <2>2
    <3> HIDE DEF e
    <3>2. d \in Seq(QLValues) /\ Len(d) = 1 /\ d[1] = v
      BY <3>1
    <3> HIDE DEF d
    <3>3. d = <<v>>
      BY <3>2
    <3>4. QED
      BY <3>3 DEF d, e
  <2>6. Plain(v).elems = [q.nodes[k].elems EXCEPT ![off + 1] = v]
    BY <2>1, <2>4, <2>5
  <2> DEFINE p == Plain(v)
  <2>7. p \in QlNode /\ p.elems = [q.nodes[k].elems EXCEPT ![off + 1] = v]
    BY <2>1, <2>6
  <2>8. [q EXCEPT !.nodes[k] = Plain(v)] = [q EXCEPT !.nodes = [q.nodes EXCEPT ![k] = p]]
    BY <1>5 DEF QlType
  <2> HIDE DEF p
  <2>9. Becomes(q, [q EXCEPT !.nodes = [q.nodes EXCEPT ![k] = p]], t)
    BY <1>2, <2>7, SetNodeHolds
  <2>10. QED
    BY <1>4, <1>6, <2>8, <2>9
<1>7. CASE ~n.plain /\ ~large
  <2> DEFINE p == [n EXCEPT !.elems[off + 1] = v]
             e == n.elems
             d == [e EXCEPT ![off + 1] = v]
  <2>1. n \in [plain : BOOLEAN, elems : Seq(QLValues)] /\ off + 1 \in 1..Len(e)
    BY <1>5, <1>a DEF QlNode
  <2>2. p.elems = d /\ p.plain = n.plain
    BY <2>1
  <2>3. d \in Seq(QLValues) /\ Len(d) = Len(e)
    <3>1. e \in Seq(QLValues) /\ off + 1 \in 1..Len(e)
      BY <1>5, <2>1
    <3> HIDE DEF e
    <3>2. QED
      BY ONLY <3>1, v \in QLValues, ExceptSeq
  <2>4. d # <<>>
    <3>1. Len(d) >= 1
      BY <2>1, <2>3, <1>5
    <3> HIDE DEF d
    <3>2. QED
      BY <2>3, <3>1, NotEmpty
  <2>5. p \in QlNode
    <3>1. p \in [plain : BOOLEAN, elems : Seq(QLValues)]
      <4>1. p = [n EXCEPT !.elems = d]
        BY <2>1
      <4> HIDE DEF d, p
      <4>2. QED
        BY <4>1, <2>1, <2>3
    <3> HIDE DEF p, d
    <3>2. QED
      BY <3>1, <2>2, <2>4, <1>7 DEF QlNode
  <2>6. p.elems = [q.nodes[k].elems EXCEPT ![off + 1] = v]
    BY <2>2
  <2>7. [q EXCEPT !.nodes[k].elems[off + 1] = v] = [q EXCEPT !.nodes = [q.nodes EXCEPT ![k] = p]]
    BY <1>5 DEF QlType
  <2> HIDE DEF p
  <2>8. Becomes(q, [q EXCEPT !.nodes = [q.nodes EXCEPT ![k] = p]], t)
    BY <1>2, <2>5, <2>6, SetNodeHolds
  <2>9. QED
    BY <1>4, <1>7, <2>7, <2>8
<1>8. CASE ~(n.plain /\ large) /\ ~(~n.plain /\ ~large)
  <2> DEFINE r == qlDeleteRange(q, i, 1)
             g == Gone(s, i, 1)
             p == qlInsertAt(r, i, v)
  <2>1. Becomes(q, r, g)
    <3>1. 1 \in Nat \ {0}
      OBVIOUS
    <3>2. QED
      BY <3>1, DeleteRangeHolds
  <2>2. Holds(r, g)
    BY <2>1 DEF Becomes
  <2>3. i \in Nat /\ 1 \in Nat /\ i + 1 <= Len(s)
    BY <1>5
  <2>4. g \in Seq(QLValues) /\ Len(g) = Len(s) - 1 /\ SubSeq(g, 1, i) = SubSeq(s, 1, i)
        /\ Without(g, i) = Without(s, i + 1)
    BY <1>5, GoneOne
  <2>a. SetAt(q, i, locate(q, i), v) = p
    BY <1>4, <1>8
  <2> HIDE DEF r, g
  <2>5. i \in 0..Len(g)
    BY <1>5, <2>4
  <2>6. Becomes(r, p, With(g, i, v))
    BY <2>2, <2>5, InsertAtHolds
  <2> HIDE DEF p
  <2>7. Becomes(q, p, With(g, i, v))
    BY <2>1, <2>6, BecomesThen
  <2>8. With(g, i, v) = t
    <3> DEFINE x == SubSeq(s, 1, i)
               y == Without(s, i + 1)
               c == <<v>>
    <3>1. i \in 0..Len(s) /\ i + 1 \in 0..Len(s)
      BY <1>5
    <3>2. x \in Seq(QLValues) /\ y \in Seq(QLValues) /\ c \in Seq(QLValues)
      BY <1>5, <3>1, FrontType, WithoutType
    <3>3. With(g, i, v) = (x \o c) \o y
      BY <2>4 DEF With
    <3>4. t = x \o (c \o y)
      <4>1. Overwritten(s, i, v)
        BY <1>5, ReplacedIs
      <4>2. QED
        BY <4>1 DEF Overwritten
    <3> HIDE DEF x, y, c, t
    <3>5. (x \o c) \o y = x \o (c \o y)
      BY <3>2, ConcatAssociative
    <3>6. QED
      BY <3>3, <3>4, <3>5
  <2>9. QED
    BY <2>a, <2>7, <2>8
<1>9. QED
  BY <1>6, <1>7, <1>8

(* LSET with an index from either end.                                     *)
LEMMA SetHolds ==
  ASSUME NEW q, NEW s, Holds(q, s), NEW i \in Int, -Len(s) <= i, i < Len(s), NEW v \in QLValues
  PROVE  Becomes(q, qlSet(q, i, v), Seqs!ReplaceAt(s, IF i < 0 THEN Len(s) + i + 1 ELSE i + 1, v))
<1>1. q.count = Len(s) /\ Len(s) \in Nat
  BY HoldsType
<1>2. PICK j \in Int : j = IF i < 0 THEN i + q.count ELSE i
  BY <1>1
<1>3. j \in 0..Len(s)-1 /\ j \in 0..q.count-1 /\ (IF i < 0 THEN Len(s) + i + 1 ELSE i + 1) = j + 1
  BY <1>1, <1>2
<1>4. normalize(q, i) = j /\ j # Nil
  BY <1>2, <1>3, QuicklistConstants DEF normalize, QuicklistConstants
<1>5. qlSet(q, i, v) = SetAt(q, j, locate(q, j), v)
  BY <1>4 DEF qlSet
<1>6. Becomes(q, SetAt(q, j, locate(q, j), v), Seqs!ReplaceAt(s, j + 1, v))
  BY <1>3, SetAtHolds
<1>7. QED
  BY <1>3, <1>5, <1>6

-----------------------------------------------------------------------------
(* Iterating and searching.                                                *)

(* A sequence backwards.                                                   *)
LEMMA ReverseType ==
  ASSUME NEW S, NEW s \in Seq(S)
  PROVE  /\ Seqs!Reverse(s) \in Seq(S) /\ Len(Seqs!Reverse(s)) = Len(s)
         /\ \A k \in 1..Len(s) : Seqs!Reverse(s)[k] = s[(Len(s) - k) + 1]
<1>1. Len(s) \in Nat
  OBVIOUS
<1>2. \A k \in 1..Len(s) : s[(Len(s) - k) + 1] \in S
  <2> TAKE k \in 1..Len(s)
  <2>1. (Len(s) - k) + 1 \in 1..Len(s)
    BY <1>1
  <2>2. QED
    BY <2>1
<1>3. QED
  BY <1>1, <1>2 DEF Seqs!Reverse

(* The iterators run through the list, forward and backward.               *)
LEMMA IterIs ==
  ASSUME NEW q, NEW s, Holds(q, s)
  PROVE  qlFlat(q) = s /\ qlIter(q) = s /\ qlIterRev(q) = Seqs!Reverse(s)
<1>1. s \in Seq(QLValues) /\ q.count = Len(s) /\ FlatOf(q.nodes) = s
  BY HoldsType
<1>2. qlFlat(q) = s
  BY <1>1 DEF qlFlat, FlatOf, ElemsOf
<1>3. qlIter(q) = s
  BY <1>1, <1>2, SubSeqFull DEF qlIter
<1> DEFINE r == Seqs!Reverse(s)
<1>4. r \in Seq(QLValues) /\ Len(r) = Len(s)
  BY <1>1, ReverseType
<1>5. qlIterRev(q) = SubSeq(r, 1, Len(s))
  BY <1>1, <1>2 DEF qlIterRev
<1> HIDE DEF r
<1>6. SubSeq(r, 1, Len(r)) = r
  BY <1>4, SubSeqFull
<1>7. QED
  BY <1>2, <1>3, <1>4, <1>5, <1>6 DEF r

(* The elements equal to v; the first of them and the last.                *)
Equal(s, v) == {k \in 1..Len(s) : s[k] = v}
FirstEqual(s, v, p) == p \in Equal(s, v) /\ \A j \in Equal(s, v) : p <= j
LastEqual(s, v, p) == p \in Equal(s, v) /\ \A j \in Equal(s, v) : j <= p

(* The search from the head finds the first ...                            *)
LEMMA PositionIs ==
  ASSUME NEW q, NEW s, Holds(q, s), NEW v
  PROVE  /\ Equal(s, v) = {} => position(q, v) = Nil
         /\ Equal(s, v) # {} => \E p \in 1..Len(s) : FirstEqual(s, v, p) /\ position(q, v) = p - 1
<1> DEFINE H == {k \in DOMAIN s : s[k] = v}
<1>1. s \in Seq(QLValues) /\ Len(s) \in Nat /\ qlIter(q) = s /\ DOMAIN s = 1..Len(s)
  BY HoldsType, IterIs
<1>4. position(q, v) = IF H = {} THEN Nil ELSE (CHOOSE k \in H : \A j \in H : k <= j) - 1
  BY <1>1 DEF position
<1>2. H = Equal(s, v)
  BY <1>1 DEF Equal
<1> HIDE DEF H
<1>3. H \in SUBSET Nat /\ H \in SUBSET (1..Len(s))
  BY <1>1, <1>2 DEF Equal
<1>5. ASSUME H # {} PROVE \E p \in 1..Len(s) : FirstEqual(s, v, p) /\ position(q, v) = p - 1
  <2> DEFINE p == CHOOSE k \in H : \A j \in H : k <= j
  <2>1. \E k \in H : \A j \in H : k <= j
    BY <1>3, <1>5, LeastNumber
  <2>2. p \in H /\ \A j \in H : p <= j
    BY <2>1
  <2>3. position(q, v) = p - 1
    BY <1>4, <1>5
  <2> HIDE DEF p
  <2>4. FirstEqual(s, v, p) /\ p \in 1..Len(s)
    BY <1>2, <1>3, <2>2 DEF FirstEqual
  <2>5. QED
    BY <2>3, <2>4
<1>6. QED
  BY <1>2, <1>4, <1>5

(* ... and the search from the tail the last.                              *)
LEMMA RpositionIs ==
  ASSUME NEW q, NEW s, Holds(q, s), NEW v
  PROVE  /\ Equal(s, v) = {} => rposition(q, v) = Nil
         /\ Equal(s, v) # {} => \E p \in 1..Len(s) : LastEqual(s, v, p) /\ rposition(q, v) = p - 1
<1> DEFINE r == Seqs!Reverse(s)
           H == {k \in DOMAIN r : r[k] = v}
<1>1. s \in Seq(QLValues) /\ Len(s) \in Nat /\ qlIterRev(q) = r /\ DOMAIN s = 1..Len(s) /\ q.count = Len(s)
  BY HoldsType, IterIs
<1>2. r \in Seq(QLValues) /\ Len(r) = Len(s) /\ \A k \in 1..Len(s) : r[k] = s[(Len(s) - k) + 1]
  BY <1>1, ReverseType
<1>3. PICK n \in Nat : n = Len(s)
  BY <1>1
<1>4. rposition(q, v) = IF H = {} THEN Nil ELSE n - 1 - ((CHOOSE k \in H : \A j \in H : k <= j) - 1)
  BY <1>1, <1>3 DEF rposition
<1> HIDE DEF r
<1>5. H = {k \in 1..n : r[k] = v} /\ \A k \in 1..n : r[k] = s[(n - k) + 1]
  BY <1>2, <1>3
<1> HIDE DEF H
<1>6. Equal(s, v) = {k \in 1..n : s[k] = v}
  BY <1>3 DEF Equal
<1>7. \A k \in H : k \in 1..n /\ (n - k) + 1 \in Equal(s, v)
  BY <1>5, <1>6
<1>8. \A k \in Equal(s, v) : k \in 1..n /\ (n - k) + 1 \in H
  <2> TAKE k \in Equal(s, v)
  <2>1. k \in 1..n /\ s[k] = v
    BY <1>6
  <2>2. (n - k) + 1 \in 1..n /\ (n - ((n - k) + 1)) + 1 = k
    BY <2>1
  <2>3. r[(n - k) + 1] = v
    BY <1>5, <2>1, <2>2
  <2>4. QED
    BY <1>5, <2>1, <2>2, <2>3
<1>9. H = {} <=> Equal(s, v) = {}
  BY <1>7, <1>8
<1>10. ASSUME H # {} PROVE \E p \in 1..Len(s) : LastEqual(s, v, p) /\ rposition(q, v) = p - 1
  <2> DEFINE m == CHOOSE k \in H : \A j \in H : k <= j
  <2>1. \E k \in H : \A j \in H : k <= j
    <3>1. H \in SUBSET Nat
      BY <1>7
    <3>2. QED
      BY <3>1, <1>10, LeastNumber
  <2>2. m \in H /\ \A j \in H : m <= j
    BY <2>1
  <2>3. rposition(q, v) = n - 1 - (m - 1)
    BY <1>4, <1>10
  <2> HIDE DEF m
  <2>4. m \in 1..n /\ (n - m) + 1 \in Equal(s, v)
    BY <1>7, <2>2
  <2> DEFINE p == (n - m) + 1
  <2>5. p \in 1..n /\ n - 1 - (m - 1) = p - 1
    BY <2>4
  <2>6. ASSUME NEW j \in Equal(s, v) PROVE j <= p
    <3>1. j \in 1..n /\ (n - j) + 1 \in H
      BY <1>8
    <3>2. m <= (n - j) + 1
      BY <2>2, <3>1
    <3>3. QED
      BY <2>4, <3>1, <3>2
  <2>a. p \in Equal(s, v)
    BY <2>4
  <2> HIDE DEF p
  <2>7. LastEqual(s, v, p)
    BY <2>a, <2>6 DEF LastEqual
  <2>8. QED
    BY <1>3, <2>3, <2>5, <2>7
<1>11. QED
  BY <1>4, <1>9, <1>10

(* A turn of remove_value takes out the first or the last of them.         *)
LEMMA RemoveOneHolds ==
  ASSUME NEW q, NEW s, Holds(q, s), NEW v, NEW backward \in BOOLEAN
  PROVE  /\ Equal(s, v) = {} => Becomes(q, RemoveOne(q, v, backward), s)
         /\ Equal(s, v) # {} =>
              \E p \in 1..Len(s) :
                /\ IF backward THEN LastEqual(s, v, p) ELSE FirstEqual(s, v, p)
                /\ Becomes(q, RemoveOne(q, v, backward), Gone(s, p - 1, 1))
<1> DEFINE at == IF backward THEN rposition(q, v) ELSE position(q, v)
<1>1. RemoveOne(q, v, backward) = IF at = Nil THEN q ELSE qlDeleteRange(q, at, 1)
  BY DEF RemoveOne
<1>2. ASSUME Equal(s, v) = {} PROVE Becomes(q, RemoveOne(q, v, backward), s)
  <2>1. at = Nil
    BY <1>2, PositionIs, RpositionIs
  <2>2. QED
    BY <1>1, <2>1, BecomesSame
<1>3. ASSUME Equal(s, v) # {}
      PROVE \E p \in 1..Len(s) :
                /\ IF backward THEN LastEqual(s, v, p) ELSE FirstEqual(s, v, p)
                /\ Becomes(q, RemoveOne(q, v, backward), Gone(s, p - 1, 1))
  <2>1. PICK p \in 1..Len(s) : at = p - 1 /\ IF backward THEN LastEqual(s, v, p) ELSE FirstEqual(s, v, p)
    <3>1. CASE backward
      <4>1. PICK p \in 1..Len(s) : LastEqual(s, v, p) /\ rposition(q, v) = p - 1
        BY <1>3, RpositionIs
      <4>2. QED
        BY <3>1, <4>1
    <3>2. CASE ~backward
      <4>1. PICK p \in 1..Len(s) : FirstEqual(s, v, p) /\ position(q, v) = p - 1
        BY <1>3, PositionIs
      <4>2. QED
        BY <3>2, <4>1
    <3>3. QED
      BY <3>1, <3>2
  <2> HIDE DEF at
  <2>2. Len(s) \in Nat
    BY HoldsType
  <2>3. at \in 0..Len(s)-1 /\ at \in Int
    BY <2>1, <2>2
  <2>4. at # Nil
    BY <2>3, QuicklistConstants DEF QuicklistConstants
  <2>5. Becomes(q, qlDeleteRange(q, at, 1), Gone(s, at, 1))
    <3>1. PICK n \in Nat \ {0} : n = 1
      OBVIOUS
    <3>2. /\ Becomes(q, qlDeleteRange(q, at, n), SubSeq(s, 1, at) \o SubSeq(s, at + n + 1, Len(s)))
          /\ n = 1 => SubSeq(s, 1, at) \o SubSeq(s, at + n + 1, Len(s)) = Gone(s, at, 1)
      BY <2>3, DeleteRangeHolds
    <3>3. QED
      BY <3>1, <3>2
  <2>6. QED
    BY <1>1, <2>1, <2>4, <2>5
<1>4. QED
  BY <1>2, <1>3

(* What LREM keeps, as the model has it.                                   *)
Nth(s, v, k) == Cardinality({j \in 1 .. k : s[j] = v})
Kept(s, v, count) ==
  {k \in DOMAIN s :
     \/ s[k] # v
     \/ count > 0 /\ Nth(s, v, k) > count
     \/ count < 0 /\ Nth(s, v, k) <= Nth(s, v, Len(s)) + count}
Picked(s, kept) ==
  LET pick[k \in 0 .. Len(s)] ==
        IF k = 0 THEN <<>>
        ELSE IF k \in kept THEN Append(pick[k - 1], s[k]) ELSE pick[k - 1]
  IN pick[Len(s)]

PickStep(s, kept, x, k) == IF k \in kept THEN Append(x, s[k]) ELSE x
PicksBy(s, kept, F) == F[0] = <<>> /\ \A k \in 1..Len(s) : F[k] = PickStep(s, kept, F[k - 1], k)

(* What the recursion of the action picks.                                 *)
LEMMA PickedIs ==
  ASSUME NEW S, NEW s \in Seq(S), NEW kept, NEW G \in [0..Len(s) -> Seq(S)], PicksBy(s, kept, G)
  PROVE  Picked(s, kept) = G[Len(s)]
<1>0. PICK m \in Nat : m = Len(s)
  OBVIOUS
<1> DEFINE Q(h) == h = [k \in 0 .. Len(s) |->
                          IF k = 0 THEN <<>>
                          ELSE IF k \in kept THEN Append(h[k - 1], s[k]) ELSE h[k - 1]]
           h0 == CHOOSE h : Q(h)
<1>1. G[0] = <<>> /\ \A k \in 1..m : G[k] = IF k \in kept THEN Append(G[k - 1], s[k]) ELSE G[k - 1]
  BY <1>0 DEF PicksBy, PickStep
<1>5. Q(G)
  <2>1. ASSUME NEW k \in 0 .. Len(s)
        PROVE  G[k] = IF k = 0 THEN <<>> ELSE IF k \in kept THEN Append(G[k - 1], s[k]) ELSE G[k - 1]
    <3>1. k = 0 \/ k \in 1..m
      BY <1>0
    <3>2. QED
      BY <1>1, <3>1
  <2>2. G = [k \in 0 .. Len(s) |-> G[k]]
    OBVIOUS
  <2>3. G = [k \in 0 .. Len(s) |-> IF k = 0 THEN <<>> ELSE IF k \in kept THEN Append(G[k - 1], s[k]) ELSE G[k - 1]]
    BY <2>1, <2>2
  <2>4. QED
    BY <2>3
<1>6. Q(h0)
  <2> HIDE DEF Q
  <2>1. QED
    BY <1>5
<1>7. Picked(s, kept) = h0[Len(s)]
  BY DEF Picked
<1> HIDE DEF h0
<1>8. \A k \in 0 .. m : h0[k] = IF k = 0 THEN <<>> ELSE IF k \in kept THEN Append(h0[k - 1], s[k]) ELSE h0[k - 1]
  BY <1>0, <1>6
<1> HIDE DEF Q
<1> DEFINE T == {k \in Nat : k <= m => h0[k] = G[k]}
<1>9. 0 \in T
  BY <1>1, <1>8
<1>10. ASSUME NEW k \in Nat, k \in T PROVE k + 1 \in T
  <2>1. SUFFICES ASSUME k + 1 <= m PROVE h0[k + 1] = G[k + 1]
    OBVIOUS
  <2>2. k + 1 \in 0..m /\ k + 1 \in 1..m /\ k + 1 # 0 /\ (k + 1) - 1 = k /\ k <= m
    BY <2>1
  <2>3. h0[k + 1] = IF k + 1 \in kept THEN Append(h0[k], s[k + 1]) ELSE h0[k]
    BY <1>8, <2>2
  <2>4. G[k + 1] = IF k + 1 \in kept THEN Append(G[k], s[k + 1]) ELSE G[k]
    BY <1>1, <2>2
  <2>5. h0[k] = G[k]
    BY <1>10, <2>2
  <2>6. QED
    BY <2>3, <2>4, <2>5
<1>11. \A k \in Nat : k \in T
  <2> HIDE DEF T
  <2>1. QED
    BY <1>9, <1>10, Induction
<1>12. QED
  BY <1>0, <1>7, <1>11

(* The recursion has a solution.                                           *)
LEMMA PicksExist ==
  ASSUME NEW S, NEW s \in Seq(S), NEW kept
  PROVE  \E G \in [0..Len(s) -> Seq(S)] : PicksBy(s, kept, G)
<1>0. PICK m \in Nat : m = Len(s)
  OBVIOUS
<1> DEFINE A == Seq(S)
           next(n, x) == IF n < m THEN PickStep(s, kept, x, n + 1) ELSE x
           step == [p \in Nat \X A |-> next(p[1], p[2])]
<1>1. <<>> \in A
  OBVIOUS
<1>2. \A n \in Nat, x \in A : next(n, x) \in A
  <2> SUFFICES ASSUME NEW n \in Nat, NEW x \in A, n < m PROVE PickStep(s, kept, x, n + 1) \in A
    OBVIOUS
  <2>1. n + 1 \in 1..Len(s)
    BY <1>0
  <2>2. s[n + 1] \in S
    BY <2>1
  <2>3. QED
    BY <2>2 DEF PickStep
<1> HIDE DEF A, next
<1>3. step \in [Nat \X A -> A] /\ \A n \in Nat, x \in A : step[<<n, x>>] = next(n, x)
  BY <1>2
<1> HIDE DEF step
<1>4. PICK g \in [Nat -> A] : g[0] = <<>> /\ \A n \in Nat : g[n + 1] = step[<<n, g[n]>>]
  <2> DEFINE z == <<>>
  <2>0. z \in A
    BY <1>1
  <2> HIDE DEF z
  <2>1. Unrolls(A, z, step)
    BY <2>0, <1>3, Recursion
  <2>2. QED
    BY <2>1 DEF Unrolls, z
<1>5. \A n \in Nat : g[n] \in A /\ g[n + 1] = next(n, g[n])
  BY <1>3, <1>4
<1> DEFINE G == [k \in 0..Len(s) |-> g[k]]
<1>6. G \in [0..Len(s) -> A]
  BY <1>5, <1>0
<1>7. G[0] = <<>>
  BY <1>0, <1>4
<1>8. ASSUME NEW k \in 1..Len(s) PROVE G[k] = PickStep(s, kept, G[k - 1], k)
  <2>1. k - 1 \in Nat /\ (k - 1) + 1 = k /\ k - 1 < m /\ k - 1 \in 0..Len(s) /\ k \in 0..Len(s)
    BY <1>0
  <2>2. g[(k - 1) + 1] = next(k - 1, g[k - 1])
    BY <1>5, <2>1
  <2>3. next(k - 1, g[k - 1]) = PickStep(s, kept, g[k - 1], (k - 1) + 1)
    BY <2>1 DEF next
  <2>4. G[k] = g[k] /\ G[k - 1] = g[k - 1]
    BY <2>1
  <2> HIDE DEF G
  <2>5. QED
    BY <2>1, <2>2, <2>3, <2>4
<1> HIDE DEF G
<1>9. PicksBy(s, kept, G)
  BY <1>7, <1>8 DEF PicksBy
<1>10. QED
  BY <1>6, <1>9 DEF A

(* A front grows by an element.                                            *)
LEMMA FrontGrows ==
  ASSUME NEW S, NEW s \in Seq(S), NEW k \in 1..Len(s)
  PROVE  SubSeq(s, 1, k) = Append(SubSeq(s, 1, k - 1), s[k])
<1>1. PICK N \in Nat : N = Len(s)
  OBVIOUS
<1>2. k \in 0..Len(s) /\ k - 1 \in 0..Len(s) /\ k \in Nat /\ k - 1 \in Nat /\ s[k] \in S
  BY <1>1
<1> DEFINE a == SubSeq(s, 1, k)
           b == SubSeq(s, 1, k - 1)
           c == Append(b, s[k])
<1>3. a \in Seq(S) /\ Len(a) = k /\ \A i \in 1..k : a[i] = s[i]
  BY <1>2, FrontType
<1>4. b \in Seq(S) /\ Len(b) = k - 1 /\ \A i \in 1..k-1 : b[i] = s[i]
  BY <1>2, FrontType
<1> HIDE DEF a, b
<1>5. c \in Seq(S) /\ Len(c) = (k - 1) + 1 /\ \A i \in 1..(k-1)+1 : c[i] = IF i <= k - 1 THEN b[i] ELSE s[k]
  BY <1>2, <1>4
<1> HIDE DEF c
<1>6. Len(c) = k /\ \A i \in 1..k : c[i] = s[i]
  <2>1. (k - 1) + 1 = k
    BY <1>2
  <2>2. Len(c) = k
    BY <1>5, <2>1
  <2>3. ASSUME NEW i \in 1..k PROVE c[i] = s[i]
    <3>1. i \in 1..(k - 1)+1 /\ (i <= k - 1 => i \in 1..k-1) /\ (~(i <= k - 1) => i = k)
      BY <1>2
    <3>2. c[i] = IF i <= k - 1 THEN b[i] ELSE s[k]
      BY <3>1, <1>5
    <3>3. QED
      BY <3>1, <3>2, <1>4
  <2>4. QED
    BY <2>2, <2>3
<1>7. a = c
  BY <1>2, <1>3, <1>5, <1>6, SeqEqual
<1>8. QED
  BY <1>7 DEF a, b, c

(* The elements left, one by one.                                          *)
LEMMA GoneAt ==
  ASSUME NEW S, NEW s \in Seq(S), NEW p \in 1..Len(s)
  PROVE  \A j \in 1..Len(s)-1 : Gone(s, p - 1, 1)[j] = IF j < p THEN s[j] ELSE s[j + 1]
<1>1. PICK N \in Nat : N = Len(s)
  OBVIOUS
<1>2. p - 1 \in 0..Len(s) /\ p \in 0..Len(s) /\ (p - 1) + 1 = p /\ p \in Int
  BY <1>1
<1> DEFINE a == SubSeq(s, 1, p - 1)
           b == Without(s, p)
<1>3. a \in Seq(S) /\ Len(a) = p - 1 /\ \A i \in 1..p-1 : a[i] = s[i]
  BY <1>2, FrontType
<1>4. b \in Seq(S) /\ Len(b) = N - p /\ \A i \in 1..N-p : b[i] = s[p + i]
  BY <1>1, <1>2, WithoutType
<1>5. Gone(s, p - 1, 1) = a \o b
  BY <1>2 DEF Gone
<1> HIDE DEF a, b
<1>6. \A i \in 1..(p-1)+(N-p) : (a \o b)[i] = IF i <= p - 1 THEN a[i] ELSE b[i - (p - 1)]
  BY <1>3, <1>4, ConcatProperties
<1>7. ASSUME NEW j \in 1..Len(s)-1 PROVE (a \o b)[j] = IF j < p THEN s[j] ELSE s[j + 1]
  <2>1. j \in 1..(p-1)+(N-p) /\ (j < p => j <= p - 1 /\ j \in 1..p-1)
        /\ (~(j < p) => ~(j <= p - 1) /\ j - (p - 1) \in 1..N-p /\ p + (j - (p - 1)) = j + 1)
    BY <1>1, <1>2
  <2>2. (a \o b)[j] = IF j <= p - 1 THEN a[j] ELSE b[j - (p - 1)]
    BY <2>1, <1>6
  <2>3. CASE j < p
    BY <2>1, <2>2, <2>3, <1>3
  <2>4. CASE ~(j < p)
    <3>1. b[j - (p - 1)] = s[p + (j - (p - 1))]
      BY <2>1, <2>4, <1>4
    <3>2. QED
      BY <2>1, <2>2, <2>4, <3>1
  <2>5. QED
    BY <2>3, <2>4
<1>8. QED
  BY <1>5, <1>7

(* Picking everything.                                                     *)
LEMMA PickedAll ==
  ASSUME NEW S, NEW s \in Seq(S), NEW kept, \A k \in 1..Len(s) : k \in kept
  PROVE  Picked(s, kept) = s
<1>1. PICK N \in Nat : N = Len(s)
  OBVIOUS
<1> DEFINE G == [k \in 0..Len(s) |-> SubSeq(s, 1, k)]
<1>2. G \in [0..Len(s) -> Seq(S)]
  BY FrontType
<1>3. \A k \in 0..Len(s) : G[k] = SubSeq(s, 1, k)
  OBVIOUS
<1> HIDE DEF G
<1>4. G[0] = <<>>
  <2>1. 0 \in 0..Len(s)
    BY <1>1
  <2>2. Len(SubSeq(s, 1, 0)) = 0 /\ SubSeq(s, 1, 0) \in Seq(S)
    BY <2>1, FrontType
  <2>3. SubSeq(s, 1, 0) = <<>>
    BY <2>2, EmptySeq
  <2>4. QED
    BY <2>1, <2>3, <1>3
<1>5. ASSUME NEW k \in 1..Len(s) PROVE G[k] = PickStep(s, kept, G[k - 1], k)
  <2>1. k \in 0..Len(s) /\ k - 1 \in 0..Len(s)
    BY <1>1
  <2>2. QED
    BY <2>1, <1>3, FrontGrows DEF PickStep
<1>6. PicksBy(s, kept, G)
  BY <1>4, <1>5 DEF PicksBy
<1>7. Picked(s, kept) = G[Len(s)]
  BY <1>2, <1>6, PickedIs
<1>8. Len(s) \in 0..Len(s)
  BY <1>1
<1>9. QED
  BY <1>3, <1>7, <1>8, SubSeqFull

(* An element left out of both may as well be gone.                        *)
Matches(s, p, kept, rest) ==
  /\ p \notin kept
  /\ \A k \in 1..Len(s) : /\ k < p => (k \in kept <=> k \in rest)
                          /\ k > p => (k \in kept <=> k - 1 \in rest)

(* ... so picking gives the same without it.                               *)
LEMMA PickedDrop ==
  ASSUME NEW S, NEW s \in Seq(S), NEW p \in 1..Len(s), NEW kept, NEW rest, Matches(s, p, kept, rest)
  PROVE  Picked(s, kept) = Picked(Gone(s, p - 1, 1), rest)
<1>1. PICK N \in Nat : N = Len(s)
  OBVIOUS
<1>2. p \in 1..N /\ N - 1 \in Nat /\ p - 1 \in 0..Len(s)-1
  BY <1>1
<1> DEFINE g == Gone(s, p - 1, 1)
<1>3. g \in Seq(S) /\ Len(g) = N - 1
  BY <1>1, <1>2, GoneOne
<1>4. \A j \in 1..N-1 : g[j] = IF j < p THEN s[j] ELSE s[j + 1]
  BY <1>1, GoneAt
<1> HIDE DEF g
<1>5. PICK F \in [0..Len(g) -> Seq(S)] : PicksBy(g, rest, F)
  BY <1>3, PicksExist
<1>6. Picked(g, rest) = F[N - 1]
  BY <1>3, <1>5, PickedIs
<1>7. F \in [0..N-1 -> Seq(S)] /\ F[0] = <<>> /\ \A k \in 1..N-1 : F[k] = PickStep(g, rest, F[k - 1], k)
  BY <1>3, <1>5 DEF PicksBy
<1> DEFINE G == [k \in 0..Len(s) |-> IF k < p THEN F[k] ELSE F[k - 1]]
<1>8. G \in [0..Len(s) -> Seq(S)]
  <2>1. ASSUME NEW k \in 0..Len(s) PROVE (IF k < p THEN F[k] ELSE F[k - 1]) \in Seq(S)
    <3>1. (k < p => k \in 0..N-1) /\ (~(k < p) => k - 1 \in 0..N-1)
      BY <1>1, <1>2
    <3>2. QED
      BY <3>1, <1>7
  <2>2. QED
    BY <2>1
<1>9. \A k \in 0..Len(s) : G[k] = IF k < p THEN F[k] ELSE F[k - 1]
  OBVIOUS
<1> HIDE DEF G
<1>10. G[0] = <<>>
  BY <1>1, <1>2, <1>7, <1>9
<1>11. ASSUME NEW k \in 1..Len(s) PROVE G[k] = PickStep(s, kept, G[k - 1], k)
  <2>1. k \in 0..Len(s) /\ k - 1 \in 0..Len(s) /\ k \in 1..N
    BY <1>1
  <2>2. G[k] = (IF k < p THEN F[k] ELSE F[k - 1]) /\ G[k - 1] = IF k - 1 < p THEN F[k - 1] ELSE F[(k - 1) - 1]
    BY <2>1, <1>9
  <2>3. CASE k < p
    <3>1. k \in 1..N-1 /\ k - 1 < p
      BY <2>1, <2>3, <1>2
    <3>2. F[k] = PickStep(g, rest, F[k - 1], k) /\ g[k] = s[k]
      BY <3>1, <2>3, <1>4, <1>7
    <3>3. k \in kept <=> k \in rest
      BY <2>3 DEF Matches
    <3>4. QED
      BY <2>2, <2>3, <3>1, <3>2, <3>3 DEF PickStep
  <2>4. CASE k = p
    <3>1. ~(k < p) /\ k - 1 < p
      BY <2>1, <2>4, <1>2
    <3>2. k \notin kept
      BY <2>4 DEF Matches
    <3>3. QED
      BY <2>2, <3>1, <3>2 DEF PickStep
  <2>5. CASE k > p
    <3>1. ~(k < p) /\ ~(k - 1 < p) /\ k - 1 \in 1..N-1 /\ (k - 1) + 1 = k
      BY <2>1, <2>5, <1>2
    <3>2. F[k - 1] = PickStep(g, rest, F[(k - 1) - 1], k - 1)
      BY <3>1, <1>7
    <3>3. g[k - 1] = s[k]
      BY <3>1, <1>4
    <3>4. k \in kept <=> k - 1 \in rest
      BY <2>5 DEF Matches
    <3>5. QED
      BY <2>2, <3>1, <3>2, <3>3, <3>4 DEF PickStep
  <2>6. QED
    BY <2>1, <1>2, <2>3, <2>4, <2>5
<1>12. PicksBy(s, kept, G)
  BY <1>10, <1>11 DEF PicksBy
<1>13. Picked(s, kept) = G[Len(s)]
  BY <1>8, <1>12, PickedIs
<1>14. G[Len(s)] = F[N - 1]
  <2>1. Len(s) \in 0..Len(s) /\ ~(Len(s) < p)
    BY <1>1, <1>2
  <2>2. QED
    BY <1>1, <2>1, <1>9
<1>15. QED
  BY <1>6, <1>13, <1>14 DEF g

(* Picking everything but one.                                             *)
LEMMA PickedButOne ==
  ASSUME NEW S, NEW s \in Seq(S), NEW p \in 1..Len(s), NEW kept,
         \A k \in 1..Len(s) : k \in kept <=> k # p
  PROVE  Picked(s, kept) = Gone(s, p - 1, 1)
<1>1. PICK N \in Nat : N = Len(s)
  OBVIOUS
<1>2. Matches(s, p, kept, Nat)
  <2>1. p \notin kept
    OBVIOUS
  <2>2. \A k \in 1..Len(s) : k \in Nat /\ (k < p => k # p) /\ (k > p => k - 1 \in Nat /\ k # p)
    BY <1>1
  <2>3. QED
    BY <2>1, <2>2 DEF Matches
<1> DEFINE g == Gone(s, p - 1, 1)
<1>3. p - 1 \in 0..Len(s)-1
  BY <1>1
<1>4. g \in Seq(S)
  BY <1>3, GoneOne
<1>5. Picked(s, kept) = Picked(g, Nat)
  BY <1>2, PickedDrop
<1> HIDE DEF g
<1>6. \A k \in 1..Len(g) : k \in Nat
  BY <1>4
<1>7. Picked(g, Nat) = g
  BY <1>4, <1>6, PickedAll
<1>8. QED
  BY <1>5, <1>7 DEF g

(* Numbers of equal elements.                                              *)
LEMMA NthType ==
  ASSUME NEW s, NEW v, NEW k \in Nat
  PROVE  /\ IsFiniteSet({j \in 1 .. k : s[j] = v}) /\ Nth(s, v, k) \in Nat
<1>1. IsFiniteSet(1 .. k)
  BY FS_Interval
<1>2. {j \in 1 .. k : s[j] = v} \in SUBSET (1 .. k)
  OBVIOUS
<1>3. IsFiniteSet({j \in 1 .. k : s[j] = v})
  BY <1>1, <1>2, FS_Subset
<1>4. QED
  BY <1>3, FS_CardinalityType DEF Nth

(* Further equal elements count for more.                                  *)
LEMMA NthGrows ==
  ASSUME NEW s, NEW v, NEW k \in Nat, NEW m \in Nat, k < m, s[m] = v
  PROVE  Nth(s, v, k) + 1 <= Nth(s, v, m)
<1> DEFINE A == {j \in 1 .. k : s[j] = v}
           B == {j \in 1 .. m : s[j] = v}
<1>1. m \notin A /\ A \cup {m} \in SUBSET B
  OBVIOUS
<1>2. IsFiniteSet(A) /\ IsFiniteSet(B) /\ Cardinality(A) \in Nat /\ Cardinality(B) \in Nat
  BY NthType DEF Nth
<1>3. Nth(s, v, k) = Cardinality(A) /\ Nth(s, v, m) = Cardinality(B)
  BY DEF Nth
<1> HIDE DEF A, B
<1>4. Cardinality(A \cup {m}) = Cardinality(A) + 1
  BY <1>1, <1>2, FS_AddElement
<1>5. Cardinality(A \cup {m}) <= Cardinality(B)
  BY <1>1, <1>2, FS_Subset
<1>6. QED
  BY <1>2, <1>3, <1>4, <1>5

(* LREM of one from the head keeps all but the first ...                   *)
LEMMA KeptFirst ==
  ASSUME NEW S, NEW s \in Seq(S), NEW v, NEW p \in 1..Len(s), FirstEqual(s, v, p), NEW c, c = 1
  PROVE  \A k \in 1..Len(s) : k \in Kept(s, v, c) <=> k # p
<1>1. PICK N \in Nat : N = Len(s)
  OBVIOUS
<1>2. s[p] = v /\ p \in 1..N /\ \A j \in 1..N : s[j] = v => p <= j
  BY <1>1 DEF FirstEqual, Equal
<1>3. ASSUME NEW k \in 1..N PROVE k \in Kept(s, v, c) <=> k # p
  <2>0. k \in DOMAIN s
    BY <1>1
  <2>1. CASE s[k] # v
    BY <2>0, <2>1, <1>2 DEF Kept
  <2>2. CASE s[k] = v /\ k = p
    <3>1. {j \in 1 .. p : s[j] = v} = {p}
      <4>1. \A j \in 1..p : j \in 1..N
        BY <1>2
      <4>2. QED
        BY <4>1, <1>2
    <3>2. Nth(s, v, p) = 1
      BY <3>1, FS_Singleton DEF Nth
    <3>3. QED
      BY <2>0, <2>2, <3>2 DEF Kept
  <2>3. CASE s[k] = v /\ k # p
    <3>1. p < k /\ p \in Nat /\ k \in Nat /\ p - 1 \in Nat /\ p - 1 < p
      BY <1>2, <2>3
    <3>2. Nth(s, v, p - 1) + 1 <= Nth(s, v, p)
      BY <1>2, <3>1, NthGrows
    <3>3. Nth(s, v, p) + 1 <= Nth(s, v, k)
      BY <2>3, <3>1, NthGrows
    <3>a. Nth(s, v, p - 1) \in Nat /\ Nth(s, v, p) \in Nat /\ Nth(s, v, k) \in Nat
      BY <3>1, NthType
    <3>4. Nth(s, v, k) > 1
      BY <3>2, <3>3, <3>a
    <3>5. QED
      BY <2>0, <2>3, <3>4 DEF Kept
  <2>4. QED
    BY <2>1, <2>2, <2>3
<1>4. QED
  BY <1>1, <1>3

(* ... one from the tail keeps all but the last ...                        *)
LEMMA KeptLast ==
  ASSUME NEW S, NEW s \in Seq(S), NEW v, NEW p \in 1..Len(s), LastEqual(s, v, p), NEW c, c = -1
  PROVE  \A k \in 1..Len(s) : k \in Kept(s, v, c) <=> k # p
<1>1. PICK N \in Nat : N = Len(s)
  OBVIOUS
<1>2. s[p] = v /\ p \in 1..N /\ \A j \in 1..N : s[j] = v => j <= p
  BY <1>1 DEF LastEqual, Equal
<1>4. {j \in 1 .. p : s[j] = v} = {j \in 1 .. N : s[j] = v}
  <2>1. \A j \in 1..p : j \in 1..N
    BY <1>2
  <2>2. \A j \in 1..N : s[j] = v => j \in 1..p
    BY <1>2
  <2>3. QED
    BY <2>1, <2>2
<1>5. Nth(s, v, p) = Nth(s, v, N)
  BY <1>4 DEF Nth
<1>3. ASSUME NEW k \in 1..N PROVE k \in Kept(s, v, c) <=> k # p
  <2>0. k \in DOMAIN s
    BY <1>1
  <2>b. k \in Nat /\ p \in Nat
    BY <1>2
  <2>a. k \in Nat /\ p \in Nat /\ Nth(s, v, k) \in Nat /\ Nth(s, v, N) \in Nat
    BY <2>b, NthType
  <2>1. CASE s[k] # v
    BY <2>0, <2>1, <1>2 DEF Kept
  <2>2. CASE s[k] = v /\ k = p
    <3>1. ~(Nth(s, v, k) <= Nth(s, v, N) + c)
      BY <2>a, <2>2, <1>5
    <3>2. QED
      BY <1>1, <2>0, <2>2, <3>1 DEF Kept
  <2>3. CASE s[k] = v /\ k # p
    <3>1. k < p
      BY <1>2, <2>3
    <3>2. Nth(s, v, k) + 1 <= Nth(s, v, N)
      BY <1>2, <1>5, <2>a, <3>1, NthGrows
    <3>3. Nth(s, v, k) <= Nth(s, v, N) + c /\ c < 0
      BY <3>2, <2>a
    <3>4. QED
      BY <1>1, <2>0, <2>3, <3>3 DEF Kept
  <2>4. QED
    BY <2>1, <2>2, <2>3
<1>6. QED
  BY <1>1, <1>3

(* ... and LREM of all keeps the others.                                   *)
LEMMA KeptOthers ==
  ASSUME NEW S, NEW s \in Seq(S), NEW v, NEW c, c = 0
  PROVE  \A k \in 1..Len(s) : k \in Kept(s, v, c) <=> s[k] # v
<1>1. DOMAIN s = 1..Len(s) /\ ~(c > 0) /\ ~(c < 0)
  OBVIOUS
<1>2. QED
  BY <1>1 DEF Kept

(* Where nothing equals v everything is kept.                              *)
LEMMA KeptUnhit ==
  ASSUME NEW S, NEW s \in Seq(S), NEW v, NEW c, Equal(s, v) = {}
  PROVE  Picked(s, Kept(s, v, c)) = s
<1>1. \A k \in 1..Len(s) : s[k] # v /\ k \in DOMAIN s
  BY DEF Equal
<1>2. \A k \in 1..Len(s) : k \in Kept(s, v, c)
  BY <1>1 DEF Kept
<1>3. QED
  BY <1>2, PickedAll

(* Taking out an element equal to v leaves the others as they were.        *)
LEMMA OthersStay ==
  ASSUME NEW S, NEW s \in Seq(S), NEW v, NEW p \in 1..Len(s), s[p] = v, NEW c, c = 0
  PROVE  Picked(s, Kept(s, v, c)) = Picked(Gone(s, p - 1, 1), Kept(Gone(s, p - 1, 1), v, c))
<1>1. PICK N \in Nat : N = Len(s)
  OBVIOUS
<1> DEFINE g == Gone(s, p - 1, 1)
           K == Kept(s, v, c)
           R == Kept(g, v, c)
<1>2. p \in 1..N /\ p - 1 \in 0..Len(s)-1
  BY <1>1
<1>3. g \in Seq(S) /\ Len(g) = N - 1
  BY <1>1, <1>2, GoneOne
<1>4. \A j \in 1..N-1 : g[j] = IF j < p THEN s[j] ELSE s[j + 1]
  BY <1>1, GoneAt
<1> HIDE DEF g
<1>5. \A k \in 1..N : k \in K <=> s[k] # v
  BY <1>1, KeptOthers
<1>6. \A k \in 1..N-1 : k \in R <=> g[k] # v
  BY <1>3, KeptOthers
<1> HIDE DEF K, R
<1>7. Matches(s, p, K, R)
  <2>1. p \notin K
    BY <1>2, <1>5
  <2>2. ASSUME NEW k \in 1..Len(s), k < p PROVE k \in K <=> k \in R
    <3>1. k \in 1..N /\ k \in 1..N-1
      BY <1>1, <1>2, <2>2
    <3>2. QED
      BY <3>1, <2>2, <1>4, <1>5, <1>6
  <2>3. ASSUME NEW k \in 1..Len(s), k > p PROVE k \in K <=> k - 1 \in R
    <3>1. k \in 1..N /\ k - 1 \in 1..N-1 /\ ~(k - 1 < p) /\ (k - 1) + 1 = k
      BY <1>1, <1>2, <2>3
    <3>2. g[k - 1] = s[k]
      BY <3>1, <1>4
    <3>3. QED
      BY <3>1, <3>2, <1>5, <1>6
  <2>4. QED
    BY <2>1, <2>2, <2>3 DEF Matches
<1>8. Picked(s, K) = Picked(g, R)
  BY <1>7, PickedDrop DEF g
<1>9. QED
  BY <1>8 DEF g, K, R

-----------------------------------------------------------------------------
(* Removing by value.                                                      *)

(* The turns of remove_value, in a row.                                    *)
Turns(q, v, backward, g) ==
  /\ g[0] = q
  /\ \A n \in Nat : g[n + 1] = RemoveOne(g[n], v, backward)
Reached(q, r) == \E t \in Seq(QLValues) : Becomes(q, r, t)

(* A turn after others.                                                    *)
LEMMA RemoveOneReaches ==
  ASSUME NEW q, NEW s, Holds(q, s), NEW v, NEW backward \in BOOLEAN, NEW r, NEW t, Becomes(q, r, t)
  PROVE  /\ Equal(t, v) = {} => Becomes(q, RemoveOne(r, v, backward), t)
         /\ Equal(t, v) # {} =>
              \E p \in 1..Len(t) :
                /\ IF backward THEN LastEqual(t, v, p) ELSE FirstEqual(t, v, p)
                /\ Becomes(q, RemoveOne(r, v, backward), Gone(t, p - 1, 1))
<1> DEFINE x == RemoveOne(r, v, backward)
<1>1. Holds(r, t)
  BY DEF Becomes
<1>2. /\ Equal(t, v) = {} => Becomes(r, x, t)
      /\ Equal(t, v) # {} =>
           \E p \in 1..Len(t) :
             /\ IF backward THEN LastEqual(t, v, p) ELSE FirstEqual(t, v, p)
             /\ Becomes(r, x, Gone(t, p - 1, 1))
  BY <1>1, RemoveOneHolds
<1> HIDE DEF x
<1>3. ASSUME NEW u, Becomes(r, x, u) PROVE Becomes(q, x, u)
  BY <1>3, BecomesThen
<1>4. QED
  BY <1>2, <1>3 DEF x

(* remove_value is a number of turns.                                      *)
LEMMA RemoveTurns ==
  ASSUME NEW q, NEW s, Holds(q, s), NEW v, NEW backward \in BOOLEAN, NEW left \in Nat
  PROVE  \E g : Turns(q, v, backward, g) /\ RemoveValue(q, v, backward, left) = g[left]
<1> DEFINE A == {r \in QlType : Reached(q, r)}
           step == [p \in Nat \X A |-> RemoveOne(p[2], v, backward)]
<1>1. ASSUME NEW r, NEW t, Becomes(q, r, t) PROVE r \in A
  <2>1. r \in QlType /\ t \in Seq(QLValues)
    BY <1>1, HoldsType DEF Becomes, Holds
  <2>2. QED
    BY <1>1, <2>1 DEF Reached
<1>2. q \in A
  BY <1>1, BecomesSame
<1>3. ASSUME NEW r \in A PROVE RemoveOne(r, v, backward) \in A
  <2>1. PICK t \in Seq(QLValues) : Becomes(q, r, t)
    BY DEF Reached
  <2>2. \E u : Becomes(q, RemoveOne(r, v, backward), u)
    <3>1. CASE Equal(t, v) = {}
      BY <2>1, <3>1, RemoveOneReaches
    <3>2. CASE Equal(t, v) # {}
      <4>1. PICK p \in 1..Len(t) : Becomes(q, RemoveOne(r, v, backward), Gone(t, p - 1, 1))
        BY <2>1, <3>2, RemoveOneReaches
      <4>2. QED
        BY <4>1
    <3>3. QED
      BY <3>1, <3>2
  <2>3. QED
    BY <1>1, <2>2
<1> HIDE DEF A
<1>4. step \in [Nat \X A -> A] /\ \A n \in Nat, x \in A : step[<<n, x>>] = RemoveOne(x, v, backward)
  BY <1>3
<1> HIDE DEF step
<1>5. PICK g \in [Nat -> A] : g[0] = q /\ \A n \in Nat : g[n + 1] = step[<<n, g[n]>>]
  <2>1. Unrolls(A, q, step)
    BY <1>2, <1>4, Recursion
  <2>2. QED
    BY <2>1 DEF Unrolls
<1>6. \A n \in Nat : g[n + 1] = RemoveOne(g[n], v, backward)
  BY <1>4, <1>5
<1> DEFINE Q(h) == h = [k \in 0 .. left |-> IF k = 0 THEN q ELSE RemoveOne(h[k - 1], v, backward)]
           h0 == CHOOSE h : Q(h)
           f == [k \in 0 .. left |-> g[k]]
<1>7. Q(f)
  <2>1. ASSUME NEW n \in 0 .. left
        PROVE  g[n] = IF n = 0 THEN q ELSE RemoveOne(f[n - 1], v, backward)
    <3>1. CASE n = 0
      BY <1>5, <3>1
    <3>2. CASE n # 0
      <4>1. n - 1 \in Nat /\ (n - 1) + 1 = n /\ n - 1 \in 0 .. left
        BY <3>2
      <4>2. g[(n - 1) + 1] = RemoveOne(g[n - 1], v, backward)
        BY <1>6, <4>1
      <4>3. f[n - 1] = g[n - 1]
        BY <4>1
      <4> HIDE DEF f
      <4>4. QED
        BY <3>2, <4>1, <4>2, <4>3
    <3>3. QED
      BY <3>1, <3>2
  <2>2. f = [n \in 0 .. left |-> IF n = 0 THEN q ELSE RemoveOne(f[n - 1], v, backward)]
    BY <2>1
  <2>3. QED
    <3> HIDE DEF f
    <3>1. QED
      BY <2>2
<1>8. Q(h0)
  <2> HIDE DEF f, Q
  <2>1. QED
    BY <1>7
<1>9. RemoveValue(q, v, backward, left) = h0[left]
  BY DEF RemoveValue
<1> HIDE DEF h0, f
<1>10. \A k \in 0 .. left : h0[k] = IF k = 0 THEN q ELSE RemoveOne(h0[k - 1], v, backward)
  BY <1>8
<1> HIDE DEF Q
<1> DEFINE T == {k \in Nat : k <= left => h0[k] = g[k]}
<1>11. 0 \in T
  BY <1>5, <1>10
<1>12. ASSUME NEW k \in Nat, k \in T PROVE k + 1 \in T
  <2>1. SUFFICES ASSUME k + 1 <= left PROVE h0[k + 1] = g[k + 1]
    OBVIOUS
  <2>2. k <= left /\ k + 1 \in 0..left /\ k + 1 # 0 /\ (k + 1) - 1 = k
    BY <2>1
  <2>3. h0[k + 1] = RemoveOne(h0[k], v, backward)
    BY <1>10, <2>2
  <2>4. QED
    BY <1>6, <1>12, <2>2, <2>3
<1>13. \A k \in Nat : k \in T
  <2> HIDE DEF T
  <2>1. QED
    BY <1>11, <1>12, Induction
<1>14. QED
  BY <1>5, <1>6, <1>9, <1>13 DEF Turns

(* LREM of all: the list length is turns enough.                           *)
LEMMA RemoveAllHolds ==
  ASSUME NEW q, NEW s, Holds(q, s), NEW v, NEW c, c = 0
  PROVE  Becomes(q, RemoveValue(q, v, FALSE, Len(s)), Picked(s, Kept(s, v, c)))
<1>1. s \in Seq(QLValues) /\ Len(s) \in Nat
  BY HoldsType
<1>0. FALSE \in BOOLEAN
  OBVIOUS
<1>2. PICK g : Turns(q, v, FALSE, g) /\ RemoveValue(q, v, FALSE, Len(s)) = g[Len(s)]
  BY <1>0, <1>1, RemoveTurns
<1> DEFINE P(t) == Picked(t, Kept(t, v, c))
           At(n, t) == Becomes(q, g[n], t) /\ P(t) = P(s) /\ (Equal(t, v) = {} \/ Len(t) + n = Len(s))
           T == {n \in Nat : \E t \in Seq(QLValues) : At(n, t)}
<1>3. 0 \in T
  <2>1. Becomes(q, g[0], s)
    BY <1>2, BecomesSame DEF Turns
  <2>2. Len(s) + 0 = Len(s)
    BY <1>1
  <2>3. QED
    BY <1>1, <2>1, <2>2
<1> HIDE DEF P
<1>4. ASSUME NEW n \in Nat, n \in T PROVE n + 1 \in T
  <2>1. PICK t \in Seq(QLValues) : At(n, t)
    BY <1>4
  <2>2. g[n + 1] = RemoveOne(g[n], v, FALSE)
    BY <1>2 DEF Turns
  <2>3. CASE Equal(t, v) = {}
    <3>1. Becomes(q, g[n + 1], t)
      BY <1>0, <2>1, <2>2, <2>3, RemoveOneReaches
    <3>2. QED
      BY <2>1, <2>3, <3>1
  <2>4. CASE Equal(t, v) # {}
    <3>a. PICK b \in BOOLEAN : b = FALSE
      OBVIOUS
    <3>b. PICK p \in 1..Len(t) :
                /\ IF b THEN LastEqual(t, v, p) ELSE FirstEqual(t, v, p)
                /\ Becomes(q, RemoveOne(g[n], v, b), Gone(t, p - 1, 1))
      BY <2>1, <2>4, RemoveOneReaches
    <3>1. FirstEqual(t, v, p) /\ Becomes(q, g[n + 1], Gone(t, p - 1, 1))
      BY <2>2, <3>a, <3>b
    <3>2. t[p] = v
      BY <3>1 DEF FirstEqual, Equal
    <3> DEFINE u == Gone(t, p - 1, 1)
    <3>3. PICK N \in Nat : N = Len(t)
      OBVIOUS
    <3>4. p - 1 \in 0..Len(t)-1
      BY <3>3
    <3>5. u \in Seq(QLValues) /\ Len(u) = N - 1
      BY <3>3, <3>4, GoneOne
    <3>6. P(t) = P(u)
      BY <3>2, OthersStay DEF P
    <3> HIDE DEF u
    <3>7. Len(u) + (n + 1) = Len(s)
      BY <2>1, <2>4, <3>3, <3>5
    <3>8. Becomes(q, g[n + 1], u)
      BY <3>1 DEF u
    <3>9. At(n + 1, u)
      BY <2>1, <3>6, <3>7, <3>8
    <3>10. QED
      BY <3>5, <3>9
  <2>5. QED
    BY <2>3, <2>4
<1>5. \A n \in Nat : n \in T
  <2> HIDE DEF T
  <2>1. QED
    BY <1>3, <1>4, Induction
<1>6. PICK t \in Seq(QLValues) : At(Len(s), t)
  BY <1>1, <1>5
<1>7. Equal(t, v) = {}
  <2>1. CASE Len(t) + Len(s) = Len(s)
    <3>1. Len(t) = 0
      BY <1>1, <2>1
    <3>2. QED
      BY <3>1 DEF Equal
  <2>2. QED
    BY <1>6, <2>1
<1>8. P(t) = t
  BY <1>7, KeptUnhit DEF P
<1>9. QED
  BY <1>2, <1>6, <1>8 DEF P

(* LREM of one, from either end.                                           *)
LEMMA RemoveNextHolds ==
  ASSUME NEW q, NEW s, Holds(q, s), NEW v, NEW c, c = 1 \/ c = -1
  PROVE  Becomes(q, RemoveValue(q, v, c < 0, 1), Picked(s, Kept(s, v, c)))
<1>1. s \in Seq(QLValues) /\ Len(s) \in Nat
  BY HoldsType
<1>2. PICK b \in BOOLEAN : b = (c < 0)
  <2>1. (c < 0) = FALSE \/ (c < 0) = TRUE
    OBVIOUS
  <2>2. QED
    BY <2>1, Zenon
<1>a. (c = 1 => ~b) /\ (c = -1 => b)
  <2>1. (c = 1 => ~(c < 0)) /\ (c = -1 => c < 0)
    OBVIOUS
  <2>2. QED
    BY <1>2, <2>1, Zenon
<1>3. PICK m \in Nat : m = 1
  OBVIOUS
<1>4. PICK g : Turns(q, v, b, g) /\ RemoveValue(q, v, b, m) = g[m]
  BY RemoveTurns
<1>5. RemoveValue(q, v, b, 1) = RemoveOne(q, v, b)
  <2>1. g[0] = q /\ g[0 + 1] = RemoveOne(g[0], v, b)
    BY <1>4 DEF Turns
  <2>2. 0 + 1 = 1
    OBVIOUS
  <2>3. QED
    BY <1>3, <1>4, <2>1, <2>2
<1>6. CASE Equal(s, v) = {}
  <2>1. Becomes(q, RemoveOne(q, v, b), s)
    BY <1>6, RemoveOneHolds
  <2>2. Picked(s, Kept(s, v, c)) = s
    BY <1>1, <1>6, KeptUnhit
  <2>3. QED
    BY <1>2, <1>5, <2>1, <2>2
<1>7. CASE Equal(s, v) # {}
  <2>1. PICK p \in 1..Len(s) :
                /\ IF b THEN LastEqual(s, v, p) ELSE FirstEqual(s, v, p)
                /\ Becomes(q, RemoveOne(q, v, b), Gone(s, p - 1, 1))
    BY <1>7, RemoveOneHolds
  <2>2. \A k \in 1..Len(s) : k \in Kept(s, v, c) <=> k # p
    <3>1. CASE c = 1
      <4>1. FirstEqual(s, v, p)
        BY <1>a, <2>1, <3>1
      <4>2. QED
        BY <1>1, <3>1, <4>1, KeptFirst
    <3>2. CASE c = -1
      <4>1. LastEqual(s, v, p)
        BY <1>a, <2>1, <3>2
      <4>2. QED
        BY <1>1, <3>2, <4>1, KeptLast
    <3>3. QED
      BY <3>1, <3>2
  <2>3. Picked(s, Kept(s, v, c)) = Gone(s, p - 1, 1)
    BY <1>1, <2>2, PickedButOne
  <2>4. QED
    BY <1>2, <1>5, <2>1, <2>3
<1>8. QED
  BY <1>6, <1>7

(* LREM.                                                                   *)
LEMMA RemoveValueHolds ==
  ASSUME NEW q, NEW s, Holds(q, s), NEW v, NEW c \in -1 .. 1
  PROVE  Becomes(q, remove_value(q, v, c), Picked(s, Kept(s, v, c)))
<1>1. q.count = Len(s)
  BY HoldsType
<1>2. CASE c = 0
  <2>1. (c < 0) = FALSE
    BY <1>2
  <2>2. remove_value(q, v, c) = RemoveValue(q, v, FALSE, Len(s))
    BY <1>1, <1>2, <2>1 DEF remove_value
  <2>3. QED
    BY <1>2, <2>2, RemoveAllHolds
<1>3. CASE c = 1 \/ c = -1
  <2>1. (IF c = 0 THEN q.count ELSE IF c < 0 THEN -c ELSE c) = 1
    BY <1>3
  <2>2. remove_value(q, v, c) = RemoveValue(q, v, c < 0, 1)
    BY <2>1 DEF remove_value
  <2>3. QED
    BY <1>3, <2>2, RemoveNextHolds
<1>4. QED
  BY <1>2, <1>3

-----------------------------------------------------------------------------
(* What a quicklist answers.                                               *)

(* The ends of two sequences joined.                                       *)
LEMMA JoinedAt ==
  ASSUME NEW S, NEW a \in Seq(S), NEW b \in Seq(S)
  PROVE  /\ a # <<>> => (a \o b)[1] = a[1]
         /\ b # <<>> => (a \o b)[Len(a \o b)] = b[Len(b)]
<1>1. PICK N \in Nat : N = Len(a)
  OBVIOUS
<1>2. PICK M \in Nat : M = Len(b)
  OBVIOUS
<1>3. Len(a \o b) = N + M /\ \A i \in 1..N+M : (a \o b)[i] = IF i <= N THEN a[i] ELSE b[i - N]
  BY <1>1, <1>2, ConcatProperties
<1>4. ASSUME a # <<>> PROVE (a \o b)[1] = a[1]
  <2>1. 1 \in 1..N+M /\ 1 <= N
    BY <1>1, <1>2, <1>4, NotEmpty
  <2>2. QED
    BY <1>3, <2>1
<1>5. ASSUME b # <<>> PROVE (a \o b)[Len(a \o b)] = b[Len(b)]
  <2>1. N + M \in 1..N+M /\ ~(N + M <= N) /\ (N + M) - N = M
    BY <1>1, <1>2, <1>5, NotEmpty
  <2>2. QED
    BY <1>2, <1>3, <2>1
<1>6. QED
  BY <1>4, <1>5

(* The first element.                                                      *)
LEMMA HeadIs ==
  ASSUME NEW q, NEW s, Holds(q, s)
  PROVE  qlHead(q) = IF s = <<>> THEN Nil ELSE s[1]
<1>1. CASE s = <<>>
  BY <1>1, NodesThere DEF qlHead
<1>2. CASE s # <<>>
  <2>1. q.nodes # <<>>
    BY <1>2, NodesThere
  <2> DEFINE e == q.nodes[1].elems
             y == FlatOf(Tail(q.nodes))
  <2>2. q.nodes[1] \in QlNode /\ s = e \o y /\ e \in Seq(QLValues) /\ y \in Seq(QLValues)
    BY <2>1, HeadNode
  <2>3. e # <<>>
    BY <2>2, NodeType
  <2>4. qlHead(q) = e[1]
    BY <2>1 DEF qlHead
  <2> HIDE DEF e, y
  <2>5. s[1] = e[1]
    BY <2>2, <2>3, JoinedAt
  <2>6. QED
    BY <1>2, <2>4, <2>5
<1>3. QED
  BY <1>1, <1>2

(* The last element.                                                       *)
LEMMA TailIs ==
  ASSUME NEW q, NEW s, Holds(q, s)
  PROVE  qlTail(q) = IF s = <<>> THEN Nil ELSE s[Len(s)]
<1>1. CASE s = <<>>
  BY <1>1, NodesThere DEF qlTail
<1>2. CASE s # <<>>
  <2>1. q.nodes # <<>>
    BY <1>2, NodesThere
  <2> DEFINE n == Seqs!Last(q.nodes)
             e == n.elems
             x == FlatOf(Seqs!Front(q.nodes))
  <2>2. n \in QlNode /\ s = x \o e /\ e \in Seq(QLValues) /\ x \in Seq(QLValues)
    BY <2>1, LastNode
  <2>3. e # <<>>
    BY <2>2, NodeType
  <2>4. qlTail(q) = Seqs!Last(e)
    BY <2>1 DEF qlTail
  <2> HIDE DEF e, x
  <2>5. s[Len(s)] = e[Len(e)]
    BY <2>2, <2>3, JoinedAt
  <2>6. QED
    BY <1>2, <2>4, <2>5 DEF Seqs!Last
<1>3. QED
  BY <1>1, <1>2

(* Indices from either end.                                                *)
LEMMA NormalizeAny ==
  ASSUME NEW q, NEW s, Holds(q, s), NEW i \in Int
  PROVE  /\ i \in 0..Len(s)-1 => normalize(q, i) = i
         /\ i \in -Len(s)..-1 => normalize(q, i) = Len(s) + i
         /\ ~(i \in 0..Len(s)-1) /\ ~(i \in -Len(s)..-1) => normalize(q, i) = Nil
<1>1. PICK N \in Nat : N = Len(s) /\ q.count = N
  BY HoldsType
<1>2. PICK j \in Int : j = IF i < 0 THEN i + N ELSE i
  BY <1>1
<1>3. normalize(q, i) = IF j \in 0 .. N - 1 THEN j ELSE Nil
  BY <1>1, <1>2 DEF normalize
<1>4. /\ i \in 0..N-1 => j \in 0..N-1 /\ j = i
      /\ i \in -N..-1 => j \in 0..N-1 /\ j = N + i
      /\ ~(i \in 0..N-1) /\ ~(i \in -N..-1) => ~(j \in 0..N-1)
  BY <1>2
<1>5. QED
  BY <1>1, <1>3, <1>4

(* The element at an index, and the list from there on.                    *)
LEMMA ElementAt ==
  ASSUME NEW q, NEW s, Holds(q, s), NEW index, NEW j \in 0..Len(s)-1, normalize(q, index) = j
  PROVE  /\ qlIndex(q, index) = s[j + 1]
         /\ qlIterFrom(q, index) = SubSeq(s, j + 1, Len(s))
<1>0. s \in Seq(QLValues) /\ q.nodes \in Seq(QlNode) /\ q.count = Len(s)
  BY HoldsType
<1>1. PICK N \in Nat : N = Len(s)
  BY HoldsType
<1>2. j \in Nat /\ j # Nil /\ j \in 0..N-1
  BY <1>1, QuicklistConstants DEF QuicklistConstants
<1>3. PICK k \in 1..Len(q.nodes), off \in Nat : locate(q, j) = <<k, off>> /\ Place(q.nodes, j, k, off)
  BY LocateFinds
<1>4. locate(q, j) # Nil /\ locate(q, j)[1] = k /\ locate(q, j)[2] = off
  BY <1>3, LocateFinds
<1> DEFINE e == q.nodes[k].elems
           y == FlatOf(Without(q.nodes, k))
           w == Without(e, off)
<1>5. CutAtPlace(q, s, j, k, off) /\ off < Len(e)
  BY <1>3, PlaceSplits DEF Place
<1>6. /\ e \in Seq(QLValues) /\ Len(e) \in Nat /\ off \in 0..Len(e) /\ off \in 0..Len(e)-1
      /\ w \in Seq(QLValues) /\ Len(w) = Len(e) - off /\ Without(s, j) = w \o y
  <2>1. q.nodes[k] \in QlNode /\ Len(e) \in Nat /\ off \in 0..Len(e)
        /\ w \in Seq(QLValues) /\ Len(w) = Len(e) - off /\ Without(s, j) = w \o y
    BY <1>5 DEF CutAtPlace
  <2>2. e \in Seq(QLValues)
    BY <2>1, NodeType
  <2>3. off \in 0..Len(e)-1
    BY <1>5, <2>1
  <2>4. QED
    BY <2>1, <2>2, <2>3
<1>7. y \in Seq(QLValues)
  <2>1. k \in 0..Len(q.nodes) /\ Len(q.nodes) \in Nat
    BY <1>0
  <2>2. Without(q.nodes, k) \in Seq(QlNode)
    BY <1>0, <2>1, WithoutType
  <2>3. QED
    BY <2>2, FlatOfType
<1>8. qlIndex(q, index) = e[off + 1]
  BY <1>2, <1>4, <1>6 DEF qlIndex
<1>9. e[off + 1] = s[j + 1]
  <2> HIDE DEF e, y
  <2>1. PICK M \in Nat : M = Len(e)
    BY <1>6
  <2>2. 1 \in 1..M-off /\ 1 \in 1..N-j /\ j \in 0..N
    BY <1>2, <1>6, <2>1
  <2>3. w[1] = e[off + 1]
    <3>1. \A i \in 1..M-off : w[i] = e[off + i]
      BY <1>6, <2>1, WithoutType
    <3>2. QED
      BY <2>2, <3>1
  <2>4. Without(s, j)[1] = s[j + 1]
    <3>1. \A i \in 1..N-j : Without(s, j)[i] = s[j + i]
      BY <1>0, <1>1, <2>2, WithoutType
    <3>2. QED
      BY <2>2, <3>1
  <2> HIDE DEF w
  <2>5. Len(w) >= 1
    BY <1>6, <2>1, <2>2
  <2>6. w # <<>>
    BY <1>6, <2>5, NotEmpty
  <2>7. (w \o y)[1] = w[1]
    BY <1>6, <1>7, <2>6, JoinedAt
  <2>8. QED
    BY <1>6, <2>3, <2>4, <2>7
<1> DEFINE rest == [m \in 1 .. Len(q.nodes) - k |-> q.nodes[k + m].elems]
<1>10. Seqs!FlattenSeq(rest) = y
  <2>1. k \in 0..Len(q.nodes) /\ Len(q.nodes) \in Nat
    BY <1>0
  <2>2. Without(q.nodes, k) \in Seq(QlNode) /\ Len(Without(q.nodes, k)) = Len(q.nodes) - k
        /\ \A i \in 1..Len(q.nodes)-k : Without(q.nodes, k)[i] = q.nodes[k + i]
    BY <1>0, <2>1, WithoutType
  <2>3. DOMAIN Without(q.nodes, k) = 1..Len(q.nodes)-k
    BY <2>2
  <2>4. ElemsOf(Without(q.nodes, k)) = rest
    BY <2>2, <2>3 DEF ElemsOf
  <2>5. QED
    BY <2>4 DEF FlatOf
<1>11. qlIterFrom(q, index) = SubSeq(w \o y, 1, Len(s) - j)
  <2>1. qlIterFrom(q, index) = SubSeq(w \o Seqs!FlattenSeq(rest), 1, q.count - j)
    BY <1>2, <1>4 DEF qlIterFrom, Without
  <2>2. QED
    BY <1>0, <1>10, <2>1
<1>12. SubSeq(w \o y, 1, Len(s) - j) = Without(s, j)
  <2> HIDE DEF w, y
  <2>1. j \in 0..Len(s)
    BY <1>1, <1>2
  <2>2. Without(s, j) \in Seq(QLValues) /\ Len(Without(s, j)) = Len(s) - j
    BY <1>0, <2>1, WithoutType
  <2>3. SubSeq(Without(s, j), 1, Len(Without(s, j))) = Without(s, j)
    BY <2>2, SubSeqFull
  <2>4. QED
    BY <1>6, <2>2, <2>3
<1>13. QED
  BY <1>8, <1>9, <1>11, <1>12 DEF Without

(* LINDEX.                                                                 *)
LEMMA IndexIs ==
  ASSUME NEW q, NEW s, Holds(q, s), NEW i \in Int
  PROVE  qlIndex(q, i) = IF i \in 0 .. Len(s) - 1 THEN s[i + 1]
                         ELSE IF i \in -Len(s) .. -1 THEN s[Len(s) + i + 1] ELSE Nil
<1>1. PICK N \in Nat : N = Len(s)
  BY HoldsType
<1>2. CASE i \in 0..Len(s)-1
  <2>1. normalize(q, i) = i
    BY <1>2, NormalizeAny
  <2>2. QED
    BY <1>2, <2>1, ElementAt
<1>3. CASE i \in -Len(s)..-1
  <2>1. PICK j \in Int : j = Len(s) + i
    BY <1>1
  <2>2. j \in 0..Len(s)-1 /\ ~(i \in 0..Len(s)-1)
    BY <1>1, <1>3, <2>1
  <2>3. normalize(q, i) = j
    BY <1>3, <2>1, NormalizeAny
  <2>4. qlIndex(q, i) = s[j + 1]
    BY <2>2, <2>3, ElementAt
  <2>5. QED
    BY <1>3, <2>1, <2>2, <2>4
<1>4. CASE ~(i \in 0..Len(s)-1) /\ ~(i \in -Len(s)..-1)
  <2>1. normalize(q, i) = Nil
    BY <1>4, NormalizeAny
  <2>2. QED
    BY <1>4, <2>1 DEF qlIndex
<1>5. QED
  BY <1>2, <1>3, <1>4

Found(q, s, v) ==
  LET hits == {k \in 0 .. Len(s) - 1 : s[k + 1] = v}
  IN IF hits = {} THEN position(q, v) = Nil /\ rposition(q, v) = Nil
     ELSE /\ position(q, v) \in hits /\ rposition(q, v) \in hits
          /\ \A k \in hits : position(q, v) <= k /\ k <= rposition(q, v)

(* LPOS, as the property has it.                                           *)
LEMMA FoundHolds ==
  ASSUME NEW q, NEW s, Holds(q, s), NEW v
  PROVE  Found(q, s, v)
<1>1. PICK N \in Nat : N = Len(s)
  BY HoldsType
<1> DEFINE hits == {k \in 0 .. Len(s) - 1 : s[k + 1] = v}
<1>2. \A k \in Equal(s, v) : k \in 1..N /\ k - 1 \in hits
  BY <1>1 DEF Equal
<1>3. \A k \in hits : k \in 0..N-1 /\ k + 1 \in Equal(s, v)
  BY <1>1 DEF Equal
<1> HIDE DEF hits
<1>4. hits = {} <=> Equal(s, v) = {}
  BY <1>2, <1>3
<1>5. CASE Equal(s, v) = {}
  <2>1. position(q, v) = Nil /\ rposition(q, v) = Nil
    BY <1>5, PositionIs, RpositionIs
  <2>2. QED
    BY <1>4, <1>5, <2>1 DEF Found, hits
<1>6. CASE Equal(s, v) # {}
  <2>1. PICK p \in 1..Len(s) : FirstEqual(s, v, p) /\ position(q, v) = p - 1
    BY <1>6, PositionIs
  <2>2. PICK r \in 1..Len(s) : LastEqual(s, v, r) /\ rposition(q, v) = r - 1
    BY <1>6, RpositionIs
  <2>3. p \in Equal(s, v) /\ r \in Equal(s, v)
    BY <2>1, <2>2 DEF FirstEqual, LastEqual
  <2>4. p - 1 \in hits /\ r - 1 \in hits
    BY <1>2, <2>3
  <2>5. ASSUME NEW k \in hits PROVE p - 1 <= k /\ k <= r - 1
    <3>1. p <= k + 1 /\ k + 1 <= r /\ k \in Int
      BY <1>3, <2>1, <2>2 DEF FirstEqual, LastEqual
    <3>2. p \in Int /\ r \in Int
      OBVIOUS
    <3>3. QED
      BY <3>1, <3>2
  <2>6. hits # {}
    BY <1>4, <1>6
  <2>7. /\ position(q, v) \in hits /\ rposition(q, v) \in hits
        /\ \A k \in hits : position(q, v) <= k /\ k <= rposition(q, v)
    BY <2>1, <2>2, <2>4, <2>5
  <2>8. QED
    BY <2>6, <2>7 DEF Found, hits
<1>7. QED
  BY <1>5, <1>6

(* A quicklist that holds the list answers as the list does.               *)
LEMMA HoldsAnswers == Holds(ql, qlAbs) => QuicklistHoldsTheList
<1> SUFFICES ASSUME Holds(ql, qlAbs) PROVE QuicklistHoldsTheList
  OBVIOUS
<1> DEFINE n == Len(qlAbs)
           at(i) == IF i \in 0 .. n - 1 THEN qlAbs[i + 1]
                    ELSE IF i \in -n .. -1 THEN qlAbs[n + i + 1] ELSE Nil
<1>1. ql.count = n /\ n \in Nat /\ ql.nodes \in Seq(QlNode) /\ qlAbs \in Seq(QLValues)
  BY HoldsType
<1>2. \A k \in DOMAIN ql.nodes : ql.nodes[k].elems # <<>>
                                 /\ (ql.nodes[k].plain => Len(ql.nodes[k].elems) = 1)
  <2> TAKE k \in DOMAIN ql.nodes
  <2>1. ql.nodes[k] \in QlNode
    BY <1>1
  <2>2. QED
    BY <2>1 DEF QlNode
<1>3. qlIter(ql) = qlAbs /\ Len(qlFlat(ql)) = n /\ qlIterRev(ql) = Seqs!Reverse(qlAbs)
  BY IterIs
<1>4. qlHead(ql) = at(0)
  <2>1. CASE qlAbs = <<>>
    <3>1. n = 0
      BY <2>1
    <3>2. QED
      BY <2>1, <3>1, HeadIs
  <2>2. CASE qlAbs # <<>>
    <3>1. 0 \in 0..n-1 /\ 0 + 1 = 1
      BY <1>1, <2>2, NotEmpty
    <3>2. QED
      BY <2>2, <3>1, HeadIs
  <2>3. QED
    BY <2>1, <2>2
<1>5. qlTail(ql) = at(-1)
  <2>1. CASE qlAbs = <<>>
    <3>1. n = 0
      BY <2>1
    <3>2. QED
      BY <2>1, <3>1, TailIs
  <2>2. CASE qlAbs # <<>>
    <3>1. n >= 1
      BY <1>1, <2>2, NotEmpty
    <3>a. ~(-1 \in 0..n-1) /\ -1 \in -n..-1 /\ n + (-1) + 1 = n
      BY <1>1, <3>1
    <3>2. QED
      BY <2>2, <3>a, TailIs
  <2>3. QED
    BY <2>1, <2>2
<1>6. \A i \in -n - 1 .. n : qlIndex(ql, i) = at(i)
  BY <1>1, IndexIs
<1>7. \A i \in 0 .. n - 1 : qlIterFrom(ql, i) = SubSeq(qlAbs, i + 1, n)
  BY NormalizeIs, ElementAt
<1>8. \A v \in QLValues : Found(ql, qlAbs, v)
  BY FoundHolds
<1>9. QED
  BY <1>1, <1>2, <1>3, <1>4, <1>5, <1>6, <1>7, <1>8 DEF QuicklistHoldsTheList, Found

(* A new quicklist is empty.                                               *)
LEMMA NewHolds ==
  ASSUME NEW f \in Int
  PROVE  Holds(qlNew(f), <<>>)
<1>1. qlNew(f) \in QlType /\ qlNew(f).count = 0 /\ qlNew(f).nodes = <<>>
  BY DEF qlNew, QlType
<1>2. QED
  BY <1>1, FlatOfNone DEF Holds

(* One step on from a quicklist and its list.                              *)
QlStep == Becomes(ql, ql', qlAbs')

(* The actions, one by one.                                                *)
LEMMA PushStep ==
  ASSUME Holds(ql, qlAbs), NEW v \in QLValues, QuicklistPush(v)
  PROVE  QlStep
<1>1. CASE ql' = push_head(ql, v) /\ qlAbs' = <<v>> \o qlAbs
  BY <1>1, PushHeadHolds DEF QlStep
<1>2. CASE ql' = push_tail(ql, v) /\ qlAbs' = Append(qlAbs, v)
  BY <1>2, PushTailHolds DEF QlStep
<1>3. QED
  BY <1>1, <1>2 DEF QuicklistPush

LEMMA PopStep ==
  ASSUME Holds(ql, qlAbs), QuicklistPop
  PROVE  QlStep
<1>1. qlAbs # <<>>
  BY DEF QuicklistPop
<1>2. CASE ql' = drop_head(ql) /\ qlAbs' = Tail(qlAbs)
  BY <1>1, <1>2, DropHeadHolds DEF QlStep
<1>3. CASE ql' = drop_tail(ql) /\ qlAbs' = Seqs!Front(qlAbs)
  BY <1>1, <1>3, DropTailHolds DEF QlStep
<1>4. QED
  BY <1>2, <1>3 DEF QuicklistPop

LEMMA SetStep ==
  ASSUME Holds(ql, qlAbs), NEW i \in Int, NEW v \in QLValues, QuicklistSet(i, v)
  PROVE  QlStep
<1>1. PICK N \in Nat : N = Len(qlAbs)
  BY HoldsType
<1>2. i \in -N .. N - 1 /\ ql' = qlSet(ql, i, v)
      /\ qlAbs' = Seqs!ReplaceAt(qlAbs, IF i < 0 THEN Len(qlAbs) + i + 1 ELSE i + 1, v)
  BY <1>1 DEF QuicklistSet
<1>3. -Len(qlAbs) <= i /\ i < Len(qlAbs)
  BY <1>1, <1>2
<1>4. Becomes(ql, qlSet(ql, i, v),
              Seqs!ReplaceAt(qlAbs, IF i < 0 THEN Len(qlAbs) + i + 1 ELSE i + 1, v))
  BY <1>3, SetHolds
<1>5. QED
  BY <1>2, <1>4, Zenon DEF QlStep

LEMMA InsertStep ==
  ASSUME Holds(ql, qlAbs), NEW i \in Int, NEW v \in QLValues, QuicklistInsert(i, v)
  PROVE  QlStep
<1>1. PICK N \in Nat : N = Len(qlAbs)
  BY HoldsType
<1>2. i \in 0..N-1 /\ qlAbs \in Seq(QLValues)
  BY <1>1, HoldsType DEF QuicklistInsert
<1>3. ASSUME NEW j \in 0..Len(qlAbs) PROVE Becomes(ql, qlInsertAt(ql, j, v), Seqs!InsertAt(qlAbs, j + 1, v))
  <2>1. With(qlAbs, j, v) = Seqs!InsertAt(qlAbs, j + 1, v)
    BY <1>2, WithType
  <2>2. Becomes(ql, qlInsertAt(ql, j, v), With(qlAbs, j, v))
    BY InsertAtHolds
  <2>3. QED
    BY <2>1, <2>2
<1>4. CASE ql' = qlInsertAt(ql, i, v) /\ qlAbs' = Seqs!InsertAt(qlAbs, i + 1, v)
  <2>1. i \in 0..Len(qlAbs)
    BY <1>1, <1>2
  <2>2. QED
    BY <1>3, <1>4, <2>1 DEF QlStep
<1>5. CASE ql' = qlInsertAt(ql, i + 1, v) /\ qlAbs' = Seqs!InsertAt(qlAbs, i + 2, v)
  <2>1. i + 1 \in 0..Len(qlAbs) /\ (i + 1) + 1 = i + 2
    BY <1>1, <1>2
  <2>2. Becomes(ql, qlInsertAt(ql, i + 1, v), Seqs!InsertAt(qlAbs, (i + 1) + 1, v))
    BY <1>3, <2>1
  <2>3. QED
    BY <1>5, <2>1, <2>2 DEF QlStep
<1>6. QED
  BY <1>4, <1>5 DEF QuicklistInsert

LEMMA DeleteStep ==
  ASSUME Holds(ql, qlAbs), NEW i, NEW n \in Nat \ {0}, QuicklistDeleteRange(i, n)
  PROVE  QlStep
<1>1. i \in 0..Len(qlAbs)-1 /\ ql' = qlDeleteRange(ql, i, n)
      /\ qlAbs' = SubSeq(qlAbs, 1, i) \o SubSeq(qlAbs, i + n + 1, Len(qlAbs))
  BY DEF QuicklistDeleteRange
<1>2. Becomes(ql, qlDeleteRange(ql, i, n), SubSeq(qlAbs, 1, i) \o SubSeq(qlAbs, i + n + 1, Len(qlAbs)))
  BY <1>1, DeleteRangeHolds
<1>3. QED
  BY <1>1, <1>2, Zenon DEF QlStep

LEMMA RemoveStep ==
  ASSUME Holds(ql, qlAbs), NEW v \in QLValues, NEW c \in -1 .. 1, QuicklistRemoveValue(v, c)
  PROVE  QlStep
<1>1. ql' = remove_value(ql, v, c) /\ qlAbs' = Picked(qlAbs, Kept(qlAbs, v, c))
  BY DEF QuicklistRemoveValue, Picked, Kept, Nth
<1>2. Becomes(ql, remove_value(ql, v, c), Picked(qlAbs, Kept(qlAbs, v, c)))
  BY RemoveValueHolds
<1>3. QED
  BY <1>1, <1>2, Zenon DEF QlStep

LEMMA ClearStep ==
  ASSUME Holds(ql, qlAbs), QuicklistClear
  PROVE  QlStep
<1>1. ql' = Put(ql, <<>>, 0) /\ qlAbs' = <<>>
  BY DEF QuicklistClear, Put, Holds, QlType
<1>2. <<>> \in Seq(QlNode) /\ FlatOf(<<>>) = <<>> /\ Len(<<>>) = 0
  BY FlatOfNone
<1>3. Within(<<>>, ql.nodes, ql.fill)
  BY DEF Within
<1>4. Becomes(ql, Put(ql, <<>>, Len(FlatOf(<<>>))), FlatOf(<<>>))
  BY <1>2, <1>3, PutHolds
<1>5. QED
  BY <1>1, <1>2, <1>4 DEF QlStep

(* A new fill touches no node.                                             *)
LEMMA FillStep ==
  ASSUME Holds(ql, qlAbs), NEW f \in QLFills, QuicklistSetFill(f)
  PROVE  Holds(ql', qlAbs') /\ ql'.nodes = ql.nodes
<1>1. ql \in QlType /\ f \in Int /\ ql' = [ql EXCEPT !.fill = f] /\ qlAbs' = qlAbs
  BY QuicklistConstants DEF Holds, QuicklistSetFill, QuicklistConstants
<1>2. ql' \in QlType /\ ql'.count = ql.count /\ ql'.nodes = ql.nodes
  BY <1>1 DEF QlType
<1>3. QED
  BY <1>1, <1>2 DEF Holds

(* Every action: a step that minds the fill, or one that touches no node.  *)
LEMMA NextStep ==
  ASSUME Holds(ql, qlAbs), qlNext
  PROVE  QlStep \/ (Holds(ql', qlAbs') /\ ql'.nodes = ql.nodes)
<1>1. CASE QuicklistPop
  BY <1>1, PopStep
<1>2. CASE QuicklistClear
  BY <1>2, ClearStep
<1>3. ASSUME NEW v \in QLValues, QuicklistPush(v) PROVE QlStep
  BY <1>3, PushStep
<1>4. ASSUME NEW v \in QLValues, NEW i \in -QLMaxLen .. QLMaxLen, QuicklistSet(i, v) \/ QuicklistInsert(i, v)
      PROVE  QlStep
  <2>1. i \in Int
    OBVIOUS
  <2>2. QED
    BY <1>4, <2>1, SetStep, InsertStep
<1>5. ASSUME NEW v \in QLValues, NEW c \in -1 .. 1, QuicklistRemoveValue(v, c) PROVE QlStep
  BY <1>5, RemoveStep
<1>6. ASSUME NEW i \in 0 .. QLMaxLen, NEW n \in 1 .. QLMaxLen, QuicklistDeleteRange(i, n) PROVE QlStep
  <2>1. n \in Nat \ {0}
    OBVIOUS
  <2>2. QED
    BY <1>6, <2>1, DeleteStep
<1>7. ASSUME NEW f \in QLFills, QuicklistSetFill(f) PROVE Holds(ql', qlAbs') /\ ql'.nodes = ql.nodes
  BY <1>7, FillStep
<1>8. QED
  BY <1>1, <1>2, <1>3, <1>4, <1>5, <1>6, <1>7 DEF qlNext

(* The inductive invariant: the nodes, none of them empty and the plain    *)
(* ones of one element, hold exactly the list, and the cached count is its *)
(* length.                                                                 *)
THEOREM QuicklistInvariant == qlSpec => []Holds(ql, qlAbs)
<1>1. qlInit => Holds(ql, qlAbs)
  BY QuicklistConstants, NewHolds DEF qlInit, QuicklistConstants
<1>2. Holds(ql, qlAbs) /\ [qlNext]_qlVars => Holds(ql, qlAbs)'
  <2> SUFFICES ASSUME Holds(ql, qlAbs), [qlNext]_qlVars PROVE Holds(ql', qlAbs')
    OBVIOUS
  <2>1. CASE qlNext
    BY <2>1, NextStep DEF QlStep, Becomes
  <2>2. CASE UNCHANGED qlVars
    BY <2>2 DEF qlVars
  <2> QED BY <2>1, <2>2
<1> QED BY <1>1, <1>2, PTL DEF qlSpec

(* quicklist.rs is a list: after any pushes, pops, inserts, overwrites,    *)
(* deletions, removals by value and changes of the fill, however nodes     *)
(* were split and merged, count, ends, indexing, iterators and searches    *)
(* answer as the list does.                                                *)
THEOREM QuicklistExact == qlSpec => []QuicklistHoldsTheList
BY QuicklistInvariant, HoldsAnswers, PTL

(* No operation of quicklist.rs makes a packed node fuller than the fill   *)
(* in force allows, unless a node at least as full was there before.       *)
THEOREM QuicklistFill == qlSpec => QuicklistRespectsFill
<1> DEFINE A == LET limit == node_limit(ql'.fill).count
                IN limit # 0 =>
                     \A k \in DOMAIN ql'.nodes :
                       NodeCount(ql'.nodes[k]) > limit =>
                         \E j \in DOMAIN ql.nodes : NodeCount(ql.nodes[j]) >= NodeCount(ql'.nodes[k])
<1>1. Holds(ql, qlAbs) /\ [qlNext]_qlVars => [A]_ql
  <2> SUFFICES ASSUME Holds(ql, qlAbs), qlNext PROVE A
    BY DEF qlVars
  <2>1. CASE QlStep
    BY <2>1 DEF QlStep, Becomes, Within, NodeWithin
  <2>2. CASE Holds(ql', qlAbs') /\ ql'.nodes = ql.nodes
    <3>1. ql.nodes \in Seq(QlNode)
      BY HoldsType
    <3>2. Within(ql.nodes, ql.nodes, ql'.fill)
      BY <3>1, WithinSelf
    <3>3. QED
      BY <2>2, <3>2 DEF Within, NodeWithin
  <2>3. QED
    BY <2>1, <2>2, NextStep
<1> QED BY <1>1, QuicklistInvariant, PTL DEF qlSpec, QuicklistRespectsFill
=============================================================================
