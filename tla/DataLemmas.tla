----------------------------- MODULE DataLemmas ------------------------------
(***************************************************************************)
(* Shared by the proofs about the components: induction and recursion over *)
(* the naturals, cutting sequences, and what flattening a sequence of      *)
(* sequences computes.                                                     *)
(***************************************************************************)
EXTENDS Integers, Option, SequenceTheorems, WellFoundedInduction, TLAPS

(* Every non-empty set of naturals has a least element.                     *)
LEMMA LeastNumber ==
  ASSUME NEW T \in SUBSET Nat, T # {}
  PROVE  \E z \in T : \A y \in T : z <= y
<1> DEFINE R == OpToRel(<, Nat)
<1>1. \A y, z \in Nat : y < z => <<y, z>> \in R
  BY DEF OpToRel
<1>2. IsWellFoundedOn(R, Nat)
  BY NatLessThanWellFounded
<1> HIDE DEF R
<1>3. PICK z \in T : \A y \in T : ~(<<y, z>> \in R)
  BY <1>2, WFMin
<1>4. ASSUME NEW y \in T PROVE z <= y
  <2>1. y \in Nat /\ z \in Nat
    OBVIOUS
  <2>2. ~(y < z)
    BY <1>1, <1>3, <2>1
  <2>3. QED
    BY <2>1, <2>2
<1>5. QED
  BY <1>4

(* ... and a bounded one has a greatest.                                   *)
LEMMA GreatestNumber ==
  ASSUME NEW n \in Nat, NEW T \in SUBSET (0..n), T # {}
  PROVE  \E z \in T : \A y \in T : z >= y
<1> DEFINE U == {u \in Nat : u <= n /\ n - u \in T}
<1>1. \A y \in T : n - y \in U
  <2> SUFFICES ASSUME NEW y \in T PROVE n - y \in U
    OBVIOUS
  <2>1. y \in 0..n /\ n - (n - y) = y
    OBVIOUS
  <2>2. QED
    BY <2>1
<1>2. U \in SUBSET Nat /\ U # {}
  BY <1>1
<1>3. PICK u \in U : \A v \in U : u <= v
  <2> HIDE DEF U
  <2>1. QED
    BY <1>2, LeastNumber
<1>4. n - u \in T /\ u \in Nat
  OBVIOUS
<1>5. ASSUME NEW y \in T PROVE n - u >= y
  <2>1. u <= n - y /\ y \in 0..n
    BY <1>1, <1>3
  <2>2. QED
    BY <1>4, <2>1
<1>6. QED
  BY <1>4, <1>5

(* Induction, with the statement as a set: the provers cannot instantiate  *)
(* the library's, whose parameter is an operator.                          *)
LEMMA Induction ==
  ASSUME NEW S, 0 \in S, \A n \in Nat : n \in S => n + 1 \in S
  PROVE  \A n \in Nat : n \in S
<1> DEFINE T == {n \in Nat : n \notin S}
<1>1. SUFFICES ASSUME T # {} PROVE FALSE
  OBVIOUS
<1>2. PICK z \in T : \A y \in T : z <= y
  BY <1>1, LeastNumber
<1>3. z # 0 /\ z \in Nat
  BY <1>2
<1>4. z - 1 \in Nat /\ z - 1 \notin T /\ (z - 1) + 1 = z
  BY <1>2, <1>3
<1>5. QED
  BY <1>2, <1>4

(* There is a function that starts with a and goes on by step.             *)
Unrolls(A, a, step) ==
  \E g \in [Nat -> A] :
    g[0] = a /\ \A n \in Nat : g[n + 1] = step[<<n, g[n]>>]

(* Primitive recursion defines a function.                                 *)
LEMMA Recursion ==
  ASSUME NEW A, NEW a \in A, NEW step \in [Nat \X A -> A]
  PROVE  Unrolls(A, a, step)
<1> DEFINE H(n, h) == /\ h \in [0..n -> A]
                      /\ h[0] = a
                      /\ \A i \in 0..n-1 : h[i + 1] = step[<<i, h[i]>>]
<1> DEFINE S == {n \in Nat : \E h : H(n, h)}
<1>1. 0 \in S
  <2>1. H(0, [i \in 0..0 |-> a])
    OBVIOUS
  <2>2. QED
    BY <2>1
<1>2. ASSUME NEW n \in Nat, n \in S PROVE n + 1 \in S
  <2>1. PICK h : H(n, h)
    BY <1>2
  <2> DEFINE k == [i \in 0..n+1 |-> IF i <= n THEN h[i] ELSE step[<<n, h[n]>>]]
  <2>2. h[n] \in A /\ step[<<n, h[n]>>] \in A
    BY <2>1
  <2>3. k \in [0..n+1 -> A] /\ k[0] = a
    BY <2>1, <2>2
  <2>4. ASSUME NEW i \in 0..(n+1)-1 PROVE k[i + 1] = step[<<i, k[i]>>]
    BY <2>1, SMTT(30)
  <2>a. n + 1 \in Nat
    OBVIOUS
  <2>5. H(n + 1, k)
    <3> HIDE DEF k
    <3>1. QED
      BY <2>3, <2>4
  <2>6. \E x : H(n + 1, x)
    <3> HIDE DEF k, H
    <3>1. QED
      BY <2>5
  <2>7. QED
    <3> HIDE DEF k, H
    <3>1. QED
      BY <2>a, <2>6
<1>3. \A n \in Nat : n \in S
  <2> HIDE DEF S
  <2>1. QED
    BY <1>1, <1>2, Induction
<1>4. ASSUME NEW n \in Nat, NEW m \in Nat, NEW h, NEW k, H(n, h), H(m, k)
      PROVE  \A i \in Nat : i <= n /\ i <= m => h[i] = k[i]
  <2> DEFINE U == {i \in Nat : i <= n /\ i <= m => h[i] = k[i]}
  <2>1. 0 \in U
    BY <1>4
  <2>2. ASSUME NEW i \in Nat, i \in U PROVE i + 1 \in U
    <3>1. SUFFICES ASSUME i + 1 <= n, i + 1 <= m PROVE h[i + 1] = k[i + 1]
      OBVIOUS
    <3>2. h[i] = k[i] /\ i \in 0..n-1 /\ i \in 0..m-1
      BY <2>2, <3>1
    <3>3. QED
      BY <1>4, <3>2
  <2>3. \A i \in Nat : i \in U
    <3> HIDE DEF U
    <3>1. QED
      BY <2>1, <2>2, Induction
  <2>4. QED
    BY <2>3
<1> DEFINE c(n) == CHOOSE h : H(n, h)
<1> DEFINE g == [n \in Nat |-> c(n)[n]]
<1>5. \A n \in Nat : H(n, c(n))
  BY <1>3
<1> HIDE DEF c
<1>6. g \in [Nat -> A]
  <2>1. \A n \in Nat : c(n)[n] \in A
    BY <1>5
  <2>2. QED
    BY <2>1
<1>7. g[0] = a
  BY <1>5
<1>8. ASSUME NEW n \in Nat PROVE g[n + 1] = step[<<n, g[n]>>]
  <2>1. H(n, c(n)) /\ H(n + 1, c(n + 1)) /\ n + 1 \in Nat
    BY <1>5
  <2>2. c(n)[n] = c(n + 1)[n]
    <3> HIDE DEF H
    <3>1. n <= n /\ n <= n + 1
      OBVIOUS
    <3>2. QED
      BY <1>4, <2>1, <3>1
  <2>3. c(n + 1)[n + 1] = step[<<n, c(n + 1)[n]>>]
    BY <2>1
  <2>4. QED
    BY <2>2, <2>3
<1>9. QED
  BY <1>6, <1>7, <1>8 DEF Unrolls

(* step gives the value at x from the function itself, of which it looks   *)
(* only at points where the measure m is smaller.                          *)
Measured(S, A, m, step) ==
  /\ m \in [S -> Nat]
  /\ step \in [S \X [S -> A] -> A]
  /\ \A x \in S : \A g, h \in [S -> A] :
       (\A y \in S : m[y] < m[x] => g[y] = h[y]) => step[<<x, g>>] = step[<<x, h>>]

Solvable(S, A, step) == \E f \in [S -> A] : \A x \in S : f[x] = step[<<x, f>>]

(* Recursion along a measure defines a function.                           *)
LEMMA MeasuredRecursion ==
  ASSUME NEW S, NEW A, NEW a \in A, NEW m, NEW step, Measured(S, A, m, step)
  PROVE  Solvable(S, A, step)
<1>0. /\ m \in [S -> Nat] /\ step \in [S \X [S -> A] -> A]
      /\ \A x \in S : \A g, h \in [S -> A] :
           (\A y \in S : m[y] < m[x] => g[y] = h[y]) => step[<<x, g>>] = step[<<x, h>>]
  BY DEF Measured
<1> DEFINE B == [S -> A]
           b == [x \in S |-> a]
           turn(g) == [x \in S |-> step[<<x, g>>]]
           next == [p \in Nat \X B |-> turn(p[2])]
<1>1. b \in B
  OBVIOUS
<1>2. \A g \in B : turn(g) \in B
  BY <1>0
<1>3. next \in [Nat \X B -> B] /\ \A n \in Nat : \A g \in B : next[<<n, g>>] = turn(g)
  <2> HIDE DEF B, turn
  <2>1. QED
    BY <1>2
<1>4. PICK G \in [Nat -> B] : G[0] = b /\ \A n \in Nat : G[n + 1] = next[<<n, G[n]>>]
  <2> HIDE DEF B, b, next
  <2>1. Unrolls(B, b, next)
    BY <1>1, <1>3, Recursion
  <2>2. QED
    BY <2>1 DEF Unrolls
<1>5. ASSUME NEW n \in Nat PROVE G[n] \in B /\ \A x \in S : G[n + 1][x] = step[<<x, G[n]>>]
  <2>1. G[n] \in B /\ G[n + 1] = turn(G[n])
    <3> HIDE DEF B, turn, next
    <3>1. QED
      BY <1>3, <1>4
  <2>2. QED
    BY <2>1
<1> HIDE DEF next
<1> DEFINE Settled(n) == \A x \in S : \A k \in Nat : m[x] < n /\ n <= k => G[k][x] = G[n][x]
           T == {n \in Nat : Settled(n)}
<1>6. 0 \in T
  BY <1>0
<1>7. ASSUME NEW n \in Nat, n \in T PROVE n + 1 \in T
  <2>1. ASSUME NEW x \in S, NEW k \in Nat, m[x] < n + 1, n + 1 <= k
        PROVE  G[k][x] = G[n + 1][x]
    <3>1. k - 1 \in Nat /\ (k - 1) + 1 = k /\ n <= k - 1
      BY <2>1
    <3>2. G[k][x] = step[<<x, G[k - 1]>>] /\ G[n + 1][x] = step[<<x, G[n]>>]
          /\ G[k - 1] \in B /\ G[n] \in B
      BY <1>5, <3>1
    <3>3. ASSUME NEW y \in S, m[y] < m[x] PROVE G[k - 1][y] = G[n][y]
      <4>1. m[y] < n
        BY <1>0, <2>1, <3>3
      <4>2. QED
        BY <1>7, <3>1, <4>1
    <3>4. QED
      BY <1>0, <3>2, <3>3
  <2>2. Settled(n + 1)
    BY <2>1
  <2>3. QED
    <3> HIDE DEF Settled
    <3>1. QED
      BY <2>2
<1>8. \A n \in Nat : Settled(n)
  <2> HIDE DEF Settled
  <2>1. \A n \in Nat : n \in T
    <3> HIDE DEF T
    <3>1. QED
      BY <1>6, <1>7, Induction
  <2>2. QED
    BY <2>1
<1> DEFINE f == [x \in S |-> G[m[x] + 1][x]]
<1>9. f \in B
  <2>1. ASSUME NEW x \in S PROVE G[m[x] + 1][x] \in A
    <3>1. m[x] + 1 \in Nat
      BY <1>0
    <3>2. G[m[x] + 1] \in B
      BY <1>5, <3>1
    <3>3. QED
      BY <3>2
  <2>2. QED
    BY <2>1
<1>10. ASSUME NEW x \in S PROVE f[x] = step[<<x, f>>]
  <2>1. G[m[x]] \in B /\ f[x] = step[<<x, G[m[x]]>>]
    BY <1>0, <1>5
  <2>2. ASSUME NEW y \in S, m[y] < m[x] PROVE G[m[x]][y] = f[y]
    <3>1. m[y] + 1 \in Nat /\ m[x] \in Nat /\ m[y] < m[y] + 1 /\ m[y] + 1 <= m[x]
      BY <1>0, <2>2
    <3>2. QED
      BY <1>8, <3>1
  <2> HIDE DEF f
  <2>3. QED
    BY <1>0, <1>9, <2>1, <2>2
<1>11. QED
  BY <1>9, <1>10 DEF Solvable

-----------------------------------------------------------------------------
(* Sequences cut in two.                                                   *)

(* A sequence without its first n elements.                                *)
Without(s, n) == SubSeq(s, n + 1, Len(s))

LEMMA WithoutType ==
  ASSUME NEW S, NEW s \in Seq(S), NEW n \in 0..Len(s)
  PROVE  /\ Without(s, n) \in Seq(S)
         /\ Len(Without(s, n)) = Len(s) - n
         /\ \A i \in 1..Len(s)-n : Without(s, n)[i] = s[n + i]
<1>1. Len(s) \in Nat /\ n + 1 \in Int /\ Len(s) \in Int
  OBVIOUS
<1>2. \A i \in n+1 .. Len(s) : s[i] \in S
  OBVIOUS
<1>3. /\ SubSeq(s, n+1, Len(s)) \in Seq(S)
      /\ Len(SubSeq(s, n+1, Len(s))) = IF n+1 <= Len(s) THEN Len(s)-(n+1)+1 ELSE 0
      /\ \A i \in 1..Len(s)-(n+1)+1 : SubSeq(s, n+1, Len(s))[i] = s[(n+1)+i-1]
  BY <1>1, <1>2, SubSeqProperties
<1>4. QED
  BY <1>1, <1>3 DEF Without

LEMMA FrontType ==
  ASSUME NEW S, NEW s \in Seq(S), NEW n \in 0..Len(s)
  PROVE  /\ SubSeq(s, 1, n) \in Seq(S)
         /\ Len(SubSeq(s, 1, n)) = n
         /\ \A i \in 1..n : SubSeq(s, 1, n)[i] = s[i]
<1>1. Len(s) \in Nat /\ n \in Int /\ 1 \in Int
  OBVIOUS
<1>2. \A i \in 1..n : s[i] \in S
  OBVIOUS
<1>3. /\ SubSeq(s, 1, n) \in Seq(S)
      /\ Len(SubSeq(s, 1, n)) = IF 1 <= n THEN n-1+1 ELSE 0
      /\ \A i \in 1..n-1+1 : SubSeq(s, 1, n)[i] = s[1+i-1]
  BY <1>1, <1>2, SubSeqProperties
<1>4. QED
  BY <1>1, <1>3

LEMMA FrontAndRest ==
  ASSUME NEW S, NEW s \in Seq(S), NEW n \in 0..Len(s)
  PROVE  s = SubSeq(s, 1, n) \o Without(s, n)
<1> DEFINE a == SubSeq(s, 1, n)
           b == Without(s, n)
<1>1. a \in Seq(S) /\ Len(a) = n /\ \A i \in 1..n : a[i] = s[i]
  BY FrontType
<1>2. b \in Seq(S) /\ Len(b) = Len(s) - n /\ \A i \in 1..Len(s)-n : b[i] = s[n + i]
  BY WithoutType
<1> HIDE DEF a, b
<1>3. a \o b \in Seq(S) /\ Len(a \o b) = Len(s)
  BY <1>1, <1>2, SMTT(30)
<1>4. ASSUME NEW i \in 1..Len(s) PROVE s[i] = (a \o b)[i]
  <2>1. Len(s) \in Nat /\ i \in 1..Len(a)+Len(b)
    BY <1>1, <1>2
  <2>2. (a \o b)[i] = IF i <= Len(a) THEN a[i] ELSE b[i - Len(a)]
    BY <1>1, <1>2, <2>1, ConcatProperties
  <2>3. CASE i <= n
    BY <1>1, <2>1, <2>2, <2>3
  <2>4. CASE ~(i <= n)
    <3>1. i - n \in 1..Len(s)-n /\ n + (i - n) = i
      BY <2>1, <2>4
    <3>2. QED
      BY <1>1, <1>2, <2>2, <2>4, <3>1
  <2>5. QED
    BY <2>3, <2>4
<1>5. QED
  BY <1>3, <1>4, SeqEqual DEF a, b

LEMMA WithoutLeft ==
  ASSUME NEW S, NEW a \in Seq(S), NEW b \in Seq(S), NEW n \in 0..Len(a)
  PROVE  Without(a \o b, n) = Without(a, n) \o b
<1> DEFINE c == a \o b
           x == Without(c, n)
           y == Without(a, n)
<1>1. c \in Seq(S) /\ Len(c) = Len(a) + Len(b) /\ n \in 0..Len(c)
      /\ \A i \in 1..Len(a)+Len(b) : c[i] = IF i <= Len(a) THEN a[i] ELSE b[i - Len(a)]
  BY ConcatProperties
<1> HIDE DEF c
<1>2. x \in Seq(S) /\ Len(x) = Len(c) - n /\ \A i \in 1..Len(c)-n : x[i] = c[n + i]
  BY <1>1, WithoutType
<1>3. y \in Seq(S) /\ Len(y) = Len(a) - n /\ \A i \in 1..Len(a)-n : y[i] = a[n + i]
  BY WithoutType
<1> HIDE DEF x, y
<1>4. /\ y \o b \in Seq(S) /\ Len(y \o b) = Len(x)
      /\ \A i \in 1..Len(y)+Len(b) : (y \o b)[i] = IF i <= Len(y) THEN y[i] ELSE b[i - Len(y)]
  <2>1. /\ y \o b \in Seq(S) /\ Len(y \o b) = Len(y) + Len(b)
        /\ \A i \in 1..Len(y)+Len(b) : (y \o b)[i] = IF i <= Len(y) THEN y[i] ELSE b[i - Len(y)]
    BY <1>3, ConcatProperties
  <2>2. Len(y) + Len(b) = Len(x)
    BY <1>1, <1>2, <1>3
  <2>3. QED
    BY <2>1, <2>2
<1>5. ASSUME NEW i \in 1..Len(x) PROVE x[i] = (y \o b)[i]
  <2>1. /\ Len(a) \in Nat /\ Len(b) \in Nat
        /\ i \in 1..Len(c)-n /\ n + i \in 1..Len(a)+Len(b) /\ i \in 1..Len(y)+Len(b)
        /\ (n + i <= Len(a) <=> i <= Len(y)) /\ (n + i) - Len(a) = i - Len(y)
    BY <1>1, <1>2, <1>3
  <2>2. i <= Len(y) => i \in 1..Len(a)-n
    BY <1>3, <2>1
  <2>3. QED
    BY <1>1, <1>2, <1>3, <1>4, <2>1, <2>2
<1>6. QED
  BY <1>2, <1>4, <1>5, SeqEqual DEF x, y, c

LEMMA WithoutAll ==
  ASSUME NEW S, NEW a \in Seq(S), NEW b \in Seq(S), NEW n \in 0..Len(b)
  PROVE  Without(a \o b, Len(a) + n) = Without(b, n)
<1> DEFINE c == a \o b
           m == Len(a) + n
           x == Without(c, m)
           y == Without(b, n)
<1>1. c \in Seq(S) /\ Len(c) = Len(a) + Len(b) /\ m \in 0..Len(c)
      /\ \A i \in 1..Len(a)+Len(b) : c[i] = IF i <= Len(a) THEN a[i] ELSE b[i - Len(a)]
  BY ConcatProperties
<1>2. m = Len(a) + n
  OBVIOUS
<1> HIDE DEF c, m
<1>3. x \in Seq(S) /\ Len(x) = Len(c) - m /\ \A i \in 1..Len(c)-m : x[i] = c[m + i]
  BY <1>1, WithoutType
<1>4. y \in Seq(S) /\ Len(y) = Len(b) - n /\ \A i \in 1..Len(b)-n : y[i] = b[n + i]
  BY WithoutType
<1> HIDE DEF x, y
<1>5. Len(x) = Len(y)
  BY <1>1, <1>2, <1>3, <1>4
<1>6. ASSUME NEW i \in 1..Len(x) PROVE x[i] = y[i]
  <2>1. /\ Len(a) \in Nat /\ Len(b) \in Nat
        /\ i \in 1..Len(c)-m /\ m + i \in 1..Len(a)+Len(b) /\ i \in 1..Len(b)-n
        /\ ~(m + i <= Len(a)) /\ (m + i) - Len(a) = n + i
    BY <1>1, <1>2, <1>3
  <2>2. QED
    BY <1>1, <1>3, <1>4, <2>1
<1>7. QED
  BY <1>3, <1>4, <1>5, <1>6, SeqEqual DEF x, y, c, m

LEMMA WithoutTwice ==
  ASSUME NEW S, NEW s \in Seq(S), NEW m \in Nat, NEW n \in Nat, m + n <= Len(s)
  PROVE  Without(Without(s, m), n) = Without(s, m + n)
<1> DEFINE a == Without(s, m)
           x == Without(a, n)
           y == Without(s, m + n)
<1>1. m \in 0..Len(s) /\ m + n \in 0..Len(s) /\ n \in 0..Len(s)-m
  OBVIOUS
<1>2. a \in Seq(S) /\ Len(a) = Len(s) - m /\ \A i \in 1..Len(s)-m : a[i] = s[m + i]
  BY <1>1, WithoutType
<1>3. y \in Seq(S) /\ Len(y) = Len(s) - (m + n)
      /\ \A i \in 1..Len(s)-(m+n) : y[i] = s[(m + n) + i]
  BY <1>1, WithoutType
<1> HIDE DEF a, y
<1>4. x \in Seq(S) /\ Len(x) = Len(a) - n /\ \A i \in 1..Len(a)-n : x[i] = a[n + i]
  <2>1. n \in 0..Len(a)
    BY <1>1, <1>2
  <2>2. QED
    BY <1>2, <2>1, WithoutType, SMTT(30)
<1> HIDE DEF x
<1>5. ASSUME NEW i \in 1..Len(x) PROVE x[i] = y[i]
  <2>1. i \in 1..Len(a)-n /\ n + i \in 1..Len(s)-m /\ i \in 1..Len(s)-(m+n)
        /\ m + (n + i) = (m + n) + i
    BY <1>1, <1>2, <1>4
  <2>2. QED
    BY <1>2, <1>3, <1>4, <2>1
<1>6. QED
  BY <1>2, <1>3, <1>4, <1>5, SeqEqual DEF x, y, a

LEMMA FrontLeft ==
  ASSUME NEW S, NEW a \in Seq(S), NEW b \in Seq(S), NEW n \in 0..Len(a)
  PROVE  SubSeq(a \o b, 1, n) = SubSeq(a, 1, n)
<1> DEFINE x == SubSeq(a \o b, 1, n)
           y == SubSeq(a, 1, n)
<1>1. a \o b \in Seq(S) /\ Len(a \o b) = Len(a) + Len(b) /\ n \in 0..Len(a \o b)
      /\ \A i \in 1..Len(a) : (a \o b)[i] = a[i]
  BY ConcatProperties
<1>2. x \in Seq(S) /\ Len(x) = n /\ \A i \in 1..n : x[i] = (a \o b)[i]
  BY <1>1, FrontType
<1>3. y \in Seq(S) /\ Len(y) = n /\ \A i \in 1..n : y[i] = a[i]
  BY FrontType
<1> HIDE DEF x, y
<1>4. QED
  BY <1>1, <1>2, <1>3, SeqEqual DEF x, y

-----------------------------------------------------------------------------
(* What FlattenSeq computes: the concatenation, frame by frame.            *)

Accumulates(F, q) ==
  \A i \in 1..Len(q) : F[i] = IF i = 1 THEN q[1] ELSE F[i - 1] \o q[i]

Starts(q, r) ==
  /\ Len(q) \in Nat /\ Len(r) \in Nat /\ Len(q) <= Len(r)
  /\ \A i \in 1..Len(q) : q[i] = r[i]

LEMMA FlattenUnrolls ==
  ASSUME NEW S, NEW q \in Seq(Seq(S)), q # <<>>
  PROVE  \E F \in [1..Len(q) -> Seq(S)] :
           Accumulates(F, q) /\ Seqs!FlattenSeq(q) = F[Len(q)]
<1> DEFINE A == Seq(S)
           next(n, x) == IF n + 2 <= Len(q) THEN x \o q[n + 2] ELSE x
           step == [p \in Nat \X A |-> next(p[1], p[2])]
<1>1. Len(q) \in Nat \ {0} /\ \A i \in 1..Len(q) : q[i] \in A
  OBVIOUS
<1>2. ASSUME NEW n \in Nat, NEW x \in A PROVE next(n, x) \in A
  BY <1>1
<1>3. \A n \in Nat : \A x \in A : step[<<n, x>>] = next(n, x)
  <2> HIDE DEF A, next
  <2>1. QED
    OBVIOUS
<1>4. step \in [Nat \X A -> A]
  <2> HIDE DEF A, next
  <2>1. QED
    BY <1>2
<1>5. PICK g \in [Nat -> A] :
        g[0] = q[1] /\ \A n \in Nat : g[n + 1] = step[<<n, g[n]>>]
  <2>1. q[1] \in A
    BY <1>1
  <2> HIDE DEF A, step
  <2>2. Unrolls(A, q[1], step)
    BY <1>4, <2>1, Recursion
  <2>3. QED
    BY <2>2 DEF Unrolls
<1> DEFINE G == [i \in 1..Len(q) |-> g[i - 1]]
<1>6. G \in [1..Len(q) -> A]
  <2> HIDE DEF A
  <2>1. QED
    BY <1>1, <1>5
<1>7. ASSUME NEW i \in 1..Len(q)
      PROVE  G[i] = IF i = 1 THEN q[i] ELSE G[i - 1] \o q[i]
  <2>1. CASE i = 1
    BY <1>5, <2>1
  <2>2. CASE i # 1
    <3>1. /\ i - 2 \in Nat /\ (i - 2) + 1 = i - 1 /\ (i - 2) + 2 = i
          /\ i - 1 \in 1..Len(q) /\ (i - 1) - 1 = i - 2 /\ i <= Len(q)
      BY <1>1, <2>2
    <3>2. g[i - 2] \in A /\ g[i - 1] = step[<<i - 2, g[i - 2]>>]
      <4> HIDE DEF A, step
      <4>1. QED
        BY <1>5, <3>1
    <3>3. g[i - 1] = next(i - 2, g[i - 2])
      <4> HIDE DEF A, step, next
      <4>1. QED
        BY <1>3, <3>1, <3>2
    <3>4. g[i - 1] = g[i - 2] \o q[i]
      BY <3>1, <3>3
    <3>5. QED
      BY <2>2, <3>1, <3>4
  <2>3. QED
    BY <2>1, <2>2
<1> HIDE DEF G
<1>8. G = [i \in 1..Len(q) |-> IF i = 1 THEN q[i] ELSE G[i - 1] \o q[i]]
  <2>1. DOMAIN G = 1..Len(q) /\ G = [i \in 1..Len(q) |-> G[i]]
    BY <1>6
  <2>2. QED
    BY <1>7, <2>1
<1> DEFINE f == CHOOSE h : h = [i \in 1..Len(q) |-> IF i = 1 THEN q[i] ELSE h[i - 1] \o q[i]]
<1>9. f = [i \in 1..Len(q) |-> IF i = 1 THEN q[i] ELSE f[i - 1] \o q[i]]
  BY <1>8
<1>10. Seqs!FlattenSeq(q) = f[Len(q)]
  BY <1>1 DEF Seqs!FlattenSeq
<1> HIDE DEF f
<1>11. \A i \in 1..Len(q) : f[i] = IF i = 1 THEN q[i] ELSE f[i - 1] \o q[i]
  BY <1>9
<1>12. \A n \in Nat : n \in {k \in Nat : k + 1 \in 1..Len(q) => f[k + 1] \in A}
  <2> DEFINE T == {k \in Nat : k + 1 \in 1..Len(q) => f[k + 1] \in A}
  <2>1. 0 \in T
    <3>1. 1 \in 1..Len(q) /\ q[1] \in A
      <4>1. 1 \in 1..Len(q)
        BY <1>1
      <4> HIDE DEF A
      <4>2. QED
        BY <1>1, <4>1
    <3>2. f[1] = q[1]
      BY <1>11, <3>1
    <3>3. 0 + 1 = 1
      OBVIOUS
    <3> HIDE DEF A
    <3>4. QED
      BY <3>1, <3>2, <3>3
  <2>2. ASSUME NEW n \in Nat, n \in T PROVE n + 1 \in T
    <3> SUFFICES ASSUME (n + 1) + 1 \in 1..Len(q) PROVE f[(n + 1) + 1] \in A
      OBVIOUS
    <3>1. n + 1 \in 1..Len(q) /\ (n + 1) + 1 # 1 /\ ((n + 1) + 1) - 1 = n + 1
      BY <1>1
    <3>2. f[n + 1] \in A /\ q[(n + 1) + 1] \in A
      BY <1>1, <2>2, <3>1
    <3>3. f[(n + 1) + 1] = f[n + 1] \o q[(n + 1) + 1]
      BY <1>11, <3>1
    <3>4. QED
      BY <3>2, <3>3
  <2>3. \A n \in Nat : n \in T
    <3> HIDE DEF T
    <3>1. QED
      BY <2>1, <2>2, Induction
  <2>4. QED
    BY <2>3
<1>13. \A i \in 1..Len(q) : f[i] \in A
  <2> SUFFICES ASSUME NEW i \in 1..Len(q) PROVE f[i] \in A
    OBVIOUS
  <2>1. i - 1 \in Nat /\ (i - 1) + 1 = i
    BY <1>1
  <2> HIDE DEF A
  <2>2. QED
    BY <1>12, <2>1
<1>14. f \in [1..Len(q) -> A]
  <2>1. f = [i \in 1..Len(q) |-> f[i]]
    BY <1>9
  <2> HIDE DEF A
  <2>2. QED
    BY <1>13, <2>1
<1>15. Accumulates(f, q)
  BY <1>11 DEF Accumulates
<1>16. QED
  BY <1>10, <1>14, <1>15

LEMMA FlattenEmpty == Seqs!FlattenSeq(<<>>) = <<>>
BY DEF Seqs!FlattenSeq

LEMMA AccumulatesOnce ==
  ASSUME NEW q, NEW r, NEW F, NEW G, Starts(q, r), Accumulates(F, q), Accumulates(G, r)
  PROVE  \A i \in 1..Len(q) : F[i] = G[i]
<1>0. /\ Len(q) \in Nat /\ Len(r) \in Nat /\ Len(q) <= Len(r)
      /\ \A i \in 1..Len(q) : q[i] = r[i]
  BY DEF Starts
<1> DEFINE T == {k \in Nat : k + 1 \in 1..Len(q) => F[k + 1] = G[k + 1]}
<1>1. 0 \in T
  <2> SUFFICES ASSUME 0 + 1 \in 1..Len(q) PROVE F[0 + 1] = G[0 + 1]
    OBVIOUS
  <2>1. 1 \in 1..Len(q) /\ 1 \in 1..Len(r)
    BY <1>0
  <2>2. QED
    BY <1>0, <2>1 DEF Accumulates
<1>2. ASSUME NEW n \in Nat, n \in T PROVE n + 1 \in T
  <2> SUFFICES ASSUME (n + 1) + 1 \in 1..Len(q) PROVE F[(n + 1) + 1] = G[(n + 1) + 1]
    OBVIOUS
  <2>1. /\ n + 1 \in 1..Len(q) /\ (n + 1) + 1 # 1 /\ ((n + 1) + 1) - 1 = n + 1
        /\ (n + 1) + 1 \in 1..Len(r)
    BY <1>0
  <2>2. F[n + 1] = G[n + 1]
    BY <1>2, <2>1
  <2>3. F[(n + 1) + 1] = F[n + 1] \o q[(n + 1) + 1]
    BY <2>1 DEF Accumulates
  <2>4. G[(n + 1) + 1] = G[n + 1] \o r[(n + 1) + 1]
    BY <2>1 DEF Accumulates
  <2>5. QED
    BY <1>0, <2>2, <2>3, <2>4
<1>3. \A n \in Nat : n \in T
  <2> HIDE DEF T
  <2>1. QED
    BY <1>1, <1>2, Induction
<1>4. QED
  <2> SUFFICES ASSUME NEW i \in 1..Len(q) PROVE F[i] = G[i]
    OBVIOUS
  <2>1. i - 1 \in Nat /\ (i - 1) + 1 = i
    BY <1>0
  <2>2. QED
    BY <1>3, <2>1

LEMMA FlattenAppend ==
  ASSUME NEW S, NEW q \in Seq(Seq(S)), NEW f \in Seq(S)
  PROVE  Seqs!FlattenSeq(q) \in Seq(S)
         /\ Seqs!FlattenSeq(Append(q, f)) = Seqs!FlattenSeq(q) \o f
<1> DEFINE r == Append(q, f)
<1>1. r \in Seq(Seq(S)) /\ r # <<>> /\ Len(r) = Len(q) + 1 /\ r[Len(q) + 1] = f
      /\ \A i \in 1..Len(q) : q[i] = r[i]
  BY AppendProperties
<1> HIDE DEF r
<1>2. PICK G \in [1..Len(r) -> Seq(S)] :
        Accumulates(G, r) /\ Seqs!FlattenSeq(r) = G[Len(r)]
  BY <1>1, FlattenUnrolls
<1>3. CASE q = <<>>
  <2>1. Len(r) = 1 /\ r[1] = f
    BY <1>1, <1>3
  <2>2. Seqs!FlattenSeq(r) = f
    BY <1>2, <2>1 DEF Accumulates
  <2>3. Seqs!FlattenSeq(q) = <<>> /\ <<>> \o f = f /\ <<>> \in Seq(S)
    BY <1>3, FlattenEmpty
  <2>4. QED
    BY <2>2, <2>3 DEF r
<1>4. CASE q # <<>>
  <2>1. PICK F \in [1..Len(q) -> Seq(S)] :
          Accumulates(F, q) /\ Seqs!FlattenSeq(q) = F[Len(q)]
    BY <1>4, FlattenUnrolls
  <2>2. Len(q) \in Nat \ {0} /\ Len(q) \in Nat /\ Len(r) \in Nat /\ Len(q) <= Len(r)
    BY <1>1, <1>4
  <2>3. F[Len(q)] = G[Len(q)]
    <3>1. \A i \in 1..Len(q) : F[i] = G[i]
      <4>1. Starts(q, r)
        BY <1>1, <2>2 DEF Starts
      <4>2. QED
        BY <1>2, <2>1, <4>1, AccumulatesOnce
    <3>2. QED
      BY <2>2, <3>1
  <2>4. G[Len(r)] = G[Len(q)] \o f
    <3>1. Len(r) \in 1..Len(r) /\ Len(r) # 1 /\ Len(r) - 1 = Len(q) /\ r[Len(r)] = f
      BY <1>1, <2>2
    <3>2. G[Len(r)] = IF Len(r) = 1 THEN r[1] ELSE G[Len(r) - 1] \o r[Len(r)]
      BY <1>2, <3>1 DEF Accumulates
    <3>3. QED
      BY <3>1, <3>2
  <2>5. QED
    BY <1>2, <2>1, <2>2, <2>3, <2>4 DEF r
<1>5. QED
  BY <1>3, <1>4

LEMMA FlattenType ==
  ASSUME NEW S, NEW q \in Seq(Seq(S))
  PROVE  Seqs!FlattenSeq(q) \in Seq(S) /\ Len(Seqs!FlattenSeq(q)) \in Nat
<1>1. <<>> \in Seq(S)
  OBVIOUS
<1>2. Seqs!FlattenSeq(q) \in Seq(S)
  BY <1>1, FlattenAppend
<1>3. QED
  BY <1>2

LEMMA FlattenOne ==
  ASSUME NEW S, NEW f \in Seq(S)
  PROVE  Seqs!FlattenSeq(<<f>>) = f
<1>1. <<>> \in Seq(Seq(S)) /\ Append(<<>>, f) = <<f>>
  OBVIOUS
<1>2. Seqs!FlattenSeq(Append(<<>>, f)) = <<>> \o f
  BY <1>1, FlattenAppend, FlattenEmpty
<1>3. <<>> \o f = f
  OBVIOUS
<1>4. QED
  BY <1>1, <1>2, <1>3

LEMMA FlattenConcat ==
  ASSUME NEW S, NEW a \in Seq(Seq(S))
  PROVE  \A b \in Seq(Seq(S)) :
           Seqs!FlattenSeq(a \o b) = Seqs!FlattenSeq(a) \o Seqs!FlattenSeq(b)
<1> DEFINE B == Seq(S)
           holds(b) == Seqs!FlattenSeq(a \o b) = Seqs!FlattenSeq(a) \o Seqs!FlattenSeq(b)
           T == {n \in Nat : \A b \in Seq(B) : Len(b) = n => holds(b)}
<1>1. 0 \in T
  <2> SUFFICES ASSUME NEW b \in Seq(B), Len(b) = 0 PROVE holds(b)
    OBVIOUS
  <2>1. b = <<>> /\ a \o <<>> = a
    OBVIOUS
  <2>2. Seqs!FlattenSeq(a) \o <<>> = Seqs!FlattenSeq(a)
    BY FlattenType, ConcatEmptySeq
  <2>3. QED
    BY <2>1, <2>2, FlattenEmpty
<1>2. ASSUME NEW n \in Nat, n \in T PROVE n + 1 \in T
  <2> SUFFICES ASSUME NEW b \in Seq(B), Len(b) = n + 1 PROVE holds(b)
    OBVIOUS
  <2>1. b # <<>>
    OBVIOUS
  <2>2. PICK c \in Seq(B), f \in B : b = Append(c, f)
    <3> HIDE DEF B
    <3>1. QED
      BY <2>1, SequenceEmptyOrAppend
  <2>3. Len(c) = n
    <3> HIDE DEF B
    <3>1. Len(c) \in Nat /\ Len(Append(c, f)) = Len(c) + 1
      BY <2>2
    <3>2. QED
      BY <2>2, <3>1
  <2>4. holds(c)
    BY <1>2, <2>3
  <2>5. a \o b = Append(a \o c, f) /\ a \o c \in Seq(B)
    <3> HIDE DEF B
    <3>1. a \in Seq(B)
      BY DEF B
    <3>2. QED
      BY <2>2, <3>1
  <2> DEFINE x == Seqs!FlattenSeq(a)
             y == Seqs!FlattenSeq(c)
  <2>6. x \in Seq(S) /\ y \in Seq(S) /\ f \in Seq(S)
    BY FlattenType
  <2>7. Seqs!FlattenSeq(a \o b) = Seqs!FlattenSeq(a \o c) \o f
    BY <2>5, FlattenAppend
  <2>8. Seqs!FlattenSeq(b) = y \o f
    BY <2>2, FlattenAppend
  <2>9. (x \o y) \o f = x \o (y \o f)
    <3> HIDE DEF x, y
    <3>1. QED
      BY <2>6, ConcatAssociative, SMTT(30)
  <2>10. QED
    BY <2>4, <2>7, <2>8, <2>9
<1>3. \A n \in Nat : n \in T
  <2> HIDE DEF T
  <2>1. QED
    BY <1>1, <1>2, Induction
<1>4. QED
  <2> SUFFICES ASSUME NEW b \in Seq(B) PROVE holds(b)
    OBVIOUS
  <2>1. Len(b) \in Nat
    OBVIOUS
  <2> HIDE DEF holds
  <2>2. QED
    BY <1>3, <2>1

(* A queue is its first k frames and the others, also when concatenated.   *)
LEMMA FlattenSplit ==
  ASSUME NEW S, NEW q \in Seq(Seq(S)), NEW k \in 0..Len(q)
  PROVE  /\ SubSeq(q, 1, k) \in Seq(Seq(S)) /\ Without(q, k) \in Seq(Seq(S))
         /\ Seqs!FlattenSeq(q)
              = Seqs!FlattenSeq(SubSeq(q, 1, k)) \o Seqs!FlattenSeq(Without(q, k))
<1> DEFINE B == Seq(S)
<1>1. SubSeq(q, 1, k) \in Seq(B) /\ Without(q, k) \in Seq(B)
      /\ q = SubSeq(q, 1, k) \o Without(q, k)
  <2> HIDE DEF B
  <2>1. q \in Seq(B)
    BY DEF B
  <2>2. QED
    BY <2>1, FrontType, WithoutType, FrontAndRest
<1> DEFINE a == SubSeq(q, 1, k)
           b == Without(q, k)
<1> HIDE DEF a, b
<1>2. Seqs!FlattenSeq(a \o b) = Seqs!FlattenSeq(a) \o Seqs!FlattenSeq(b)
  BY <1>1, FlattenConcat DEF a, b
<1>3. QED
  BY <1>1, <1>2 DEF a, b
=============================================================================
