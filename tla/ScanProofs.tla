----------------------------- MODULE ScanProofs -----------------------------
(***************************************************************************)
(* SCAN implements Sweep, and so returns every key that stays, for every   *)
(* number of shards, every width of the cursor, every hash and every set   *)
(* of keys.                                                                *)
(*                                                                         *)
(* The arithmetic comes first: what reversing the bits of a number does to *)
(* its low and its high part (RevSplit), from which follow that reversing  *)
(* twice is the identity, that a bucket is an interval of reversed hashes, *)
(* and that scan_advance moves to the end of that interval.                *)
(***************************************************************************)
EXTENDS Scan, DataLemmas, FiniteSetTheorems

-----------------------------------------------------------------------------
(* Powers of two and reversed bits.                                        *)

LEMMA TwoToDef ==
  TwoTo = [n \in Nat |-> IF n = 0 THEN 1 ELSE 2 * TwoTo[n - 1]]
<1> DEFINE step == [p \in Nat \X Nat |-> 2 * p[2]]
<1>1. step \in [Nat \X Nat -> Nat] /\ \A n, v \in Nat : step[<<n, v>>] = 2 * v
  OBVIOUS
<1> HIDE DEF step
<1> DEFINE A == Nat
<1>a. 1 \in A /\ step \in [Nat \X A -> A]
  BY <1>1
<1>2. PICK g \in [Nat -> A] :
        g[0] = 1 /\ \A n \in Nat : g[n + 1] = step[<<n, g[n]>>]
  <2> HIDE DEF A
  <2>1. Unrolls(A, 1, step)
    BY <1>a, Recursion
  <2>2. QED
    BY <2>1 DEF Unrolls
<1>3. \A n \in Nat : g[n] = IF n = 0 THEN 1 ELSE 2 * g[n - 1]
  <2> SUFFICES ASSUME NEW n \in Nat, n # 0 PROVE g[n] = 2 * g[n - 1]
    BY <1>2
  <2>1. n - 1 \in Nat /\ (n - 1) + 1 = n /\ g[n - 1] \in Nat
    BY <1>2
  <2>2. QED
    BY <1>1, <1>2, <2>1
<1>4. g = [n \in Nat |-> IF n = 0 THEN 1 ELSE 2 * g[n - 1]]
  BY <1>2, <1>3
<1>5. QED
  BY <1>4 DEF TwoTo

LEMMA TwoToType ==
  /\ TwoTo[0] = 1
  /\ \A n \in Nat : TwoTo[n] \in Nat \ {0} /\ TwoTo[n + 1] = 2 * TwoTo[n]
<1>1. TwoTo[0] = 1 /\ \A n \in Nat : TwoTo[n + 1] = 2 * TwoTo[n]
  <2>1. \A n \in Nat : TwoTo[n] = IF n = 0 THEN 1 ELSE 2 * TwoTo[n - 1]
    BY TwoToDef
  <2>2. \A n \in Nat : n + 1 \in Nat /\ n + 1 # 0 /\ (n + 1) - 1 = n
    OBVIOUS
  <2>3. QED
    BY <2>1, <2>2
<1> DEFINE S == {n \in Nat : TwoTo[n] \in Nat \ {0}}
<1>2. 0 \in S /\ \A n \in Nat : n \in S => n + 1 \in S
  BY <1>1
<1>3. \A n \in Nat : n \in S
  <2> HIDE DEF S
  <2>1. QED
    BY <1>2, Induction
<1>4. QED
  BY <1>1, <1>3

LEMMA HalfType ==
  ASSUME NEW v \in Nat
  PROVE  v \div 2 \in Nat /\ v % 2 \in {0, 1} /\ v = 2 * (v \div 2) + (v % 2)
OBVIOUS

LEMMA ReversedDef ==
  Reversed = [n \in Nat |-> [v \in Nat |->
                IF n = 0 THEN 0
                ELSE (v % 2) * TwoTo[n - 1] + Reversed[n - 1][v \div 2]]]
<1> DEFINE A == [Nat -> Nat]
<1> DEFINE zero == [v \in Nat |-> 0]
<1> DEFINE next(n, f) == [v \in Nat |-> (v % 2) * TwoTo[n] + f[v \div 2]]
<1> DEFINE step == [p \in Nat \X A |-> next(p[1], p[2])]
<1>1. zero \in A
  OBVIOUS
<1>2. ASSUME NEW n \in Nat, NEW f \in A PROVE next(n, f) \in A
  <2>1. ASSUME NEW v \in Nat PROVE (v % 2) * TwoTo[n] + f[v \div 2] \in Nat
    <3>1. f[v \div 2] \in Nat /\ TwoTo[n] \in Nat /\ v % 2 \in {0, 1}
      BY HalfType, TwoToType
    <3>2. QED
      BY <3>1
  <2>2. QED
    BY <2>1
<1>3. \A n \in Nat : \A f \in A : step[<<n, f>>] = next(n, f)
  <2> HIDE DEF A, next
  <2>1. QED
    OBVIOUS
<1>4. step \in [Nat \X A -> A]
  <2> HIDE DEF A, next
  <2>1. QED
    BY <1>2
<1>5. PICK g \in [Nat -> A] :
        g[0] = zero /\ \A n \in Nat : g[n + 1] = step[<<n, g[n]>>]
  <2> HIDE DEF A, step, zero
  <2>1. Unrolls(A, zero, step)
    BY <1>1, <1>4, Recursion
  <2>2. QED
    BY <2>1 DEF Unrolls
<1> DEFINE e(n) == [v \in Nat |-> IF n = 0 THEN 0
                                 ELSE (v % 2) * TwoTo[n - 1] + g[n - 1][v \div 2]]
<1>6. ASSUME NEW n \in Nat PROVE g[n] = e(n)
  <2>1. CASE n = 0
    BY <1>5, <2>1
  <2>2. CASE n # 0
    <3>1. n - 1 \in Nat /\ (n - 1) + 1 = n /\ g[n - 1] \in A
      BY <1>5, <2>2
    <3>2. g[n] = next(n - 1, g[n - 1])
      <4> HIDE DEF A, step, next
      <4>1. QED
        BY <1>3, <1>5, <3>1
    <3>3. QED
      BY <2>2, <3>2
  <2>3. QED
    BY <2>1, <2>2
<1>7. g = [n \in Nat |-> e(n)]
  <2> HIDE DEF e, A
  <2>1. QED
    BY <1>5, <1>6
<1>8. QED
  BY <1>7 DEF Reversed

LEMMA ReversedType ==
  /\ \A v \in Nat : Reversed[0][v] = 0
  /\ \A n, v \in Nat :
       /\ Reversed[n][v] \in 0..TwoTo[n]-1 /\ Reversed[n][v] \in Nat
       /\ Reversed[n + 1][v] = (v % 2) * TwoTo[n] + Reversed[n][v \div 2]
<1>1. \A v \in Nat : Reversed[0][v] = 0
  BY ReversedDef
<1>2. ASSUME NEW n \in Nat, NEW v \in Nat
      PROVE  Reversed[n + 1][v] = (v % 2) * TwoTo[n] + Reversed[n][v \div 2]
  <2>1. n + 1 \in Nat /\ n + 1 # 0 /\ (n + 1) - 1 = n
    OBVIOUS
  <2>2. QED
    BY <2>1, ReversedDef
<1> DEFINE S == {n \in Nat : \A v \in Nat : Reversed[n][v] \in 0..TwoTo[n]-1}
<1>3. 0 \in S
  BY <1>1, TwoToType
<1>4. ASSUME NEW n \in Nat, n \in S PROVE n + 1 \in S
  <2>1. ASSUME NEW v \in Nat PROVE Reversed[n + 1][v] \in 0..TwoTo[n + 1]-1
    <3>1. Reversed[n][v \div 2] \in 0..TwoTo[n]-1 /\ v % 2 \in {0, 1}
      BY <1>4, HalfType
    <3>2. TwoTo[n] \in Nat /\ TwoTo[n + 1] = 2 * TwoTo[n]
      BY TwoToType
    <3>3. \A t \in Nat : \A r \in {0, 1} : \A x \in 0..t-1 : r * t + x \in 0..2*t-1
      OBVIOUS
    <3>4. Reversed[n + 1][v] = (v % 2) * TwoTo[n] + Reversed[n][v \div 2]
      BY <1>2
    <3>5. QED
      BY <3>1, <3>2, <3>3, <3>4
  <2>2. n + 1 \in Nat
    OBVIOUS
  <2>3. QED
    BY <2>1, <2>2
<1>5. \A n \in Nat : n \in S
  <2> HIDE DEF S
  <2>1. QED
    BY <1>3, <1>4, Induction
<1>6. ASSUME NEW n \in Nat, NEW v \in Nat
      PROVE  Reversed[n][v] \in 0..TwoTo[n]-1 /\ Reversed[n][v] \in Nat
  <2>1. Reversed[n][v] \in 0..TwoTo[n]-1 /\ TwoTo[n] \in Nat
    BY <1>5, TwoToType
  <2>2. QED
    BY <2>1
<1>7. QED
  BY <1>1, <1>2, <1>6

LEMMA TwoToSum ==
  \A b, w \in Nat : TwoTo[b + w] = TwoTo[b] * TwoTo[w]
<1> SUFFICES ASSUME NEW w \in Nat
             PROVE  \A b \in Nat : TwoTo[b + w] = TwoTo[b] * TwoTo[w]
  OBVIOUS
<1> DEFINE S == {b \in Nat : TwoTo[b + w] = TwoTo[b] * TwoTo[w]}
<1>1. 0 \in S
  BY TwoToType
<1>2. ASSUME NEW b \in Nat, b \in S PROVE b + 1 \in S
  <2>1. (b + 1) + w = (b + w) + 1 /\ b + w \in Nat /\ b + 1 \in Nat
    OBVIOUS
  <2>2. TwoTo[(b + 1) + w] = 2 * (TwoTo[b] * TwoTo[w])
    BY <1>2, <2>1, TwoToType
  <2>3. TwoTo[b + 1] = 2 * TwoTo[b] /\ TwoTo[b] \in Nat /\ TwoTo[w] \in Nat
    BY TwoToType
  <2>4. QED
    BY <2>1, <2>2, <2>3
<1>3. \A b \in Nat : b \in S
  <2> HIDE DEF S
  <2>1. QED
    BY <1>1, <1>2, Induction
<1>4. QED
  BY <1>3

LEMMA DoubleAndRest ==
  ASSUME NEW q \in Nat, NEW r \in {0, 1}
  PROVE  (2 * q + r) \div 2 = q /\ (2 * q + r) % 2 = r
OBVIOUS

(* Reversing a word reverses its low and its high part and swaps them.     *)
LEMMA RevSplit ==
  \A w \in Nat : \A b \in Nat : \A c \in 0..TwoTo[b]-1 : \A u \in Nat :
    Reversed[b + w][c + TwoTo[b] * u]
      = Reversed[b][c] * TwoTo[w] + Reversed[w][u]
<1> SUFFICES ASSUME NEW w \in Nat
    PROVE  \A b \in Nat : \A c \in 0..TwoTo[b]-1 : \A u \in Nat :
             Reversed[b + w][c + TwoTo[b] * u]
               = Reversed[b][c] * TwoTo[w] + Reversed[w][u]
  OBVIOUS
<1> DEFINE S == {b \in Nat : \A c \in 0..TwoTo[b]-1 : \A u \in Nat :
                   Reversed[b + w][c + TwoTo[b] * u]
                     = Reversed[b][c] * TwoTo[w] + Reversed[w][u]}
<1>1. 0 \in S
  <2> SUFFICES ASSUME NEW c \in 0..TwoTo[0]-1, NEW u \in Nat
      PROVE  Reversed[0 + w][c + TwoTo[0] * u]
               = Reversed[0][c] * TwoTo[w] + Reversed[w][u]
    OBVIOUS
  <2>1. c = 0 /\ 0 + w = w /\ c + TwoTo[0] * u = u
    BY TwoToType
  <2>2. Reversed[0][c] = 0 /\ TwoTo[w] \in Nat /\ Reversed[w][u] \in Nat
    BY <2>1, ReversedType, TwoToType
  <2>3. QED
    BY <2>1, <2>2
<1>2. ASSUME NEW b \in Nat, b \in S PROVE b + 1 \in S
  <2> SUFFICES ASSUME NEW c \in 0..TwoTo[b + 1]-1, NEW u \in Nat
      PROVE  Reversed[(b + 1) + w][c + TwoTo[b + 1] * u]
               = Reversed[b + 1][c] * TwoTo[w] + Reversed[w][u]
    OBVIOUS
  <2> DEFINE q == c \div 2
             r == c % 2
             B == TwoTo[b]
             W == TwoTo[w]
  <2>1. B \in Nat \ {0} /\ W \in Nat \ {0} /\ TwoTo[b + 1] = 2 * B
        /\ TwoTo[b + w] = B * W
    BY TwoToType, TwoToSum
  <2>2. q \in 0..B-1 /\ r \in {0, 1} /\ c = 2 * q + r /\ c \in Nat
    BY <2>1, HalfType
  <2>3. c + TwoTo[b + 1] * u = 2 * (q + B * u) + r
    <3> HIDE DEF q, r, B
    <3>1. TwoTo[b + 1] * u = 2 * (B * u) /\ B * u \in Nat
      BY <2>1
    <3>2. QED
      BY <2>2, <3>1
  <2>4. q + B * u \in Nat
    BY <2>1, <2>2
  <2>5. Reversed[(b + 1) + w][c + TwoTo[b + 1] * u]
          = r * (B * W) + Reversed[b + w][q + B * u]
    <3> DEFINE x == q + B * u
    <3>1. (2 * x + r) \div 2 = x /\ (2 * x + r) % 2 = r /\ 2 * x + r \in Nat
      <4> HIDE DEF x, r
      <4>1. QED
        BY <2>2, <2>4, DoubleAndRest DEF x
    <3>2. (b + 1) + w = (b + w) + 1 /\ b + w \in Nat
      OBVIOUS
    <3> HIDE DEF q, r, B, W, x
    <3>3. Reversed[(b + w) + 1][2 * x + r]
            = r * TwoTo[b + w] + Reversed[b + w][x]
      BY <3>1, <3>2, ReversedType
    <3>4. QED
      BY <2>1, <2>3, <3>2, <3>3 DEF x
  <2>6. Reversed[b + w][q + B * u] = Reversed[b][q] * W + Reversed[w][u]
    BY <1>2, <2>2
  <2>7. Reversed[b + 1][c] = r * B + Reversed[b][q]
    BY <2>2, ReversedType
  <2>8. Reversed[b][q] \in Nat /\ Reversed[w][u] \in Nat
    <3>1. q \in Nat
      BY <2>2
    <3>2. QED
      BY <3>1, ReversedType
  <2>9. QED
    <3> HIDE DEF q, r, B, W
    <3>1. ASSUME NEW x \in Nat, NEW y \in Nat
          PROVE  r * (B * W) + (x * W + y) = (r * B + x) * W + y
      BY <2>1, <2>2
    <3>2. QED
      BY <2>5, <2>6, <2>7, <2>8, <3>1 DEF W
<1>3. \A b \in Nat : b \in S
  <2> HIDE DEF S
  <2>1. QED
    BY <1>1, <1>2, Induction
<1>4. QED
  BY <1>3

(* Reversing twice gives the number back.                                  *)
LEMMA RevTwice ==
  \A n \in Nat : \A v \in 0..TwoTo[n]-1 : Reversed[n][Reversed[n][v]] = v
<1> DEFINE S == {n \in Nat : \A v \in 0..TwoTo[n]-1 :
                               Reversed[n][Reversed[n][v]] = v}
<1>1. 0 \in S
  <2>1. 0..TwoTo[0]-1 = {0}
    BY TwoToType
  <2>2. QED
    BY <2>1, ReversedType
<1>2. ASSUME NEW n \in Nat, n \in S PROVE n + 1 \in S
  <2> SUFFICES ASSUME NEW v \in 0..TwoTo[n + 1]-1
               PROVE  Reversed[n + 1][Reversed[n + 1][v]] = v
    OBVIOUS
  <2> DEFINE q == v \div 2
             r == v % 2
             c == Reversed[n][q]
  <2>1. TwoTo[n] \in Nat \ {0} /\ TwoTo[n + 1] = 2 * TwoTo[n]
    BY TwoToType
  <2>2. q \in 0..TwoTo[n]-1 /\ r \in {0, 1} /\ v = 2 * q + r
    BY <2>1, HalfType
  <2>3. c \in 0..TwoTo[n]-1 /\ Reversed[n][c] = q
    BY <1>2, <2>2, ReversedType
  <2>4. Reversed[n + 1][v] = c + TwoTo[n] * r
    <3>0. v \in Nat
      BY <2>1
    <3>1. Reversed[n + 1][v] = r * TwoTo[n] + c
      BY <3>0, ReversedType
    <3> HIDE DEF c, r
    <3>2. QED
      BY <2>1, <2>2, <2>3, <3>1
  <2>5. TwoTo[1] = 2 /\ Reversed[1][r] = r
    <3>1. TwoTo[0 + 1] = 2 /\ TwoTo[0] = 1
      BY TwoToType
    <3>2. Reversed[0 + 1][r] = (r % 2) * TwoTo[0] + Reversed[0][r \div 2]
      <4> HIDE DEF r
      <4>1. r \in Nat
        BY <2>2
      <4>2. QED
        BY <4>1, ReversedType
    <3>3. r % 2 = r /\ r \div 2 = 0
      <4> HIDE DEF r
      <4>1. QED
        BY <2>2
    <3>4. Reversed[0][0] = 0
      BY ReversedType
    <3>5. QED
      <4> HIDE DEF r
      <4>1. QED
        BY <2>2, <3>1, <3>2, <3>3, <3>4
  <2>6. Reversed[n + 1][c + TwoTo[n] * r] = q * 2 + r
    <3> HIDE DEF c, r, q
    <3>1. r \in Nat
      BY <2>2
    <3>2. Reversed[n + 1][c + TwoTo[n] * r]
            = Reversed[n][c] * TwoTo[1] + Reversed[1][r]
      BY <2>3, <3>1, RevSplit
    <3>3. QED
      BY <2>3, <2>5, <3>2
  <2>7. QED
    <3> HIDE DEF c, r, q
    <3>1. QED
      BY <2>2, <2>4, <2>6
<1>3. \A n \in Nat : n \in S
  <2> HIDE DEF S
  <2>1. QED
    BY <1>1, <1>2, Induction
<1>4. QED
  BY <1>3

(* The smallest and the largest word are their own reverse.                *)
LEMMA RevEnds ==
  \A n \in Nat : Reversed[n][0] = 0 /\ Reversed[n][TwoTo[n]-1] = TwoTo[n]-1
<1> DEFINE S == {n \in Nat : /\ Reversed[n][0] = 0
                             /\ Reversed[n][TwoTo[n]-1] = TwoTo[n]-1}
<1>1. 0 \in S
  <2>1. Reversed[0][0] = 0 /\ TwoTo[0]-1 = 0
    BY ReversedType, TwoToType
  <2>2. QED
    BY <2>1
<1>2. ASSUME NEW n \in Nat, n \in S PROVE n + 1 \in S
  <2>1. TwoTo[n] \in Nat \ {0} /\ TwoTo[n + 1] = 2 * TwoTo[n] /\ n + 1 \in Nat
    BY TwoToType
  <2>2. Reversed[n + 1][0] = 0
    <3>1. 0 % 2 = 0 /\ 0 \div 2 = 0 /\ 0 \in Nat
      OBVIOUS
    <3>2. Reversed[n + 1][0] = 0 * TwoTo[n] + Reversed[n][0]
      BY <3>1, ReversedType
    <3>3. QED
      BY <1>2, <2>1, <3>2
  <2>3. Reversed[n + 1][TwoTo[n + 1]-1] = TwoTo[n + 1]-1
    <3> DEFINE t == TwoTo[n]-1
    <3>1. TwoTo[n + 1]-1 = 2 * t + 1 /\ t \in Nat /\ 2 * t + 1 \in Nat
      BY <2>1
    <3>2. (2 * t + 1) % 2 = 1 /\ (2 * t + 1) \div 2 = t
      <4> HIDE DEF t
      <4>1. 1 \in {0, 1}
        OBVIOUS
      <4>2. QED
        BY <3>1, <4>1, DoubleAndRest
    <3>3. Reversed[n + 1][2 * t + 1] = 1 * TwoTo[n] + Reversed[n][t]
      <4> HIDE DEF t
      <4>1. QED
        BY <3>1, <3>2, ReversedType, SMTT(30)
    <3>4. QED
      BY <1>2, <2>1, <3>1, <3>3
  <2>4. QED
    BY <2>1, <2>2, <2>3
<1>3. \A n \in Nat : n \in S
  <2> HIDE DEF S
  <2>1. QED
    BY <1>1, <1>2, Induction
<1>4. QED
  BY <1>3

-----------------------------------------------------------------------------
(* Buckets and scan_advance.                                               *)

LEMMA Divide ==
  ASSUME NEW n \in Nat, NEW p \in Nat \ {0}
  PROVE  /\ n \div p \in Nat /\ n % p \in 0..p-1 /\ n % p \in Nat
         /\ n = (n % p) + p * (n \div p)
OBVIOUS

LEMMA Quotient ==
  ASSUME NEW q \in Nat, NEW p \in Nat \ {0}, NEW r \in 0..p-1
  PROVE  (q * p + r) \div p = q /\ (q * p + r) % p = r /\ q * p + r \in Nat
OBVIOUS

LEMMA Blocks ==
  ASSUME NEW x \in Nat, NEW y \in Nat, NEW p \in Nat \ {0}, x < y
  PROVE  x * p + p <= y * p
OBVIOUS

(* The words that agree with x on the low b bits, read in reverse, are an  *)
(* interval; scan_advance goes to its end, and to 0 from the last one.     *)
LEMMA BucketIsInterval ==
  ASSUME NEW b \in 0..MaxBits, NEW x \in 0..TwoTo[MaxBits]-1
  PROVE  \E lo \in 0..TwoTo[MaxBits]-1, hi \in 1..TwoTo[MaxBits] :
           /\ lo <= ReverseBits(x) /\ ReverseBits(x) < hi
           /\ \A h \in 0..TwoTo[MaxBits]-1 :
                h % TwoTo[b] = x % TwoTo[b]
                  <=> lo <= ReverseBits(h) /\ ReverseBits(h) < hi
           /\ ScanAdvance(x, b) \in 0..TwoTo[MaxBits]-1
           /\ hi = TwoTo[MaxBits] => ScanAdvance(x, b) = 0
           /\ hi < TwoTo[MaxBits] => /\ ScanAdvance(x, b) # 0
                                     /\ ReverseBits(ScanAdvance(x, b)) = hi
<1> DEFINE w == MaxBits - b
           B == TwoTo[b]
           W == TwoTo[w]
           N == TwoTo[MaxBits]
           low(h) == h % B
           block(h) == Reversed[b][low(h)]
           rest(h) == Reversed[w][h \div B]
<1>1. MaxBits \in Nat /\ b \in Nat /\ w \in Nat /\ b + w = MaxBits
  BY ScanConstants
<1>2. B \in Nat \ {0} /\ W \in Nat \ {0} /\ N \in Nat \ {0} /\ N = B * W
  <2> HIDE DEF w
  <2>1. QED
    BY <1>1, TwoToType, TwoToSum
<1>3. ASSUME NEW h \in 0..N-1
      PROVE  /\ low(h) \in 0..B-1 /\ low(h) \in Nat
             /\ block(h) \in 0..B-1 /\ rest(h) \in 0..W-1
             /\ ReverseBits(h) = block(h) * W + rest(h)
  <2> HIDE DEF w, B, W, N
  <2>1. h \in Nat
    BY <1>2
  <2>2. h \div B \in Nat /\ low(h) \in 0..B-1 /\ low(h) \in Nat
        /\ h = low(h) + B * (h \div B)
    BY <1>2, <2>1, Divide
  <2>3. block(h) \in 0..B-1 /\ rest(h) \in 0..W-1
    <3> HIDE DEF low
    <3>1. QED
      BY <1>1, <2>2, ReversedType DEF B, W
  <2>4. Reversed[b + w][low(h) + TwoTo[b] * (h \div B)]
          = Reversed[b][low(h)] * TwoTo[w] + Reversed[w][h \div B]
    <3> HIDE DEF low
    <3>1. low(h) \in 0..TwoTo[b]-1
      BY <2>2 DEF B
    <3>2. QED
      BY <1>1, <2>2, <3>1, RevSplit
  <2>5. QED
    <3> HIDE DEF low
    <3>1. QED
      BY <1>1, <2>2, <2>3, <2>4 DEF B, W, ReverseBits
<1>4. ASSUME NEW h \in 0..N-1, block(h) = block(x) PROVE low(h) = low(x)
  <2>1. low(h) \in 0..B-1 /\ low(x) \in 0..B-1
    BY <1>3
  <2>2. QED
    <3> HIDE DEF low
    <3>1. QED
      BY <1>1, <1>4, <2>1, RevTwice
<1> DEFINE lo == block(x) * W
           hi == block(x) * W + W
<1>5. lo \in 0..N-1 /\ hi \in 1..N /\ lo <= ReverseBits(x) /\ ReverseBits(x) < hi
  <2>1. block(x) \in 0..B-1 /\ rest(x) \in 0..W-1
        /\ ReverseBits(x) = block(x) * W + rest(x)
    BY <1>3
  <2>2. ASSUME NEW y \in 0..B-1 PROVE y * W + W <= B * W /\ y * W \in Nat
    <3> HIDE DEF B, W
    <3>1. y \in Nat /\ y < B /\ B \in Nat
      BY <1>2
    <3>2. QED
      BY <1>2, <3>1, Blocks
  <2>3. block(x) * W + W <= N /\ block(x) * W \in Nat
    <3> HIDE DEF block, B, W, N
    <3>1. QED
      BY <1>2, <2>1, <2>2
  <2>4. QED
    <3> HIDE DEF block, rest, B, W, N
    <3>1. QED
      BY <1>2, <2>1, <2>3
<1>6. ASSUME NEW h \in 0..N-1
      PROVE  low(h) = low(x) <=> lo <= ReverseBits(h) /\ ReverseBits(h) < hi
  <2>1. /\ block(h) \in Nat /\ rest(h) \in 0..W-1
        /\ ReverseBits(h) = block(h) * W + rest(h)
    BY <1>2, <1>3
  <2>2. block(x) \in Nat
    BY <1>2, <1>3
  <2>3. block(h) = block(x) <=> lo <= ReverseBits(h) /\ ReverseBits(h) < hi
    <3> HIDE DEF block, rest, W
    <3>1. W \in Nat \ {0} /\ block(h) * W \in Nat /\ block(x) * W \in Nat
      BY <1>2, <2>1, <2>2
    <3>2. CASE block(h) = block(x)
      BY <2>1, <3>1, <3>2
    <3>3. CASE block(h) < block(x)
      <4>1. block(h) * W + W <= block(x) * W
        BY <2>1, <2>2, <3>1, <3>3, Blocks
      <4>2. QED
        BY <2>1, <2>2, <3>1, <3>3, <4>1
    <3>4. CASE block(x) < block(h)
      <4>1. block(x) * W + W <= block(h) * W
        BY <2>1, <2>2, <3>1, <3>4, Blocks
      <4>2. QED
        BY <2>1, <2>2, <3>1, <3>4, <4>1
    <3>5. QED
      BY <2>1, <2>2, <3>2, <3>3, <3>4
  <2>4. QED
    <3>1. low(h) = low(x) => block(h) = block(x)
      OBVIOUS
    <3> HIDE DEF low, block, lo, hi
    <3>2. QED
      BY <1>4, <2>3, <3>1
<1>7. /\ ScanAdvance(x, b) = ReverseBits(hi % N)
      /\ hi % N \in 0..N-1
  <2> DEFINE v == low(x) + (N - B)
  <2>1. low(x) \in 0..B-1 /\ W - 1 \in Nat
    BY <1>2, <1>3
  <2>2. v = low(x) + B * (W - 1)
    <3> HIDE DEF low, B, W, N
    <3>1. QED
      BY <1>2, <2>1
  <2>3. ReverseBits(v) = Reversed[b][low(x)] * TwoTo[w] + Reversed[w][W - 1]
    <3> HIDE DEF low, w, v
    <3>1. QED
      BY <1>1, <2>1, <2>2, RevSplit DEF ReverseBits
  <2>4. Reversed[w][W - 1] = W - 1
    <3> HIDE DEF w
    <3>1. QED
      BY <1>1, RevEnds
  <2>5. ReverseBits(v) + 1 = hi
    <3>1. block(x) * W \in Nat
      BY <1>5
    <3> HIDE DEF v
    <3>2. ReverseBits(v) = block(x) * W + (W - 1)
      BY <2>3, <2>4
    <3> HIDE DEF block, W
    <3>3. QED
      BY <1>2, <3>1, <3>2
  <2>6. ScanAdvance(x, b) = ReverseBits((ReverseBits(v) + 1) % N)
    BY DEF ScanAdvance
  <2>7. hi % N \in 0..N-1
    <3> HIDE DEF hi, N
    <3>1. hi \in Nat
      BY <1>2, <1>5
    <3>2. QED
      BY <1>2, <3>1, Divide
  <2>8. QED
    <3> HIDE DEF hi, v
    <3>1. QED
      BY <2>5, <2>6, <2>7
<1>8. ASSUME NEW y \in 0..N-1
      PROVE  ReverseBits(y) \in 0..N-1 /\ ReverseBits(ReverseBits(y)) = y
  <2>1. y \in Nat
    BY <1>2
  <2>2. QED
    BY <1>1, <2>1, ReversedType, RevTwice DEF ReverseBits
<1>9. ReverseBits(0) = 0
  BY <1>1, RevEnds DEF ReverseBits
<1>10. hi = N => ScanAdvance(x, b) = 0
  <2> HIDE DEF hi, N
  <2>1. N % N = 0
    BY <1>2
  <2>2. QED
    BY <1>7, <1>9, <2>1
<1>11. hi < N => ReverseBits(ScanAdvance(x, b)) = hi /\ ScanAdvance(x, b) # 0
  <2> HIDE DEF hi, N
  <2> SUFFICES ASSUME hi < N
               PROVE  ReverseBits(ScanAdvance(x, b)) = hi /\ ScanAdvance(x, b) # 0
    OBVIOUS
  <2>1. hi % N = hi /\ hi # 0
    BY <1>2, <1>5
  <2>2. QED
    BY <1>7, <1>8, <1>9, <2>1
<1>12. ScanAdvance(x, b) \in 0..N-1
  <2> HIDE DEF hi, N
  <2>1. QED
    BY <1>7, <1>8
<1>13. QED
  <2> HIDE DEF lo, hi
  <2>1. lo \in 0..TwoTo[MaxBits]-1 /\ hi \in 1..TwoTo[MaxBits]
    BY <1>5
  <2>2. QED
    BY <1>5, <1>6, <1>10, <1>11, <1>12, <2>1

LEMMA ScanBitsType ==
  ASSUME NEW len \in Nat, NEW n \in Nat
  PROVE  ScanBits(len, n) \in 0..MaxBits
<1> DEFINE few(b) == len \div TwoTo[b] <= n
           T == {b \in 0..MaxBits : b = MaxBits \/ few(b)}
<1>1. MaxBits \in Nat /\ T \in SUBSET Nat /\ MaxBits \in T
  BY ScanConstants
<1>2. PICK z \in T : \A y \in T : z <= y
  <2> HIDE DEF T
  <2>1. QED
    BY <1>1, LeastNumber
<1>3. \A a \in Nat : len \div TwoTo[a] \in Nat
  <2> SUFFICES ASSUME NEW a \in Nat PROVE len \div TwoTo[a] \in Nat
    OBVIOUS
  <2>1. TwoTo[a] \in Nat \ {0}
    BY TwoToType
  <2>2. QED
    BY <2>1, Divide
<1>4. \A a \in 0..z-1 : len \div TwoTo[a] > n
  <2> SUFFICES ASSUME NEW a \in 0..z-1 PROVE len \div TwoTo[a] > n
    OBVIOUS
  <2>1. z \in 0..MaxBits /\ a \in Nat /\ a \in 0..MaxBits /\ ~(z <= a)
    BY <1>1
  <2>2. a \notin T
    <3> HIDE DEF T
    <3>1. QED
      BY <1>2, <2>1
  <2>3. QED
    BY <1>3, <2>1, <2>2
<1>5. z \in 0..MaxBits /\ (z = MaxBits \/ few(z))
  OBVIOUS
<1>6. QED
  BY <1>4, <1>5 DEF ScanBits

-----------------------------------------------------------------------------
(* The refinement.                                                         *)

(* What the cursor and the client's state satisfy in every state: the      *)
(* cursor is a bucket of a shard, a call runs only within an iteration,    *)
(* and a client without an iteration holds the cursor 0.                   *)
ScanInv ==
  /\ present \subseteq Keys /\ dead \subseteq Keys /\ present \cap dead = {}
  /\ steady \subseteq present
  /\ cursor \in Nat /\ cursor \div ShardCount \in 0..TwoTo[MaxBits]-1
  /\ count \in Nat
  /\ iterating \in BOOLEAN
  /\ count # 0 => iterating
  /\ ~iterating => cursor = 0

LEMMA Sizes ==
  /\ ShardCount \in Nat \ {0} /\ TwoTo[MaxBits] \in Nat \ {0}
  /\ ReverseBits(0) = 0
  /\ \A h \in 0..TwoTo[MaxBits]-1 : ReverseBits(h) \in 0..TwoTo[MaxBits]-1
<1>1. MaxBits \in Nat /\ ShardBits \in Nat
  BY ScanConstants
<1>2. ShardCount \in Nat \ {0} /\ TwoTo[MaxBits] \in Nat \ {0}
  BY <1>1, TwoToType DEF ShardCount
<1>3. \A h \in 0..TwoTo[MaxBits]-1 : h \in Nat
  BY <1>2
<1>4. QED
  BY <1>1, <1>2, <1>3, ReversedType, RevEnds DEF ReverseBits

LEMMA LinePlace ==
  ASSUME NEW s \in Nat, NEW t \in Nat, NEW N \in Nat \ {0},
         NEW x \in 0..N-1, NEW lo \in 0..N-1, NEW hi \in 1..N
  PROVE  s * N + lo <= t * N + x /\ t * N + x < s * N + hi
           <=> s = t /\ lo <= x /\ x < hi
<1>1. s * N \in Nat /\ t * N \in Nat
  OBVIOUS
<1>2. CASE s < t
  <2>1. s * N + N <= t * N
    BY <1>2, Blocks
  <2>2. QED
    BY <1>1, <1>2, <2>1
<1>3. CASE t < s
  <2>1. t * N + N <= s * N
    BY <1>3, Blocks
  <2>2. QED
    BY <1>1, <1>3, <2>1
<1>4. CASE s = t
  BY <1>1, <1>4
<1>5. QED
  BY <1>2, <1>3, <1>4

LEMMA LineEnd ==
  ASSUME NEW S \in Nat \ {0}, NEW s \in 0..S-1, NEW N \in Nat \ {0}, NEW hi \in 1..N
  PROVE  /\ s * N + hi \in 1..S*N
         /\ s * N + hi < S * N <=> ~(hi = N /\ s + 1 >= S)
<1>1. s \in Nat /\ s < S /\ S \in Nat /\ s * N \in Nat /\ S * N \in Nat
  OBVIOUS
<1>2. s * N + N <= S * N
  BY <1>1, Blocks
<1>3. CASE s + 1 >= S
  <2>1. S = s + 1
    BY <1>1, <1>3
  <2>2. S * N = s * N + N
    BY <1>1, <2>1
  <2>3. QED
    BY <1>1, <2>2, <1>3
<1>4. CASE s + 1 < S
  <2>1. (s + 1) * N + N <= S * N /\ (s + 1) * N = s * N + N
    BY <1>1, <1>4, Blocks
  <2>2. QED
    BY <1>1, <1>4, <2>1
<1>5. QED
  BY <1>1, <1>3, <1>4

LEMMA LineStart ==
  ASSUME NEW S \in Nat \ {0}, NEW s \in 0..S-1, NEW N \in Nat \ {0}, NEW lo \in 0..N-1
  PROVE  s * N + lo \in 0..S*N-1
<1>1. s \in Nat /\ s < S /\ S \in Nat /\ s * N \in Nat /\ S * N \in Nat
  OBVIOUS
<1>2. s * N + N <= S * N
  BY <1>1, Blocks
<1>3. QED
  BY <1>1, <1>2

(* One turn of cmd_scan's loop is a block of the walk.                     *)
LEMMA VisitWalks ==
  ASSUME ScanInv, Visit
  PROVE  /\ ScanInv'
         /\ \E lo \in 0..ShardCount*TwoTo[MaxBits]-1,
               hi \in 1..ShardCount*TwoTo[MaxBits] : Line!Walk(lo, hi)
<1> DEFINE N == TwoTo[MaxBits]
           shard == cursor % ShardCount
           intra == cursor \div ShardCount
           dict == {k \in present \cup dead : ShardOf[k] = shard}
           bits == ScanBits(Cardinality(dict), count)
           hits == {k \in dict \ dead : Hash[k] % TwoTo[bits] = intra % TwoTo[bits]}
           next == ScanAdvance(intra, bits)
           last == next = 0 /\ shard + 1 >= ShardCount
           done == last \/ examined + Cardinality(dict) >= count
<1>1. /\ count # 0
      /\ returned' = returned \cup hits
      /\ cursor' = IF last THEN 0
                   ELSE IF next = 0 THEN shard + 1
                   ELSE next * ShardCount + shard
      /\ iterating' = ~last
      /\ count' = IF done THEN 0 ELSE count
      /\ UNCHANGED <<present, dead, steady>>
  BY DEF Visit
<1>2. N \in Nat \ {0} /\ ShardCount \in Nat \ {0}
  BY Sizes
<1>3. shard \in 0..ShardCount-1 /\ shard \in Nat /\ intra \in 0..N-1
  <2> HIDE DEF N
  <2>1. cursor \in Nat
    BY DEF ScanInv
  <2>2. intra \in 0..N-1
    BY DEF ScanInv, N
  <2>3. QED
    BY <1>2, <2>1, <2>2, Divide
<1>4. bits \in 0..MaxBits
  <2> HIDE DEF shard
  <2>1. dict \subseteq Keys
    BY DEF ScanInv
  <2>2. IsFiniteSet(Keys)
    BY ScanConstants
  <2> HIDE DEF dict
  <2>3. Cardinality(dict) \in Nat
    BY <2>1, <2>2, FS_Subset, FS_CardinalityType
  <2>4. count \in Nat
    BY DEF ScanInv
  <2>5. QED
    BY <2>3, <2>4, ScanBitsType
<1> HIDE DEF bits
<1>5. PICK lo \in 0..N-1, hi \in 1..N :
           /\ lo <= ReverseBits(intra) /\ ReverseBits(intra) < hi
           /\ \A h \in 0..N-1 :
                h % TwoTo[bits] = intra % TwoTo[bits]
                  <=> lo <= ReverseBits(h) /\ ReverseBits(h) < hi
           /\ next \in 0..N-1
           /\ hi = N => next = 0
           /\ hi < N => next # 0 /\ ReverseBits(next) = hi
  <2> HIDE DEF intra
  <2>1. QED
    BY <1>3, <1>4, BucketIsInterval
<1> HIDE DEF next
<1>6. next = 0 <=> hi = N
  <2> HIDE DEF N
  <2>1. QED
    BY <1>2, <1>5
<1> DEFINE from == shard * N + lo
           to == shard * N + hi
<1>7. from \in 0..ShardCount*N-1 /\ to \in 1..ShardCount*N
      /\ (to < ShardCount * N <=> ~last)
  <2> HIDE DEF N, shard
  <2>1. QED
    BY <1>2, <1>3, <1>5, <1>6, LineStart, LineEnd
<1>8. /\ cursor' \in Nat
      /\ cursor' \div ShardCount \in 0..N-1
      /\ (cursor' % ShardCount) * N + ReverseBits(cursor' \div ShardCount)
           = IF to < ShardCount * N THEN to ELSE 0
      /\ last => cursor' = 0
  <2> HIDE DEF shard, N
  <2>1. CASE last
    <3>1. cursor' = 0 /\ 0 % ShardCount = 0 /\ 0 \div ShardCount = 0 /\ ~(to < ShardCount * N)
      BY <1>1, <1>2, <1>7, <2>1
    <3>2. 0 * N + ReverseBits(0) = 0 /\ 0 \in 0..N-1
      BY <1>2, Sizes
    <3>3. QED
      BY <3>1, <3>2
  <2>2. CASE ~last /\ next = 0
    <3>1. cursor' = shard + 1 /\ shard + 1 \in 0..ShardCount-1
      BY <1>1, <1>2, <1>3, <2>2
    <3>2. (shard + 1) % ShardCount = shard + 1 /\ (shard + 1) \div ShardCount = 0
      <4>1. 0 * ShardCount + (shard + 1) = shard + 1
        BY <1>2, <1>3
      <4>2. QED
        BY <1>2, <3>1, <4>1, Quotient
    <3>3. (shard + 1) * N + ReverseBits(0) = shard * N + N /\ 0 \in 0..N-1
      BY <1>2, <1>3, Sizes
    <3>4. hi = N /\ to < ShardCount * N
      BY <1>6, <1>7, <2>2
    <3>5. QED
      BY <1>3, <2>2, <3>1, <3>2, <3>3, <3>4
  <2>3. CASE next # 0
    <3>1. cursor' = next * ShardCount + shard /\ ~last /\ hi < N
      BY <1>1, <1>2, <1>5, <1>6, <2>3
    <3>2. next \in Nat
      BY <1>2, <1>5
    <3>3. cursor' % ShardCount = shard /\ cursor' \div ShardCount = next /\ cursor' \in Nat
      BY <1>2, <1>3, <3>1, <3>2, Quotient
    <3>4. QED
      BY <1>5, <1>7, <3>1, <3>3
  <2>4. QED
    BY <2>1, <2>2, <2>3
<1>9. iterating = TRUE /\ iterating' \in BOOLEAN
  <2>1. iterating
    BY <1>1 DEF ScanInv
  <2>2. iterating \in BOOLEAN
    BY Zenon DEF ScanInv
  <2>3. iterating' \in BOOLEAN
    BY <1>1, Zenon
  <2>4. QED
    BY <2>1, <2>2, <2>3, Zenon
<1>10. ScanInv'
  <2> HIDE DEF last, N
  <2>1. iterating' \in BOOLEAN
    BY <1>9, Zenon
  <2>2. present' \subseteq Keys /\ dead' \subseteq Keys /\ present' \cap dead' = {}
        /\ steady' \subseteq present'
    BY <1>1 DEF ScanInv
  <2>3. count' \in Nat /\ (count' # 0 => iterating') /\ (~iterating' => cursor' = 0)
    BY <1>1, <1>8 DEF ScanInv
  <2>4. cursor' \in Nat /\ cursor' \div ShardCount \in 0..TwoTo[MaxBits]-1
    BY <1>8 DEF N
  <2>5. QED
    BY <2>1, <2>2, <2>3, <2>4 DEF ScanInv
<1>11. returned' = returned \cup
         {k \in present :
            /\ from <= [j \in Keys |-> ShardOf[j] * N + ReverseBits(Hash[j])][k]
            /\ [j \in Keys |-> ShardOf[j] * N + ReverseBits(Hash[j])][k] < to}
  <2> DEFINE Place == [j \in Keys |-> ShardOf[j] * N + ReverseBits(Hash[j])]
  <2>1. ASSUME NEW k \in present
        PROVE  k \in hits <=> from <= Place[k] /\ Place[k] < to
    <3>1. k \in Keys /\ k \notin dead
      BY DEF ScanInv
    <3>2. ShardOf[k] \in Nat /\ Hash[k] \in 0..N-1 /\ ReverseBits(Hash[k]) \in 0..N-1
      <4>1. ShardOf[k] \in 0..ShardCount-1 /\ Hash[k] \in 0..N-1
        BY <3>1, ScanConstants
      <4>2. QED
        BY <1>2, <4>1, Sizes
    <3>3. k \in hits <=> ShardOf[k] = shard /\ Hash[k] % TwoTo[bits] = intra % TwoTo[bits]
      <4> HIDE DEF shard, intra
      <4>1. QED
        BY <3>1
    <3>4. Place[k] = ShardOf[k] * N + ReverseBits(Hash[k])
      BY <3>1
    <3> HIDE DEF hits, shard, intra, Place, N
    <3>5. from <= Place[k] /\ Place[k] < to
            <=> shard = ShardOf[k] /\ lo <= ReverseBits(Hash[k]) /\ ReverseBits(Hash[k]) < hi
      <4> DEFINE x == ReverseBits(Hash[k])
                 t == ShardOf[k]
      <4>1. x \in 0..N-1 /\ t \in Nat /\ Place[k] = t * N + x
        BY <3>2, <3>4
      <4> HIDE DEF x, t
      <4>2. shard * N + lo <= t * N + x /\ t * N + x < shard * N + hi
              <=> shard = t /\ lo <= x /\ x < hi
        BY <1>2, <1>3, <4>1, LinePlace
      <4>3. QED
        BY <4>1, <4>2 DEF x, t
    <3>6. QED
      BY <1>5, <3>2, <3>3, <3>5
  <2>2. hits \subseteq present
    <3> HIDE DEF shard, intra
    <3>1. QED
      OBVIOUS
  <2> HIDE DEF hits, Place, from, to
  <2>3. hits = {k \in present : from <= Place[k] /\ Place[k] < to}
    BY <2>1, <2>2
  <2>4. QED
    BY <1>1, <2>3 DEF Place
<1>12. Line!Walk(from, to)
  <2>1. iterating' = (to < ShardCount * N)
    <3>1. iterating' = ~last
      BY <1>1
    <3>2. (~last) = (to < ShardCount * N)
      <4>1. (to < ShardCount * N) <=> ~last
        BY <1>7
      <4> HIDE DEF to, last, N
      <4>2. QED
        BY <4>1
    <3> HIDE DEF to, last, N
    <3>3. QED
      BY <3>1, <3>2, Zenon
  <2>2. LET pos == (cursor % ShardCount) * N + ReverseBits(cursor \div ShardCount)
        IN from <= pos /\ pos < to
    <3>1. shard * N \in Nat
      BY <1>2, <1>3
    <3>2. ReverseBits(intra) \in Nat
      BY <1>2, <1>3, Sizes
    <3> HIDE DEF N
    <3>3. QED
      BY <1>2, <1>5, <3>1, <3>2
  <2> HIDE DEF from, to
  <2>3. QED
    BY <1>1, <1>8, <1>9, <1>11, <2>1, <2>2 DEF Line!Walk, Position
<1>13. QED
  <2> HIDE DEF from, to
  <2>1. QED
    BY <1>7, <1>10, <1>12

(* Every other step is the beginning of a walk, a writer's, or none.       *)
LEMMA OthersChangeOrBegin ==
  ASSUME ScanInv,
         \/ \E n \in Counts : Call(n)
         \/ \E k \in Keys : Add(k) \/ RemoveKey(k) \/ Expire(k)
  PROVE  ScanInv' /\ (Line!Begin \/ Line!Change \/ UNCHANGED Line!vars)
<1>1. ASSUME NEW n \in Counts, Call(n)
      PROVE  ScanInv' /\ (Line!Begin \/ UNCHANGED Line!vars)
  <2>1. n \in Nat /\ iterating' = TRUE
    BY <1>1, ScanConstants DEF Call
  <2>2. iterating' \in BOOLEAN
    BY <2>1, Zenon
  <2>3. ScanInv'
    BY <1>1, <2>1, <2>2 DEF Call, ScanInv
  <2>4. CASE iterating
    <3>1. iterating \in BOOLEAN
      BY Zenon DEF ScanInv
    <3>2. iterating' = iterating
      BY <2>1, <2>4, <3>1, Zenon
    <3>3. QED
      BY <1>1, <2>3, <2>4, <3>2 DEF Call, Line!vars, Position
  <2>5. CASE ~iterating
    BY <1>1, <2>1, <2>3, <2>5 DEF Call, Line!Begin, Position
  <2>6. QED
    BY <2>4, <2>5
<1>2. ASSUME NEW k \in Keys, Add(k) \/ RemoveKey(k) \/ Expire(k)
      PROVE  ScanInv' /\ Line!Change
  <2>1. UNCHANGED <<cursor, iterating, count, examined, returned>>
    BY <1>2 DEF Add, RemoveKey, Expire
  <2>2. /\ present' \subseteq Keys /\ dead' \subseteq Keys
        /\ present' \cap dead' = {} /\ steady' = steady \cap present'
    BY <1>2 DEF Add, RemoveKey, Expire, ScanInv
  <2>3. iterating' \in BOOLEAN
    BY <2>1, Zenon DEF ScanInv
  <2>4. ScanInv'
    BY <2>1, <2>2, <2>3 DEF ScanInv
  <2>5. Line!Change
    BY <2>1, <2>2 DEF Line!Change, Position
  <2>6. QED
    BY <2>4, <2>5
<1>3. QED
  BY <1>1, <1>2

LEMMA ScanStep ==
  ASSUME ScanInv, [Next]_vars
  PROVE  ScanInv' /\ [Line!Next]_(Line!vars)
<1>1. CASE Visit
  BY <1>1, VisitWalks DEF Line!Next
<1>2. CASE \/ \E n \in Counts : Call(n)
           \/ \E k \in Keys : Add(k) \/ RemoveKey(k) \/ Expire(k)
  BY <1>2, OthersChangeOrBegin DEF Line!Next
<1>3. CASE UNCHANGED vars
  <2>1. ScanInv'
    <3>1. iterating' \in BOOLEAN
      BY <1>3, Zenon DEF ScanInv, vars
    <3>2. QED
      BY <1>3, <3>1 DEF ScanInv, vars
  <2>2. UNCHANGED Line!vars
    BY <1>3 DEF vars, Line!vars, Position
  <2>3. QED
    BY <2>1, <2>2
<1>4. QED
  BY <1>1, <1>2, <1>3 DEF Next

LEMMA ScanStart == Init => ScanInv /\ Line!Init
<1> SUFFICES ASSUME Init PROVE ScanInv /\ Line!Init
  OBVIOUS
<1>1. 0 % ShardCount = 0 /\ 0 \div ShardCount = 0 /\ 0 \in 0..TwoTo[MaxBits]-1
      /\ 0 * TwoTo[MaxBits] + ReverseBits(0) = 0
  BY Sizes
<1>2. iterating \in BOOLEAN /\ iterating = FALSE
  BY Zenon DEF Init
<1>3. ScanInv
  BY <1>1, <1>2 DEF Init, ScanInv
<1>4. Line!Init
  BY <1>1, <1>2 DEF Init, Line!Init, Position
<1>5. QED
  BY <1>3, <1>4

(* The cursor is always a bucket of a shard, and 0 when no iteration runs. *)
THEOREM ScanInvariant == Spec => []ScanInv
<1>1. ScanInv /\ [Next]_vars => ScanInv'
  BY ScanStep
<1>2. QED
  BY <1>1, ScanStart, PTL DEF Spec

(* cmd_scan's cursor arithmetic, for any number of shards and buckets, any *)
(* hash and any mixture of COUNT and of writers, walks the line of Sweep:  *)
(* every visit starts at or before the cursor and ends where the next one  *)
(* goes on.                                                                *)
THEOREM ScanImplementsSweep == Spec => ScanSweeps
<1>1. ScanInv /\ [Next]_vars => [Line!Next]_(Line!vars)
  BY ScanStep
<1>2. QED
  BY <1>1, ScanStart, ScanInvariant, PTL DEF Spec, ScanSweeps, Line!Spec

(* Every visit that does not end the iteration takes it further, whatever  *)
(* COUNT and the number of buckets are and were: an iteration has at most  *)
(* as many visits as there are positions, which is why ScanEnds.           *)
VisitsAdvance == [][Visit /\ iterating' => Position' > Position]_vars

(* The cursor of cmd_scan never comes back to where it was within an       *)
(* iteration, for any number of shards and buckets and although every call *)
(* may use another number of buckets than the one before.                  *)
THEOREM ScanVisitsAdvance == Spec => VisitsAdvance
<1>1. ScanInv /\ [Next]_vars => [Visit /\ iterating' => Position' > Position]_vars
  <2> SUFFICES ASSUME ScanInv, Visit, iterating' PROVE Position' > Position
    BY DEF vars
  <2>1. PICK lo \in 0..ShardCount*TwoTo[MaxBits]-1, hi \in 1..ShardCount*TwoTo[MaxBits] :
          Line!Walk(lo, hi)
    BY VisitWalks
  <2>2. iterating' = (hi < ShardCount * TwoTo[MaxBits])
    BY <2>1 DEF Line!Walk
  <2>3. hi < ShardCount * TwoTo[MaxBits]
    BY <2>2, Zenon
  <2>4. Position < hi /\ Position' = hi
    BY <2>1, <2>3 DEF Line!Walk
  <2>5. QED
    BY <2>4
<1>2. QED
  BY <1>1, ScanInvariant, PTL DEF Spec, VisitsAdvance

-----------------------------------------------------------------------------
(* The guarantee of Sweep, carried back to SCAN.                           *)

Guarantee == INSTANCE SweepProofs WITH
  Places  <- ShardCount * TwoTo[MaxBits],
  Place   <- [k \in Keys |-> ShardOf[k] * TwoTo[MaxBits] + ReverseBits(Hash[k])],
  walking <- iterating,
  pos     <- Position

LEMMA LineHoldsKeys == Guarantee!KeysOnLine
<1> DEFINE N == TwoTo[MaxBits]
<1>1. ShardCount * N \in Nat \ {0}
  <2> HIDE DEF N
  <2>1. QED
    BY Sizes DEF N
<1>2. ASSUME NEW k \in Keys
      PROVE  ShardOf[k] * N + ReverseBits(Hash[k]) \in 0..ShardCount*N-1
  <2>1. ShardOf[k] \in 0..ShardCount-1 /\ ReverseBits(Hash[k]) \in 0..N-1
    BY ScanConstants, Sizes
  <2>2. N \in Nat \ {0} /\ ShardCount \in Nat \ {0}
    BY Sizes
  <2> HIDE DEF N
  <2>3. QED
    BY <2>1, <2>2, LineStart
<1>3. QED
  BY <1>1, <1>2 DEF Guarantee!KeysOnLine

(* cmd_scan's guarantee: "a key present from the start of a full iteration *)
(* to its end is returned at least once", whatever is created, removed and *)
(* expired meanwhile and whatever COUNT each call gives.                   *)
THEOREM ScanIsComplete == Spec => []ScanComplete
<1>1. Guarantee!Spec => []Guarantee!Complete
  BY LineHoldsKeys, Guarantee!SweepComplete
<1>2. Init => Guarantee!Init
  BY ScanStart DEF Line!Init, Guarantee!Init
<1>3. ScanInv /\ [Next]_vars => [Guarantee!Next]_(Guarantee!vars)
  <2>1. Line!Next => Guarantee!Next
    BY DEF Line!Next, Line!Change, Line!Begin, Line!Walk,
           Guarantee!Next, Guarantee!Change, Guarantee!Begin, Guarantee!Walk
  <2>2. Line!vars = Guarantee!vars /\ Line!vars' = Guarantee!vars'
    BY DEF Line!vars, Guarantee!vars
  <2>3. QED
    BY <2>1, <2>2, ScanStep
<1>4. Guarantee!Complete <=> ScanComplete
  BY DEF Guarantee!Complete, ScanComplete
<1>5. QED
  BY <1>1, <1>2, <1>3, <1>4, ScanInvariant, PTL DEF Spec, Guarantee!Spec
=============================================================================
