----------------------------- MODULE ListProofs -----------------------------
(***************************************************************************)
(* Lemmas about the operations on lists: what each leaves of its argument. *)
(* They are stated with positions, as the invariants use them.             *)
(***************************************************************************)
EXTENDS Lists, SequencesExt, SequenceTheorems, FiniteSetTheorems, TLAPS

\* QList::removeAt, takeAt: the positions after k move down by one.
LEMMA RemoveAtPositions ==
  ASSUME NEW S, NEW s \in Seq(S), NEW k \in 1 .. Len(s)
  PROVE  /\ RemoveAt(s, k) \in Seq(S)
         /\ Len(RemoveAt(s, k)) = Len(s) - 1
         /\ \A j \in 1 .. Len(s) - 1 :
              RemoveAt(s, k)[j] = IF j < k THEN s[j] ELSE s[j + 1]
<1> DEFINE a == SubSeq(s, 1, k - 1)
           b == SubSeq(s, k + 1, Len(s))
<1>1. \A j \in 1 .. Len(s) : s[j] \in S
  BY ElementOfSeq
<1>2. /\ a \in Seq(S) /\ Len(a) = k - 1
      /\ \A j \in 1 .. k - 1 : a[j] = s[j]
  <2>1. \A j \in 1 .. k - 1 : s[j] \in S
    BY <1>1
  <2>2. QED
    BY <2>1, SubSeqProperties, k - 1 \in Int, k >= 1
<1>3. /\ b \in Seq(S) /\ Len(b) = Len(s) - k
      /\ \A j \in 1 .. Len(s) - k : b[j] = s[k + j]
  <2>1. \A j \in k + 1 .. Len(s) : s[j] \in S
    BY <1>1
  <2>2. /\ b \in Seq(S)
        /\ Len(b) = IF k + 1 <= Len(s) THEN Len(s) - (k + 1) + 1 ELSE 0
        /\ \A j \in 1 .. Len(s) - (k + 1) + 1 : b[j] = s[(k + 1) + j - 1]
    BY <2>1, SubSeqProperties, k + 1 \in Int, Len(s) \in Int
  <2>3. QED
    BY <2>2
<1>4. /\ a \o b \in Seq(S)
      /\ Len(a \o b) = Len(a) + Len(b)
      /\ \A j \in 1 .. Len(a) + Len(b) :
           (a \o b)[j] = IF j <= Len(a) THEN a[j] ELSE b[j - Len(a)]
  BY <1>2, <1>3, ConcatProperties
<1> HIDE DEF a, b
<1>5. /\ a \o b \in Seq(S) /\ Len(a \o b) = Len(s) - 1
      /\ \A j \in 1 .. Len(s) - 1 : (a \o b)[j] = IF j < k THEN s[j] ELSE s[j + 1]
  BY <1>2, <1>3, <1>4
<1>6. QED
  BY <1>5 DEF RemoveAt, a, b

\* QList::insert: the positions from k on move up by one.
LEMMA InsertAtPositions ==
  ASSUME NEW S, NEW s \in Seq(S), NEW k \in 1 .. Len(s) + 1, NEW e \in S
  PROVE  /\ InsertAt(s, k, e) \in Seq(S)
         /\ Len(InsertAt(s, k, e)) = Len(s) + 1
         /\ \A j \in 1 .. Len(s) + 1 :
              InsertAt(s, k, e)[j] =
                IF j < k THEN s[j] ELSE IF j = k THEN e ELSE s[j - 1]
<1> DEFINE a == SubSeq(s, 1, k - 1)
           b == SubSeq(s, k, Len(s))
           c == a \o <<e>>
<1>1. \A j \in 1 .. Len(s) : s[j] \in S
  BY ElementOfSeq
<1>2. /\ a \in Seq(S) /\ Len(a) = k - 1
      /\ \A j \in 1 .. k - 1 : a[j] = s[j]
  <2>1. \A j \in 1 .. k - 1 : s[j] \in S
    BY <1>1
  <2>2. QED
    BY <2>1, SubSeqProperties, k - 1 \in Int, k >= 1
<1>3. /\ b \in Seq(S) /\ Len(b) = Len(s) + 1 - k
      /\ \A j \in 1 .. Len(s) + 1 - k : b[j] = s[k + j - 1]
  <2>1. \A j \in k .. Len(s) : s[j] \in S
    BY <1>1
  <2>2. /\ b \in Seq(S)
        /\ Len(b) = IF k <= Len(s) THEN Len(s) - k + 1 ELSE 0
        /\ \A j \in 1 .. Len(s) - k + 1 : b[j] = s[k + j - 1]
    BY <2>1, SubSeqProperties, k \in Int, Len(s) \in Int
  <2>3. QED
    BY <2>2
<1>4. /\ c \in Seq(S) /\ Len(c) = k
      /\ \A j \in 1 .. k : c[j] = IF j < k THEN s[j] ELSE e
  <2>1. <<e>> \in Seq(S) /\ Len(<<e>>) = 1 /\ <<e>>[1] = e
    OBVIOUS
  <2>2. /\ c \in Seq(S) /\ Len(c) = Len(a) + Len(<<e>>)
        /\ \A j \in 1 .. Len(a) + Len(<<e>>) :
             c[j] = IF j <= Len(a) THEN a[j] ELSE <<e>>[j - Len(a)]
    BY <1>2, <2>1, ConcatProperties
  <2> HIDE DEF a, c
  <2>3. QED
    BY <1>2, <2>1, <2>2
<1> HIDE DEF a, b, c
<1>5. /\ c \o b \in Seq(S)
      /\ Len(c \o b) = Len(c) + Len(b)
      /\ \A j \in 1 .. Len(c) + Len(b) :
           (c \o b)[j] = IF j <= Len(c) THEN c[j] ELSE b[j - Len(c)]
  <2>1. b \in Seq(S) /\ c \in Seq(S)
    BY <1>3, <1>4
  <2>2. QED
    BY <2>1, ConcatProperties
<1>a. Len(s) \in Nat /\ k \in Int /\ Len(c) + Len(b) = Len(s) + 1
  BY <1>3, <1>4
<1>b. ASSUME NEW j \in 1 .. Len(s) + 1
      PROVE  (c \o b)[j] = IF j < k THEN s[j] ELSE IF j = k THEN e ELSE s[j - 1]
  <2>1. CASE j <= k
    <3>1. j \in 1 .. k /\ j \in 1 .. Len(c) + Len(b) /\ j <= Len(c)
      BY <1>4, <1>a, <2>1
    <3>2. (c \o b)[j] = c[j]
      BY <1>5, <3>1
    <3>3. QED
      BY <1>4, <3>1, <3>2
  <2>2. CASE j > k
    <3>1. (c \o b)[j] = b[j - k] /\ j - k \in 1 .. Len(s) + 1 - k
      BY <1>4, <1>5, <1>a, <2>2
    <3>2. b[j - k] = s[(j - k) + k - 1] /\ (j - k) + k - 1 = j - 1
      BY <1>3, <1>a, <3>1
    <3>3. QED
      BY <1>a, <2>2, <3>1, <3>2
  <2>3. QED
    BY <1>a, <2>1, <2>2
<1>6. /\ c \o b \in Seq(S) /\ Len(c \o b) = Len(s) + 1
      /\ \A j \in 1 .. Len(s) + 1 :
           (c \o b)[j] = IF j < k THEN s[j] ELSE IF j = k THEN e ELSE s[j - 1]
  BY <1>5, <1>a, <1>b
<1>7. QED
  BY <1>6 DEF InsertAt, a, b, c

\* A list in which the rule k is replaced.
LEMMA ReplacePositions ==
  ASSUME NEW S, NEW s \in Seq(S), NEW k \in 1 .. Len(s), NEW e \in S
  PROVE  /\ [s EXCEPT ![k] = e] \in Seq(S)
         /\ Len([s EXCEPT ![k] = e]) = Len(s)
         /\ \A j \in 1 .. Len(s) :
              [s EXCEPT ![k] = e][j] = IF j = k THEN e ELSE s[j]
  OBVIOUS

-----------------------------------------------------------------------------
(* Erasing the elements at some positions.                                 *)

\* f numbers the positions P from 1 to n, in their order.
Numera(f, n, P) ==
  /\ f \in [1 .. n -> P]
  /\ \A j, k \in 1 .. n : j < k => f[j] < f[k]
  /\ \A p \in P : \E j \in 1 .. n : f[j] = p

\* A set of positions of a list is finite, and none is counted twice.
LEMMA OrdenPosiciones ==
  ASSUME NEW n \in Nat, NEW P \in SUBSET (1 .. n)
  PROVE  /\ IsFiniteSet(P) /\ Cardinality(P) \in Nat
         /\ \A k \in P : Orden(P, k) \in 1 .. Cardinality(P)
         /\ \A j, k \in P : j < k => Orden(P, j) < Orden(P, k)
<1>0. \A k \in P : k \in Int
  OBVIOUS
<1>1. IsFiniteSet(P) /\ Cardinality(P) \in Nat
  <2>1. IsFiniteSet(1 .. n)
    BY 1 \in Int, n \in Int, FS_Interval
  <2>2. IsFiniteSet(P)
    BY <2>1, FS_Subset
  <2>3. QED
    BY <2>2, FS_CardinalityType
<1> DEFINE Hasta(k) == {j \in P : j <= k}
<1>2. ASSUME NEW k \in P
      PROVE  /\ IsFiniteSet(Hasta(k)) /\ Cardinality(Hasta(k)) \in 1 .. Cardinality(P)
  <2>1. Hasta(k) \in SUBSET P
    OBVIOUS
  <2>2. IsFiniteSet(Hasta(k)) /\ Cardinality(Hasta(k)) <= Cardinality(P)
    BY <1>1, <2>1, FS_Subset
  <2>3. Cardinality(Hasta(k)) \in Nat
    BY <2>2, FS_CardinalityType
  <2>4. k \in Hasta(k)
    OBVIOUS
  <2>5. Cardinality(Hasta(k)) # 0
    BY <2>2, <2>4, FS_EmptySet
  <2>6. QED
    BY <1>1, <2>2, <2>3, <2>5
<1>3. ASSUME NEW j \in P, NEW k \in P, j < k
      PROVE  Cardinality(Hasta(j)) < Cardinality(Hasta(k))
  <2>0. j \in Int /\ k \in Int
    BY <1>0
  <2>a. \A m \in P : m <= j => m <= k
    BY <1>0, <1>3, <2>0
  <2>b. ~ k <= j /\ k <= k
    BY <1>3, <2>0
  <2>1. Hasta(j) \in SUBSET Hasta(k) /\ k \notin Hasta(j) /\ k \in Hasta(k)
    BY <2>a, <2>b
  <2>2. /\ Cardinality(Hasta(j)) <= Cardinality(Hasta(k))
        /\ Cardinality(Hasta(k)) = Cardinality(Hasta(j)) => Hasta(k) = Hasta(j)
    BY <1>2, <2>1, FS_Subset
  <2>3. QED
    BY <1>1, <1>2, <2>1, <2>2
<1>4. QED
  BY <1>1, <1>2, <1>3 DEF Orden

\* Every number up to how many there are is the order of one of them.
LEMMA OrdenAlcanza ==
  ASSUME NEW n \in Nat, NEW P \in SUBSET (1 .. n), NEW j \in 1 .. Cardinality(P)
  PROVE  \E k \in P : Orden(P, k) = j
<1> DEFINE g == [k \in P |-> Orden(P, k)]
<1>1. IsFiniteSet(P) /\ Cardinality(P) \in Nat
  BY OrdenPosiciones
<1>2. g \in Injection(P, 1 .. Cardinality(P))
  <2>1. g \in [P -> 1 .. Cardinality(P)]
    BY OrdenPosiciones
  <2>2. ASSUME NEW a \in P, NEW b \in P, a # b PROVE g[a] # g[b]
    <3>1. a < b \/ b < a
      BY <2>2
    <3>2. Orden(P, a) \in 1 .. Cardinality(P) /\ Orden(P, b) \in 1 .. Cardinality(P)
      BY OrdenPosiciones
    <3>3. Orden(P, a) < Orden(P, b) \/ Orden(P, b) < Orden(P, a)
      BY <3>1, OrdenPosiciones
    <3>4. Orden(P, a) # Orden(P, b)
      BY <1>1, <3>2, <3>3
    <3>5. QED
      BY <3>4
  <2>3. QED
    BY <2>1, <2>2 DEF Injection, IsInjective
<1>3. IsFiniteSet(1 .. Cardinality(P)) /\ Cardinality(1 .. Cardinality(P)) = Cardinality(P)
  BY <1>1, FS_Interval
<1>4. g \in Surjection(P, 1 .. Cardinality(P))
  BY <1>2, <1>3, FS_Injection
<1>5. QED
  BY <1>4 DEF Surjection

\* Some positions of a list have a first and a last.
LEMMA PrimeraYUltima ==
  ASSUME NEW n \in Nat, NEW P \in SUBSET (1 .. n), P # {}
  PROVE  /\ \E k \in P : \A j \in P : k <= j
         /\ \E k \in P : \A j \in P : j <= k
<1> DEFINE c == Cardinality(P)
<1>1. /\ IsFiniteSet(P) /\ c \in Nat
      /\ \A k \in P : Orden(P, k) \in 1 .. c
  BY OrdenPosiciones
<1>2. ASSUME NEW j \in P, NEW k \in P, Orden(P, k) <= Orden(P, j) PROVE k <= j
  <2>1. j < k => Orden(P, j) < Orden(P, k)
    BY OrdenPosiciones
  <2>2. Orden(P, j) \in Int /\ Orden(P, k) \in Int /\ j \in Int /\ k \in Int
    BY <1>1
  <2>3. QED
    BY <1>2, <2>1, <2>2
<1>3. c >= 1
  <2>1. PICK k \in P : TRUE
    OBVIOUS
  <2>2. Orden(P, k) \in 1 .. c
    BY <1>1
  <2>3. QED
    BY <1>1, <2>2
<1>4. PICK u \in P : Orden(P, u) = c
  BY <1>1, <1>3, c \in 1 .. c, OrdenAlcanza
<1>5. PICK v \in P : Orden(P, v) = 1
  BY <1>1, <1>3, 1 \in 1 .. c, OrdenAlcanza
<1>6. \A j \in P : Orden(P, j) <= c /\ 1 <= Orden(P, j)
  BY <1>1
<1> HIDE DEF c
<1>7. QED
  BY <1>2, <1>4, <1>5, <1>6

\* What is left is at increasing positions f[1], f[2]... of the list, and they
\* are the positions P.
LEMMA EnOrdenPosiciones ==
  ASSUME NEW S, NEW s \in Seq(S), NEW P \in SUBSET (1 .. Len(s))
  PROVE  /\ EnOrden(s, P) \in Seq(S)
         /\ Len(EnOrden(s, P)) \in Nat
         /\ \E f :
              /\ Numera(f, Len(EnOrden(s, P)), P)
              /\ \A j \in 1 .. Len(EnOrden(s, P)) : EnOrden(s, P)[j] = s[f[j]]
<1> DEFINE c == Cardinality(P)
           f == [j \in 1 .. c |-> CHOOSE k \in P : Orden(P, k) = j]
<1>0. Len(s) \in Nat
  OBVIOUS
<1>1. /\ Len(s) \in Nat /\ c \in Nat
      /\ \A k \in P : k \in Int /\ Orden(P, k) \in 1 .. c
      /\ \A j, k \in P : j < k => Orden(P, j) < Orden(P, k)
  <2>1. c \in Nat /\ \A k \in P : Orden(P, k) \in 1 .. c
    BY <1>0, OrdenPosiciones
  <2>2. \A j, k \in P : j < k => Orden(P, j) < Orden(P, k)
    BY <1>0, OrdenPosiciones
  <2>3. \A k \in P : k \in Int
    BY <1>0
  <2>4. QED
    BY <1>0, <2>1, <2>2, <2>3
<1>a. ASSUME NEW a \in P, NEW b \in P, a < b PROVE Orden(P, a) < Orden(P, b)
  BY <1>1, <1>a
<1>b. ASSUME NEW a \in P PROVE a \in Int /\ Orden(P, a) \in Int
  BY <1>1
<1>2. ASSUME NEW j \in 1 .. c PROVE f[j] \in P /\ Orden(P, f[j]) = j
  <2>1. \E k \in P : Orden(P, k) = j
    BY <1>0, OrdenAlcanza
  <2>2. QED
    BY <2>1
<1>3. EnOrden(s, P) = [j \in 1 .. c |-> s[f[j]]]
  BY DEF EnOrden
<1> HIDE DEF f, c
<1>4. \A j \in 1 .. c : s[f[j]] \in S
  BY <1>2, ElementOfSeq
<1>5. EnOrden(s, P) \in Seq(S) /\ Len(EnOrden(s, P)) = c
  BY <1>1, <1>3, <1>4
<1>6. f \in [1 .. c -> P]
  BY <1>2 DEF f
<1>7. ASSUME NEW j \in 1 .. c, NEW k \in 1 .. c, j < k PROVE f[j] < f[k]
  <2>1. f[j] \in P /\ f[k] \in P /\ Orden(P, f[j]) < Orden(P, f[k])
    BY <1>2, <1>7
  <2>2. f[j] \in Int /\ f[k] \in Int /\ Orden(P, f[j]) \in Int /\ Orden(P, f[k]) \in Int
    BY <1>b, <2>1
  <2>3. f[k] < f[j] => Orden(P, f[k]) < Orden(P, f[j])
    BY <1>a, <2>1
  <2>4. f[k] # f[j]
    BY <2>1, <2>2
  <2>5. QED
    BY <2>1, <2>2, <2>3, <2>4
<1>8. ASSUME NEW p \in P PROVE \E j \in 1 .. c : f[j] = p
  <2>1. Orden(P, p) \in 1 .. c
    BY <1>1
  <2>2. f[Orden(P, p)] \in P /\ Orden(P, f[Orden(P, p)]) = Orden(P, p)
    BY <1>2, <2>1
  <2> DEFINE q == f[Orden(P, p)]
  <2>3. q \in P /\ Orden(P, q) = Orden(P, p)
    BY <2>2
  <2>7. q \in Int /\ p \in Int /\ Orden(P, p) \in Int
    BY <1>b, <2>3
  <2>4. /\ p < q => Orden(P, p) < Orden(P, q)
        /\ q < p => Orden(P, q) < Orden(P, p)
    BY <1>a, <2>3
  <2> HIDE DEF q
  <2>5. q = p
    BY <2>3, <2>4, <2>7
  <2>6. QED
    BY <2>1, <2>5 DEF q
<1>9. \A j \in 1 .. c : EnOrden(s, P)[j] = s[f[j]]
  BY <1>3
<1>10. QED
  BY <1>1, <1>5, <1>6, <1>7, <1>8, <1>9 DEF Numera

\* ... and only they are: the increasing numbering of P is the one EnOrden uses.
LEMMA EnOrdenUnico ==
  ASSUME NEW S, NEW s \in Seq(S), NEW P \in SUBSET (1 .. Len(s)), NEW n \in Nat,
         NEW f, Numera(f, n, P)
  PROVE  EnOrden(s, P) = [j \in 1 .. n |-> s[f[j]]]
<1>0. Len(s) \in Nat
  OBVIOUS
<1>a. /\ f \in [1 .. n -> P]
      /\ \A j, k \in 1 .. n : j < k => f[j] < f[k]
      /\ \A p \in P : \E j \in 1 .. n : f[j] = p
  BY DEF Numera
<1>1. ASSUME NEW j \in 1 .. n PROVE f[j] \in P /\ f[j] \in Int
  <2>1. f[j] \in P
    BY <1>a
  <2>2. f[j] \in 1 .. Len(s)
    BY <2>1
  <2>3. QED
    BY <2>1, <2>2
<1>2. ASSUME NEW j \in 1 .. n, NEW k \in 1 .. n PROVE f[k] <= f[j] <=> k <= j
  <2>1. f[j] \in Int /\ f[k] \in Int /\ j \in Int /\ k \in Int
    BY <1>1
  <2>2. (j < k => f[j] < f[k]) /\ (k < j => f[k] < f[j])
    BY <1>a
  <2>3. CASE j = k
    BY <2>1, <2>3
  <2>4. CASE j < k
    BY <2>1, <2>2, <2>4
  <2>5. CASE k < j
    BY <2>1, <2>2, <2>5
  <2>6. QED
    BY <2>1, <2>3, <2>4, <2>5
<1>3. ASSUME NEW j \in 1 .. n, NEW k \in 1 .. n, f[j] = f[k] PROVE j = k
  <2>1. f[j] <= f[k] /\ f[k] <= f[j]
    BY <1>1, <1>3
  <2>2. j <= k /\ k <= j
    BY <1>2, <2>1
  <2>3. QED
    BY <2>2
<1>4. ASSUME NEW m \in 0 .. n, NEW Q, Q \in SUBSET P,
             \A j \in 1 .. n : f[j] \in Q <=> j <= m
      PROVE  Cardinality(Q) = m
  <2> DEFINE g == [j \in 1 .. m |-> f[j]]
  <2>1. g \in [1 .. m -> Q]
    BY <1>4
  <2>2. \A a, b \in 1 .. m : g[a] = g[b] => a = b
    BY <1>3
  <2>3. ASSUME NEW q \in Q PROVE \E j \in 1 .. m : g[j] = q
    <3>1. PICK j \in 1 .. n : f[j] = q
      BY <1>4, <1>a
    <3>2. j <= m
      BY <1>4, <3>1
    <3>3. j \in 1 .. m /\ g[j] = q
      BY <3>1, <3>2
    <3>4. QED
      BY <3>3
  <2>4. g \in Injection(1 .. m, Q)
    BY <2>1, <2>2 DEF Injection, IsInjective
  <2>5. g \in Surjection(1 .. m, Q)
    BY <2>1, <2>3 DEF Surjection
  <2>6. ExistsBijection(1 .. m, Q)
    BY <2>4, <2>5 DEF ExistsBijection, Bijection
  <2>7. IsFiniteSet(1 .. m) /\ Cardinality(1 .. m) = m
    BY 1 \in Int, m \in Int, FS_Interval
  <2>8. Cardinality(Q) = Cardinality(1 .. m)
    BY <2>6, <2>7, FS_Bijection
  <2>9. QED
    BY <2>7, <2>8
<1>5. Cardinality(P) = n
  BY <1>1, <1>4
<1>6. ASSUME NEW j \in 1 .. n PROVE Orden(P, f[j]) = j
  <2> DEFINE Q == {p \in P : p <= f[j]}
  <2>1. \A k \in 1 .. n : f[k] \in Q <=> k <= j
    BY <1>1, <1>2
  <2>2. Q \in SUBSET P
    OBVIOUS
  <2>3. Cardinality(Q) = j
    <3> HIDE DEF Q
    <3>1. QED
      BY <1>4, <2>1, <2>2, j \in 0 .. n
  <2>4. QED
    BY <2>3 DEF Orden
<1>7. ASSUME NEW j \in 1 .. n PROVE (CHOOSE k \in P : Orden(P, k) = j) = f[j]
  <2>1. ASSUME NEW k \in P, Orden(P, k) = j PROVE k = f[j]
    <3>1. PICK i \in 1 .. n : f[i] = k
      BY <1>a
    <3>2. Orden(P, k) = i
      BY <1>6, <3>1
    <3>3. QED
      BY <2>1, <3>1, <3>2
  <2>2. f[j] \in P /\ Orden(P, f[j]) = j
    BY <1>1, <1>6
  <2>3. QED
    BY <2>1, <2>2
<1>8. EnOrden(s, P) = [j \in 1 .. n |-> s[CHOOSE k \in P : Orden(P, k) = j]]
  BY <1>5 DEF EnOrden
<1>9. QED
  BY <1>7, <1>8

\* With nothing to erase the list is what it was.
LEMMA EnOrdenTodo ==
  ASSUME NEW S, NEW s \in Seq(S)
  PROVE  EnOrden(s, 1 .. Len(s)) = s
<1> DEFINE f == [j \in 1 .. Len(s) |-> j]
<1>1. Len(s) \in Nat /\ f \in [1 .. Len(s) -> 1 .. Len(s)]
  OBVIOUS
<1>2. \A j, k \in 1 .. Len(s) : j < k => f[j] < f[k]
  OBVIOUS
<1>3. \A p \in 1 .. Len(s) : \E j \in 1 .. Len(s) : f[j] = p
  OBVIOUS
<1>4. \A j \in 1 .. Len(s) : s[f[j]] = s[j]
  OBVIOUS
<1> HIDE DEF f
<1>5. Numera(f, Len(s), 1 .. Len(s))
  BY <1>1, <1>2, <1>3 DEF Numera
<1>7. EnOrden(s, 1 .. Len(s)) = [j \in 1 .. Len(s) |-> s[f[j]]]
  BY <1>1, <1>5, 1 .. Len(s) \in SUBSET (1 .. Len(s)), EnOrdenUnico
<1>6. QED
  BY <1>4, <1>7

\* An element to be erased may as well be removed before the others.
LEMMA EnOrdenSin ==
  ASSUME NEW S, NEW s \in Seq(S), NEW P \in SUBSET (1 .. Len(s)),
         NEW k \in 1 .. Len(s), k \notin P, NEW Q \in SUBSET (1 .. Len(s) - 1),
         \A j \in 1 .. Len(s) - 1 : j \in Q <=> (IF j < k THEN j ELSE j + 1) \in P
  PROVE  EnOrden(RemoveAt(s, k), Q) = EnOrden(s, P)
<1> DEFINE e == EnOrden(s, P)
           t == RemoveAt(s, k)
           n == Len(e)
<1>0. Len(s) \in Nat /\ k \in Int
  OBVIOUS
<1>1. /\ t \in Seq(S) /\ Len(t) = Len(s) - 1
      /\ \A j \in 1 .. Len(s) - 1 : t[j] = IF j < k THEN s[j] ELSE s[j + 1]
  BY RemoveAtPositions
<1>2. e \in Seq(S) /\ n \in Nat
  BY EnOrdenPosiciones
<1>a. PICK f : Numera(f, n, P) /\ \A j \in 1 .. n : e[j] = s[f[j]]
  BY EnOrdenPosiciones
<1>3. /\ f \in [1 .. n -> P]
      /\ \A j, l \in 1 .. n : j < l => f[j] < f[l]
      /\ \A p \in P : \E j \in 1 .. n : f[j] = p
      /\ \A j \in 1 .. n : e[j] = s[f[j]]
  BY <1>a DEF Numera
<1> DEFINE g == [j \in 1 .. n |-> IF f[j] < k THEN f[j] ELSE f[j] - 1]
<1> HIDE DEF e, t
<1>4. ASSUME NEW j \in 1 .. n
      PROVE  /\ f[j] \in P /\ f[j] \in 1 .. Len(s) /\ f[j] # k
  <2>1. f[j] \in P
    BY <1>3
  <2>2. QED
    BY <2>1
<1>5. ASSUME NEW j \in 1 .. n
      PROVE  g[j] \in 1 .. Len(s) - 1 /\ (IF g[j] < k THEN g[j] ELSE g[j] + 1) = f[j]
  BY <1>0, <1>4
<1>6. g \in [1 .. n -> Q]
  <2>1. ASSUME NEW j \in 1 .. n PROVE g[j] \in Q
    <3>1. (IF g[j] < k THEN g[j] ELSE g[j] + 1) \in P /\ g[j] \in 1 .. Len(s) - 1
      BY <1>4, <1>5
    <3> HIDE DEF g
    <3>2. QED
      BY <3>1
  <2>2. QED
    BY <2>1
<1>7. ASSUME NEW i \in 1 .. n, NEW j \in 1 .. n, i < j PROVE g[i] < g[j]
  <2>1. f[i] < f[j]
    BY <1>3, <1>7
  <2>2. QED
    BY <1>0, <1>4, <2>1
<1>8. ASSUME NEW q \in Q PROVE \E j \in 1 .. n : g[j] = q
  <2>1. (IF q < k THEN q ELSE q + 1) \in P /\ q \in Int
    OBVIOUS
  <2>2. PICK j \in 1 .. n : f[j] = IF q < k THEN q ELSE q + 1
    BY <1>3, <2>1
  <2>3. g[j] = q
    <3>1. q < k \/ q >= k
      BY <1>0, <2>1
    <3>2. CASE q < k
      BY <2>2, <3>2
    <3>3. CASE q >= k
      <4>1. f[j] = q + 1 /\ ~ q + 1 < k /\ ~ q < k
        BY <1>0, <2>1, <2>2, <3>3
      <4>2. QED
        BY <2>1, <4>1
    <3>4. QED
      BY <3>1, <3>2, <3>3
  <2>4. QED
    BY <2>3
<1>9. ASSUME NEW j \in 1 .. n PROVE t[g[j]] = e[j]
  <2>1. t[g[j]] = IF g[j] < k THEN s[g[j]] ELSE s[g[j] + 1]
    BY <1>1, <1>5
  <2>2. t[g[j]] = s[f[j]]
    BY <1>5, <2>1
  <2>3. QED
    BY <1>3, <2>2
<1> HIDE DEF g
<1>10. EnOrden(t, Q) = [j \in 1 .. n |-> t[g[j]]]
  <2>1. Q \in SUBSET (1 .. Len(t))
    BY <1>1
  <2>2. Numera(g, n, Q)
    BY <1>6, <1>7, <1>8 DEF Numera
  <2>3. t \in Seq(S) /\ n \in Nat
    BY <1>1, <1>2
  <2> HIDE DEF n
  <2>4. QED
    BY <2>1, <2>2, <2>3, EnOrdenUnico
<1>11. e = [j \in 1 .. n |-> e[j]]
  BY <1>2
<1>12. EnOrden(t, Q) = e
  BY <1>9, <1>10, <1>11
<1>13. QED
  BY <1>12 DEF e, t
=============================================================================
