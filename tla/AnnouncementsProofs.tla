------------------------ MODULE AnnouncementsProofs ------------------------
(***************************************************************************)
(* Proofs about Announcements, for any uploads, texts, channels and lines, *)
(* and any number of documents and items: the colours that are taken off a *)
(* line, what is found in a line of the bot, types, what is kept of a      *)
(* document from token to token, and the list of recent titles.            *)
(***************************************************************************)
EXTENDS Announcements, ListProofs

-----------------------------------------------------------------------------
(* The colours.                                                            *)

\* There is a digit, or a comma, at k.
Digito(s, k) == k \in 1 .. Len(s) /\ s[k] \in Digitos
Coma(s, k) == k \in 1 .. Len(s) /\ s[k] = ","

\* The positions of a number.
LEMMA NumeroDigitos ==
  ASSUME NEW S, NEW s \in Seq(S), NEW k \in Int, k >= 1, NEW j
  PROVE  j \in Numero(s, k) <=> \/ j = k /\ Digito(s, k)
                                \/ j = k + 1 /\ Digito(s, k) /\ Digito(s, k + 1)
<1>1. Len(s) \in Nat /\ DOMAIN s = 1 .. Len(s)
  BY LenProperties
<1>2. CASE j = k
  <2>1. \A i : i \in k .. k <=> i = k
    OBVIOUS
  <2>2. k # k + 1
    OBVIOUS
  <2>3. k \in Numero(s, k) <=> k \in 1 .. Len(s) /\ \A i \in k .. k : s[i] \in Digitos
    BY <1>1 DEF Numero
  <2>4. (\A i \in k .. k : s[i] \in Digitos) <=> s[k] \in Digitos
    BY <2>1
  <2>5. QED
    BY <1>2, <2>2, <2>3, <2>4 DEF Digito
<1>3. CASE j = k + 1
  <2>1. \A i : i \in k .. k + 1 <=> i = k \/ i = k + 1
    OBVIOUS
  <2>2. k # k + 1 /\ (k + 1 \in 1 .. Len(s) => k \in 1 .. Len(s))
    BY <1>1
  <2>3. k + 1 \in Numero(s, k)
        <=> k + 1 \in 1 .. Len(s) /\ \A i \in k .. k + 1 : s[i] \in Digitos
    BY <1>1 DEF Numero
  <2>4. (\A i \in k .. k + 1 : s[i] \in Digitos) <=> s[k] \in Digitos /\ s[k + 1] \in Digitos
    BY <2>1
  <2>5. QED
    BY <1>3, <2>2, <2>3, <2>4 DEF Digito
<1>4. CASE j # k /\ j # k + 1
  BY <1>4 DEF Numero
<1>5. QED
  BY <1>2, <1>3, <1>4

\* A number has one digit, or two, or there is none.
LEMMA NumeroPosiciones ==
  ASSUME NEW S, NEW s \in Seq(S), NEW k \in Int, k >= 1
  PROVE  /\ ~Digito(s, k) => Numero(s, k) = {} /\ Cardinality(Numero(s, k)) = 0
         /\ Digito(s, k) /\ ~Digito(s, k + 1)
            => Numero(s, k) = {k} /\ Cardinality(Numero(s, k)) = 1
         /\ Digito(s, k) /\ Digito(s, k + 1)
            => Numero(s, k) = {k, k + 1} /\ Cardinality(Numero(s, k)) = 2
<1>1. \A j : j \in Numero(s, k) <=> \/ j = k /\ Digito(s, k)
                                    \/ j = k + 1 /\ Digito(s, k) /\ Digito(s, k + 1)
  <2> TAKE j
  <2>1. QED
    BY NumeroDigitos
<1>2. CASE ~Digito(s, k)
  <2>1. Numero(s, k) = {}
    BY <1>1, <1>2
  <2>2. QED
    BY <1>2, <2>1, FS_EmptySet
<1>3. CASE Digito(s, k) /\ ~Digito(s, k + 1)
  <2>1. Numero(s, k) = {k}
    BY <1>1, <1>3
  <2>2. QED
    BY <1>3, <2>1, FS_Singleton
<1>4. CASE Digito(s, k) /\ Digito(s, k + 1)
  <2>1. Numero(s, k) = {k, k + 1}
    BY <1>1, <1>4
  <2>2. {k, k + 1} = k .. k + 1
    OBVIOUS
  <2>3. Cardinality(k .. k + 1) = 2
    BY k + 1 \in Int, FS_Interval
  <2>4. QED
    BY <1>4, <2>1, <2>2, <2>3
<1>5. QED
  BY <1>2, <1>3, <1>4

\* The positions of a colour that begins at i, among those of the line.
LEMMA CodigoPosiciones ==
  ASSUME NEW S, NEW s \in Seq(S), NEW i \in 1 .. Len(s), NEW k \in 1 .. Len(s)
  PROVE  k \in Codigo(s, i) <=>
           \/ k = i
           \/ k = i + 1 /\ Digito(s, i + 1)
           \/ k = i + 2 /\ Digito(s, i + 1) /\ Digito(s, i + 2)
           \/ /\ Digito(s, i + 1) /\ ~Digito(s, i + 2) /\ Coma(s, i + 2) /\ Digito(s, i + 3)
              /\ (k = i + 2 \/ k = i + 3 \/ (k = i + 4 /\ Digito(s, i + 4)))
           \/ /\ Digito(s, i + 1) /\ Digito(s, i + 2) /\ Coma(s, i + 3) /\ Digito(s, i + 4)
              /\ (k = i + 3 \/ k = i + 4 \/ (k = i + 5 /\ Digito(s, i + 5)))
<1> DEFINE c == Cardinality(Numero(s, i + 1))
           m == i + 1 + c
           fondo == Numero(s, m + 1)
<1>0. i \in Int /\ i >= 1 /\ DOMAIN s = 1 .. Len(s)
  OBVIOUS
<1>1. k \in Codigo(s, i) <=>
        \/ k = i \/ k \in Numero(s, i + 1)
        \/ /\ Coma(s, m) /\ m > i + 1 /\ fondo # {}
           /\ (k = m \/ k \in fondo)
  BY <1>0 DEF Codigo, Coma
<1>2. CASE ~Digito(s, i + 1)
  <2>1. Numero(s, i + 1) = {} /\ c = 0
    BY <1>0, <1>2, NumeroPosiciones, i + 1 \in Int, i + 1 >= 1
  <2>2. ~ m > i + 1
    BY <1>0, <2>1
  <2>3. QED
    BY <1>1, <1>2, <2>1, <2>2
<1>3. CASE Digito(s, i + 1) /\ ~Digito(s, i + 2)
  <2>1. Numero(s, i + 1) = {i + 1} /\ c = 1
    BY <1>0, <1>3, NumeroPosiciones, i + 1 \in Int, i + 1 >= 1, (i + 1) + 1 = i + 2
  <2>2. m = i + 2 /\ m > i + 1
    BY <1>0, <2>1
  <2>3. /\ k \in fondo <=> \/ k = i + 3 /\ Digito(s, i + 3)
                           \/ k = i + 4 /\ Digito(s, i + 3) /\ Digito(s, i + 4)
        /\ fondo # {} <=> Digito(s, i + 3)
    <3>1. i + 3 \in Int /\ i + 3 >= 1 /\ (i + 3) + 1 = i + 4 /\ m + 1 = i + 3
      BY <1>0, <2>2
    <3>2. ASSUME NEW j
          PROVE  j \in fondo <=> \/ j = i + 3 /\ Digito(s, i + 3)
                                 \/ j = i + 4 /\ Digito(s, i + 3) /\ Digito(s, i + 4)
      <4> HIDE DEF m
      <4>1. QED
        BY <3>1, NumeroDigitos
    <3> HIDE DEF fondo
    <3>3. fondo # {} <=> Digito(s, i + 3)
      <4>1. Digito(s, i + 3) => i + 3 \in fondo
        BY <3>2
      <4>2. \A j \in fondo : Digito(s, i + 3)
        BY <3>2
      <4>3. QED
        BY <4>1, <4>2
    <3>4. QED
      BY <3>2, <3>3
  <2> HIDE DEF m, fondo, c
  <2>4. k \in Numero(s, i + 1) <=> k = i + 1
    BY <2>1
  <2>5. Coma(s, m) <=> Coma(s, i + 2)
    BY <2>2
  <2>6. k = m <=> k = i + 2
    BY <2>2
  <2>7. QED
    BY <1>1, <1>3, <2>2, <2>3, <2>4, <2>5, <2>6
<1>4. CASE Digito(s, i + 1) /\ Digito(s, i + 2)
  <2>1. Numero(s, i + 1) = {i + 1, i + 2} /\ c = 2
    BY <1>0, <1>4, NumeroPosiciones, i + 1 \in Int, i + 1 >= 1, (i + 1) + 1 = i + 2
  <2>2. m = i + 3 /\ m > i + 1
    BY <1>0, <2>1
  <2>3. /\ k \in fondo <=> \/ k = i + 4 /\ Digito(s, i + 4)
                           \/ k = i + 5 /\ Digito(s, i + 4) /\ Digito(s, i + 5)
        /\ fondo # {} <=> Digito(s, i + 4)
    <3>1. i + 4 \in Int /\ i + 4 >= 1 /\ (i + 4) + 1 = i + 5 /\ m + 1 = i + 4
      BY <1>0, <2>2
    <3>2. ASSUME NEW j
          PROVE  j \in fondo <=> \/ j = i + 4 /\ Digito(s, i + 4)
                                 \/ j = i + 5 /\ Digito(s, i + 4) /\ Digito(s, i + 5)
      <4> HIDE DEF m
      <4>1. QED
        BY <3>1, NumeroDigitos
    <3> HIDE DEF fondo
    <3>3. fondo # {} <=> Digito(s, i + 4)
      <4>1. Digito(s, i + 4) => i + 4 \in fondo
        BY <3>2
      <4>2. \A j \in fondo : Digito(s, i + 4)
        BY <3>2
      <4>3. QED
        BY <4>1, <4>2
    <3>4. QED
      BY <3>2, <3>3
  <2> HIDE DEF m, fondo, c
  <2>4. k \in Numero(s, i + 1) <=> k = i + 1 \/ k = i + 2
    BY <2>1
  <2>5. Coma(s, m) <=> Coma(s, i + 3)
    BY <2>2
  <2>6. k = m <=> k = i + 3
    BY <2>2
  <2>7. QED
    BY <1>1, <1>4, <2>2, <2>3, <2>4, <2>5, <2>6
<1>5. QED
  BY <1>2, <1>3, <1>4

\* What the first characters from i on have to be for a colour to end at j.
LEMMA EsColorPosiciones ==
  ASSUME NEW S, NEW s \in Seq(S), NEW i \in 1 .. Len(s), NEW j \in i .. Len(s)
  PROVE  EsColor(SubSeq(s, i, j)) <=>
           /\ s[i] = Color
           /\ \/ j = i
              \/ j = i + 1 /\ Digito(s, i + 1)
              \/ j = i + 2 /\ Digito(s, i + 1) /\ Digito(s, i + 2)
              \/ /\ j = i + 3
                 /\ Digito(s, i + 1) /\ Coma(s, i + 2) /\ Digito(s, i + 3)
              \/ /\ j = i + 4
                 /\ Digito(s, i + 1) /\ Coma(s, i + 2) /\ Digito(s, i + 3) /\ Digito(s, i + 4)
              \/ /\ j = i + 4
                 /\ Digito(s, i + 1) /\ Digito(s, i + 2) /\ Coma(s, i + 3) /\ Digito(s, i + 4)
              \/ /\ j = i + 5
                 /\ Digito(s, i + 1) /\ Digito(s, i + 2) /\ Coma(s, i + 3)
                 /\ Digito(s, i + 4) /\ Digito(s, i + 5)
<1> DEFINE c == SubSeq(s, i, j)
           Co(n) == c[n] = ","
<1>0. i \in Int /\ j \in Int /\ i >= 1 /\ i <= j /\ j <= Len(s) /\ Len(s) \in Nat
  OBVIOUS
<1>1. /\ c \in Seq(S) /\ Len(c) = j - i + 1
      /\ \A n \in 1 .. Len(c) : c[n] = s[i + n - 1]
  <2>1. \A n \in i .. j : s[n] \in S
    BY <1>0, ElementOfSeq
  <2>2. /\ c \in Seq(S) /\ Len(c) = IF i <= j THEN j - i + 1 ELSE 0
        /\ \A n \in 1 .. j - i + 1 : c[n] = s[i + n - 1]
    BY <1>0, <2>1, SubSeqProperties
  <2>3. QED
    BY <1>0, <2>2
<1>2. ASSUME NEW n \in 2 .. 6
      PROVE  /\ c[n] \in Digitos /\ n <= Len(c) <=> n <= Len(c) /\ Digito(s, i + n - 1)
             /\ Co(n) /\ n <= Len(c) <=> n <= Len(c) /\ Coma(s, i + n - 1)
  <2>1. n <= Len(c) => n \in 1 .. Len(c) /\ i + n - 1 \in 1 .. Len(s)
    BY <1>0, <1>1
  <2>2. QED
    BY <1>1, <2>1 DEF Digito, Coma
<1>3. c[1] = s[i]
  BY <1>0, <1>1
<1> DEFINE Con(m) == /\ \A k \in 2 .. Len(c) : k # m + 2 => c[k] \in Digitos
                     /\ \/ Len(c) = m + 1
                        \/ m > 0 /\ Len(c) \in {m + 3, m + 4} /\ Co(m + 2)
<1>4. EsColor(c) <=> s[i] = Color /\ (Con(0) \/ Con(1) \/ Con(2))
  <2>1. \A m : m \in 0 .. 2 <=> m = 0 \/ m = 1 \/ m = 2
    OBVIOUS
  <2>2. QED
    BY <1>3, <2>1 DEF EsColor, Co
<1>a. Len(c) = j - i + 1
  BY <1>1
<1> HIDE DEF c, Co
<1>5. Con(0) <=> Len(c) = 1
  BY <1>1
<1>6. Con(1) <=> \/ Len(c) = 2 /\ c[2] \in Digitos
                 \/ Len(c) = 4 /\ c[2] \in Digitos /\ Co(3) /\ c[4] \in Digitos
                 \/ /\ Len(c) = 5 /\ c[2] \in Digitos /\ Co(3)
                    /\ c[4] \in Digitos /\ c[5] \in Digitos
  <2>1. \A k \in 2 .. 6 : k = 2 \/ k = 3 \/ k = 4 \/ k = 5 \/ k = 6
    OBVIOUS
  <2>2. CASE Len(c) = 2
    BY <2>1, <2>2
  <2>3. CASE Len(c) = 4
    BY <2>1, <2>3
  <2>4. CASE Len(c) = 5
    BY <2>1, <2>4
  <2>5. CASE Len(c) \notin {2, 4, 5}
    BY <2>5
  <2>6. QED
    BY <2>2, <2>3, <2>4, <2>5
<1>7. Con(2) <=> \/ Len(c) = 3 /\ c[2] \in Digitos /\ c[3] \in Digitos
                 \/ /\ Len(c) = 5 /\ c[2] \in Digitos /\ c[3] \in Digitos
                    /\ Co(4) /\ c[5] \in Digitos
                 \/ /\ Len(c) = 6 /\ c[2] \in Digitos /\ c[3] \in Digitos
                    /\ Co(4) /\ c[5] \in Digitos /\ c[6] \in Digitos
  <2>1. \A k \in 2 .. 6 : k = 2 \/ k = 3 \/ k = 4 \/ k = 5 \/ k = 6
    OBVIOUS
  <2>2. CASE Len(c) = 3
    BY <2>1, <2>2
  <2>3. CASE Len(c) = 5
    BY <2>1, <2>3
  <2>4. CASE Len(c) = 6
    BY <2>1, <2>4
  <2>5. CASE Len(c) \notin {3, 5, 6}
    BY <2>5
  <2>6. QED
    BY <2>2, <2>3, <2>4, <2>5
<1>8. /\ Len(c) >= 2 => (c[2] \in Digitos <=> Digito(s, i + 1))
      /\ Len(c) >= 3 => (c[3] \in Digitos <=> Digito(s, i + 2)) /\ (Co(3) <=> Coma(s, i + 2))
      /\ Len(c) >= 4 => (c[4] \in Digitos <=> Digito(s, i + 3)) /\ (Co(4) <=> Coma(s, i + 3))
      /\ Len(c) >= 5 => (c[5] \in Digitos <=> Digito(s, i + 4))
      /\ Len(c) >= 6 => (c[6] \in Digitos <=> Digito(s, i + 5))
  <2>1. /\ i + 2 - 1 = i + 1 /\ i + 3 - 1 = i + 2 /\ i + 4 - 1 = i + 3
        /\ i + 5 - 1 = i + 4 /\ i + 6 - 1 = i + 5
    BY <1>0
  <2>2. 2 \in 2 .. 6 /\ 3 \in 2 .. 6 /\ 4 \in 2 .. 6 /\ 5 \in 2 .. 6 /\ 6 \in 2 .. 6
    OBVIOUS
  <2>3. QED
    BY <1>0, <1>a, <1>2, <2>1, <2>2
<1>9. QED
  <2>1. j = i + Len(c) - 1
    BY <1>0, <1>a
  <2> HIDE DEF Con
  <2>2. /\ j = i <=> Len(c) = 1 
        /\ j = i + 1 <=> Len(c) = 2
        /\ j = i + 2 <=> Len(c) = 3
        /\ j = i + 3 <=> Len(c) = 4
        /\ j = i + 4 <=> Len(c) = 5
        /\ j = i + 5 <=> Len(c) = 6
    BY <1>0, <1>a
  <2>3. EsColor(c) <=> s[i] = Color /\ (Con(0) \/ Con(1) \/ Con(2))
    BY <1>4
  <2>4. QED
    <3>1. SUFFICES EsColor(c) <=>
                     /\ s[i] = Color
                     /\ \/ Len(c) = 1
                        \/ Len(c) = 2 /\ Digito(s, i + 1)
                        \/ Len(c) = 3 /\ Digito(s, i + 1) /\ Digito(s, i + 2)
                        \/ /\ Len(c) = 4
                           /\ Digito(s, i + 1) /\ Coma(s, i + 2) /\ Digito(s, i + 3)
                        \/ /\ Len(c) = 5 /\ Digito(s, i + 1) /\ Coma(s, i + 2)
                           /\ Digito(s, i + 3) /\ Digito(s, i + 4)
                        \/ /\ Len(c) = 5 /\ Digito(s, i + 1) /\ Digito(s, i + 2)
                           /\ Coma(s, i + 3) /\ Digito(s, i + 4)
                        \/ /\ Len(c) = 6 /\ Digito(s, i + 1) /\ Digito(s, i + 2)
                           /\ Coma(s, i + 3) /\ Digito(s, i + 4) /\ Digito(s, i + 5)
      BY <2>2 DEF c
    <3>2. QED
      <4>1. Con(0) <=> Len(c) = 1
        BY <1>5
      <4>2. Con(1) <=> \/ Len(c) = 2 /\ Digito(s, i + 1)
                       \/ /\ Len(c) = 4
                          /\ Digito(s, i + 1) /\ Coma(s, i + 2) /\ Digito(s, i + 3)
                       \/ /\ Len(c) = 5 /\ Digito(s, i + 1) /\ Coma(s, i + 2)
                          /\ Digito(s, i + 3) /\ Digito(s, i + 4)
        BY <1>6, <1>8, <1>0, <1>a
      <4>3. Con(2) <=> \/ Len(c) = 3 /\ Digito(s, i + 1) /\ Digito(s, i + 2)
                       \/ /\ Len(c) = 5 /\ Digito(s, i + 1) /\ Digito(s, i + 2)
                          /\ Coma(s, i + 3) /\ Digito(s, i + 4)
                       \/ /\ Len(c) = 6 /\ Digito(s, i + 1) /\ Digito(s, i + 2)
                          /\ Coma(s, i + 3) /\ Digito(s, i + 4) /\ Digito(s, i + 5)
        BY <1>7, <1>8, <1>0, <1>a
      <4>4. QED
        BY <2>3, <4>1, <4>2, <4>3, Zenon

\* A position is of a colour for the code if and only if it is for mIRC.
LEMMA CodigoEsColor ==
  ASSUME NEW S, NEW s \in Seq(S), NEW i \in 1 .. Len(s), NEW k \in 1 .. Len(s)
  PROVE  s[i] = Color /\ k \in Codigo(s, i)
         <=> i <= k /\ \E j \in k .. Len(s) : EsColor(SubSeq(s, i, j))
<1> DEFINE D(n) == Digito(s, i + n)
           K(n) == Coma(s, i + n)
           Cabe(n) == i + n <= Len(s)
<1>0. i \in Int /\ k \in Int /\ i >= 1 /\ k >= 1 /\ k <= Len(s) /\ Len(s) \in Int
  OBVIOUS
<1>1. /\ \A n \in 1 .. 5 : D(n) => Cabe(n)
      /\ \A n \in 1 .. 5 : ~(D(n) /\ K(n))
  <2>1. "," \notin Digitos
    BY IrcSessionAssumption
  <2>2. \A n \in 1 .. 5 : D(n) => Cabe(n)
    BY <1>0 DEF Digito
  <2>3. \A n \in 1 .. 5 : ~(D(n) /\ K(n))
    BY <2>1, Zenon DEF Digito, Coma
  <2>4. QED
    BY <2>2, <2>3
<1>2. k \in Codigo(s, i) <=>
        \/ k = i
        \/ k = i + 1 /\ D(1)
        \/ k = i + 2 /\ D(1) /\ D(2)
        \/ /\ D(1) /\ ~D(2) /\ K(2) /\ D(3)
           /\ (k = i + 2 \/ k = i + 3 \/ (k = i + 4 /\ D(4)))
        \/ /\ D(1) /\ D(2) /\ K(3) /\ D(4)
           /\ (k = i + 3 \/ k = i + 4 \/ (k = i + 5 /\ D(5)))
  BY CodigoPosiciones
<1> DEFINE Termina(j) == 
              \/ j = i
              \/ j = i + 1 /\ D(1)
              \/ j = i + 2 /\ D(1) /\ D(2)
              \/ j = i + 3 /\ D(1) /\ K(2) /\ D(3)
              \/ j = i + 4 /\ D(1) /\ K(2) /\ D(3) /\ D(4)
              \/ j = i + 4 /\ D(1) /\ D(2) /\ K(3) /\ D(4)
              \/ j = i + 5 /\ D(1) /\ D(2) /\ K(3) /\ D(4) /\ D(5)
<1>3. ASSUME NEW j \in i .. Len(s)
      PROVE  EsColor(SubSeq(s, i, j)) <=> s[i] = Color /\ Termina(j)
  BY EsColorPosiciones
<1>4. 1 \in 1 .. 5 /\ 2 \in 1 .. 5 /\ 3 \in 1 .. 5 /\ 4 \in 1 .. 5 /\ 5 \in 1 .. 5
  OBVIOUS
<1>5. ASSUME s[i] = Color, k \in Codigo(s, i)
      PROVE  i <= k /\ \E j \in k .. Len(s) : EsColor(SubSeq(s, i, j))
  <2>1. SUFFICES i <= k /\ \E j \in k .. Len(s) : Termina(j)
    BY <1>0, <1>3, <1>5
  <2> HIDE DEF D, K
  <2>2. CASE k = i
    BY <1>0, <2>2
  <2>3. CASE k = i + 1 /\ D(1)
    BY <1>0, <2>3
  <2>4. CASE k = i + 2 /\ D(1) /\ D(2)
    BY <1>0, <2>4
  <2>5. CASE /\ D(1) /\ ~D(2) /\ K(2) /\ D(3)
             /\ (k = i + 2 \/ k = i + 3 \/ (k = i + 4 /\ D(4)))
    <3>1. Termina(i + 3) /\ Cabe(3)
      BY <1>1, <1>4, <2>5
    <3>2. CASE k = i + 2 \/ k = i + 3
      <4>1. i <= k /\ i + 3 \in k .. Len(s)
        BY <1>0, <3>1, <3>2
      <4> HIDE DEF Termina
      <4>2. QED
        BY <3>1, <4>1
    <3>3. CASE k = i + 4 /\ D(4)
      <4>1. Termina(k)
        BY <2>5, <3>3
      <4>2. i <= k /\ k \in k .. Len(s)
        BY <1>0, <3>3
      <4> HIDE DEF Termina
      <4>3. QED
        BY <4>1, <4>2
    <3>4. QED
      BY <2>5, <3>2, <3>3
  <2>6. CASE /\ D(1) /\ D(2) /\ K(3) /\ D(4)
             /\ (k = i + 3 \/ k = i + 4 \/ (k = i + 5 /\ D(5)))
    <3>1. Termina(i + 4) /\ Cabe(4)
      BY <1>1, <1>4, <2>6
    <3>2. CASE k = i + 3 \/ k = i + 4
      <4>1. i <= k /\ i + 4 \in k .. Len(s)
        BY <1>0, <3>1, <3>2
      <4> HIDE DEF Termina
      <4>2. QED
        BY <3>1, <4>1
    <3>3. CASE k = i + 5 /\ D(5)
      <4>1. Termina(k)
        BY <2>6, <3>3
      <4>2. i <= k /\ k \in k .. Len(s)
        BY <1>0, <3>3
      <4> HIDE DEF Termina
      <4>3. QED
        BY <4>1, <4>2
    <3>4. QED
      BY <2>6, <3>2, <3>3
  <2>7. QED
    BY <1>2, <1>5, <2>2, <2>3, <2>4, <2>5, <2>6
<1>6. ASSUME i <= k, NEW j \in k .. Len(s), EsColor(SubSeq(s, i, j))
      PROVE  s[i] = Color /\ k \in Codigo(s, i)
  <2>1. s[i] = Color /\ Termina(j)
    <3>1. j \in i .. Len(s)
      BY <1>0, <1>6
    <3>2. QED
      BY <1>3, <1>6, <3>1
  <2>2. ~D(1) \/ ~K(1)
    BY <1>1, <1>4
  <2>3. (~D(2) \/ ~K(2)) /\ (~D(3) \/ ~K(3))
    BY <1>1, <1>4
  <2> HIDE DEF D, K
  <2>4. i <= k /\ k <= j /\ k \in Int /\ j \in Int
    BY <1>0, <1>6
  <2>5. CASE j = i
    BY <1>0, <1>2, <2>1, <2>4, <2>5
  <2>6. CASE j = i + 1 /\ D(1)
    <3>1. k = i \/ k = i + 1
      BY <1>0, <2>4, <2>6
    <3>2. QED
      BY <1>2, <2>1, <2>6, <3>1
  <2>7. CASE j = i + 2 /\ D(1) /\ D(2)
    <3>1. k = i \/ k = i + 1 \/ k = i + 2
      BY <1>0, <2>4, <2>7
    <3>2. QED
      BY <1>2, <2>1, <2>7, <3>1
  <2>8. CASE j = i + 3 /\ D(1) /\ K(2) /\ D(3)
    <3>1. k = i \/ k = i + 1 \/ k = i + 2 \/ k = i + 3
      BY <1>0, <2>4, <2>8
    <3>2. QED
      BY <1>2, <2>1, <2>3, <2>8, <3>1
  <2>9. CASE j = i + 4 /\ D(1) /\ K(2) /\ D(3) /\ D(4)
    <3>1. k = i \/ k = i + 1 \/ k = i + 2 \/ k = i + 3 \/ k = i + 4
      BY <1>0, <2>4, <2>9
    <3>2. QED
      BY <1>2, <2>1, <2>3, <2>9, <3>1
  <2>10. CASE j = i + 4 /\ D(1) /\ D(2) /\ K(3) /\ D(4)
    <3>1. k = i \/ k = i + 1 \/ k = i + 2 \/ k = i + 3 \/ k = i + 4
      BY <1>0, <2>4, <2>10
    <3>2. QED
      BY <1>2, <2>1, <2>10, <3>1
  <2>11. CASE j = i + 5 /\ D(1) /\ D(2) /\ K(3) /\ D(4) /\ D(5)
    <3>1. k = i \/ k = i + 1 \/ k = i + 2 \/ k = i + 3 \/ k = i + 4 \/ k = i + 5
      BY <1>0, <2>4, <2>11
    <3>2. QED
      BY <1>2, <2>1, <2>11, <3>1
  <2>12. QED
    BY <2>1, <2>5, <2>6, <2>7, <2>8, <2>9, <2>10, <2>11
<1>7. QED
  BY <1>5, <1>6

\* The code leaves of a line what an IRC client shows of it.
LEMMA DescoloreaMuestra ==
  ASSUME NEW S, NEW s \in Seq(S)
  PROVE  Descolorea(s) = Muestra(s)
<1> DEFINE marcas == {k \in DOMAIN s : s[k] \in Marcas}
           colores == UNION {Codigo(s, i) : i \in {j \in DOMAIN s : s[j] = Color}}
<1>1. DOMAIN s = 1 .. Len(s) /\ Len(s) \in Nat
  OBVIOUS
<1>2. ASSUME NEW k \in 1 .. Len(s)
      PROVE  k \in colores <=> \E i \in 1 .. k, j \in k .. Len(s) : EsColor(SubSeq(s, i, j))
  <2>1. k \in colores <=> \E i \in 1 .. Len(s) : s[i] = Color /\ k \in Codigo(s, i)
    BY <1>1
  <2>2. \A i \in 1 .. Len(s) :
          s[i] = Color /\ k \in Codigo(s, i)
          <=> i <= k /\ \E j \in k .. Len(s) : EsColor(SubSeq(s, i, j))
    BY CodigoEsColor
  <2>3. \A i : i \in 1 .. k <=> i \in 1 .. Len(s) /\ i <= k
    BY <1>1
  <2> HIDE DEF colores
  <2>4. QED
    BY <2>1, <2>2, <2>3
<1>3. ASSUME NEW k \in 1 .. Len(s)
      PROVE  SeVe(s, k) <=> k \notin marcas \cup colores
  <2>1. k \in marcas <=> s[k] \in Marcas
    BY <1>1
  <2> HIDE DEF marcas, colores
  <2>2. QED
    BY <1>2, <2>1 DEF SeVe
<1>4. DOMAIN s \ (marcas \cup colores) = {k \in DOMAIN s : SeVe(s, k)}
  <2> HIDE DEF marcas, colores
  <2>1. QED
    BY <1>1, <1>3
<1>5. QED
  BY <1>4 DEF Descolorea, Muestra

-----------------------------------------------------------------------------
(* What the code finds in a line of the bot.                               *)

\* The least of some numbers is the one that none is below.
LEMMA MinimoUnico ==
  ASSUME NEW P, P \subseteq Int, NEW x \in P, \A y \in P : x <= y
  PROVE  Min(P) = x
<1>1. \A y \in P : (\A z \in P : y <= z) => y = x
  <2>1. ASSUME NEW y \in P, \A z \in P : y <= z PROVE y = x
    <3>1. x \in Int /\ y \in Int /\ x <= y /\ y <= x
      BY <2>1
    <3>2. QED
      BY <3>1
  <2>2. QED
    BY <2>1
<1>2. QED
  BY <1>1 DEF Min

\* The greatest is the one that none is above.
LEMMA MaximoUnico ==
  ASSUME NEW P, P \subseteq Int, NEW x \in P, \A y \in P : x >= y
  PROVE  Max(P) = x
<1>1. \A y \in P : (\A z \in P : y >= z) => y = x
  <2>1. ASSUME NEW y \in P, \A z \in P : y >= z PROVE y = x
    <3>1. x \in Int /\ y \in Int /\ x >= y /\ y >= x
      BY <2>1
    <3>2. QED
      BY <3>1
  <2>2. QED
    BY <2>1
<1>2. QED
  BY <1>1 DEF Max

\* s is x, g, y, g and z, and g has three characters.
EsLinea(s, x, y, z, g) ==
  LET a == Len(x)  b == Len(y)  c == Len(z) IN
  /\ Len(s) = a + b + c + 6
  /\ \A k \in 1 .. a : s[k] = x[k]
  /\ s[a + 1] = g[1] /\ s[a + 2] = g[2] /\ s[a + 3] = g[3]
  /\ \A k \in 1 .. b : s[a + 3 + k] = y[k]
  /\ s[a + b + 4] = g[1] /\ s[a + b + 5] = g[2] /\ s[a + b + 6] = g[3]
  /\ \A k \in 1 .. c : s[a + b + 6 + k] = z[k]

\* v is in d, after the first n characters.
En(d, n, v) == n + Len(v) <= Len(d) /\ \A k \in 1 .. Len(v) : d[n + k] = v[k]

\* What is in a text stays where it is when another follows it, and the other
\* is at the end.
LEMMA EnDos ==
  ASSUME NEW S, NEW d \in Seq(S), NEW e \in Seq(S)
  PROVE  /\ d \o e \in Seq(S) /\ Len(d \o e) = Len(d) + Len(e)
         /\ En(d \o e, Len(d), e)
         /\ \A n \in Nat, v \in Seq(S) : En(d, n, v) => En(d \o e, n, v)
<1> DEFINE f == d \o e
<1>1. Len(d) \in Nat /\ Len(e) \in Nat
  BY LenProperties
<1>2. /\ f \in Seq(S) /\ Len(f) = Len(d) + Len(e)
      /\ \A k \in 1 .. Len(d) + Len(e) : f[k] = IF k <= Len(d) THEN d[k] ELSE e[k - Len(d)]
  BY ConcatProperties
<1> HIDE DEF f
<1>3. ASSUME NEW k \in 1 .. Len(e) PROVE f[Len(d) + k] = e[k]
  <2>1. /\ Len(d) + k \in 1 .. Len(d) + Len(e) /\ ~ Len(d) + k <= Len(d)
        /\ (Len(d) + k) - Len(d) = k
    BY <1>1
  <2>2. QED
    BY <1>2, <2>1
<1>4. En(f, Len(d), e)
  BY <1>1, <1>2, <1>3 DEF En
<1>5. ASSUME NEW n \in Nat, NEW v \in Seq(S), En(d, n, v) PROVE En(f, n, v)
  <2>1. Len(v) \in Nat /\ n + Len(v) <= Len(d) /\ \A k \in 1 .. Len(v) : d[n + k] = v[k]
    BY <1>5, LenProperties DEF En
  <2>2. ASSUME NEW k \in 1 .. Len(v) PROVE f[n + k] = v[k]
    <3>1. n + k \in 1 .. Len(d) + Len(e) /\ n + k <= Len(d)
      BY <1>1, <2>1
    <3>2. QED
      BY <1>2, <2>1, <3>1
  <2>3. n + Len(v) <= Len(f)
    BY <1>1, <1>2, <2>1
  <2>4. QED
    BY <2>2, <2>3 DEF En
<1>6. QED
  BY <1>2, <1>4, <1>5 DEF f

\* Without its first character, everything is one place before.
LEMMA EnResto ==
  ASSUME NEW S, NEW d \in Seq(S), d # <<>>, NEW n \in Nat, NEW v \in Seq(S), En(d, n + 1, v)
  PROVE  En(Tail(d), n, v)
<1>1. /\ Tail(d) \in Seq(S) /\ Len(Tail(d)) = Len(d) - 1
      /\ \A k \in 1 .. Len(Tail(d)) : Tail(d)[k] = d[k + 1]
  BY HeadTailProperties
<1>2. /\ Len(v) \in Nat /\ Len(d) \in Nat /\ (n + 1) + Len(v) <= Len(d)
      /\ \A k \in 1 .. Len(v) : d[(n + 1) + k] = v[k]
  BY LenProperties DEF En
<1>3. ASSUME NEW k \in 1 .. Len(v) PROVE Tail(d)[n + k] = v[k]
  <2>1. n + k \in 1 .. Len(Tail(d)) /\ (n + k) + 1 = (n + 1) + k
    BY <1>1, <1>2
  <2>2. QED
    BY <1>1, <1>2, <2>1
<1>4. QED
  BY <1>1, <1>2, <1>3 DEF En

\* The texts of a line are where EsLinea says.
LEMMA LineaPosiciones ==
  ASSUME NEW S, NEW x \in Seq(S), NEW y \in Seq(S), NEW z \in Seq(S),
         NEW g \in Seq(S), Len(g) = 3, NEW d1 \in Seq(S), Len(d1) = 1
  PROVE  LET d == d1 \o x \o g \o y \o g \o z IN
         /\ d # <<>> /\ d[1] = d1[1] /\ Tail(d) \in Seq(S)
         /\ EsLinea(Tail(d), x, y, z, g)
<1> DEFINE a == Len(x)
           b == Len(y)
           c == Len(z)
           d2 == d1 \o x
           d3 == d2 \o g
           d4 == d3 \o y
           d5 == d4 \o g
           d6 == d5 \o z
<1>1. a \in Nat /\ b \in Nat /\ c \in Nat
  BY LenProperties
<1> HIDE DEF a, b, c
<1>2. d2 \in Seq(S) /\ Len(d2) = a + 1 /\ En(d2, 0, d1) /\ En(d2, 1, x)
  <2>1. En(d1, 0, d1)
    BY DEF En
  <2>2. /\ d2 \in Seq(S) /\ Len(d2) = Len(d1) + Len(x) /\ En(d2, Len(d1), x)
        /\ \A n \in Nat, v \in Seq(S) : En(d1, n, v) => En(d2, n, v)
    BY EnDos
  <2> HIDE DEF d2
  <2>3. Len(d1) + Len(x) = a + 1
    BY <1>1 DEF a
  <2>4. QED
    BY <2>1, <2>2, <2>3
<1> HIDE DEF d2
<1>3. /\ d3 \in Seq(S) /\ Len(d3) = a + 4
      /\ En(d3, 0, d1) /\ En(d3, 1, x) /\ En(d3, a + 1, g)
  <2>1. /\ d3 \in Seq(S) /\ Len(d3) = Len(d2) + Len(g) /\ En(d3, Len(d2), g)
        /\ \A n \in Nat, v \in Seq(S) : En(d2, n, v) => En(d3, n, v)
    BY <1>2, EnDos
  <2> HIDE DEF d3
  <2>2. Len(d2) + Len(g) = a + 4
    BY <1>1, <1>2
  <2>3. QED
    BY <1>2, <2>1, <2>2
<1> HIDE DEF d3
<1>4. /\ d4 \in Seq(S) /\ Len(d4) = a + b + 4
      /\ En(d4, 0, d1) /\ En(d4, 1, x) /\ En(d4, a + 1, g) /\ En(d4, a + 4, y)
  <2>1. /\ d4 \in Seq(S) /\ Len(d4) = Len(d3) + Len(y) /\ En(d4, Len(d3), y)
        /\ \A n \in Nat, v \in Seq(S) : En(d3, n, v) => En(d4, n, v)
    BY <1>3, EnDos
  <2> HIDE DEF d4
  <2>2. Len(d3) + Len(y) = a + b + 4
    BY <1>1, <1>3 DEF b
  <2>3. a + 1 \in Nat
    BY <1>1
  <2>4. QED
    BY <1>3, <2>1, <2>2, <2>3
<1> HIDE DEF d4
<1>5. /\ d5 \in Seq(S) /\ Len(d5) = a + b + 7
      /\ En(d5, 0, d1) /\ En(d5, 1, x) /\ En(d5, a + 1, g) /\ En(d5, a + 4, y)
      /\ En(d5, a + b + 4, g)
  <2>1. /\ d5 \in Seq(S) /\ Len(d5) = Len(d4) + Len(g) /\ En(d5, Len(d4), g)
        /\ \A n \in Nat, v \in Seq(S) : En(d4, n, v) => En(d5, n, v)
    BY <1>4, EnDos
  <2> HIDE DEF d5
  <2>2. Len(d4) + Len(g) = a + b + 7
    BY <1>1, <1>4
  <2>3. a + 1 \in Nat /\ a + 4 \in Nat
    BY <1>1
  <2>4. QED
    BY <1>4, <2>1, <2>2, <2>3
<1> HIDE DEF d5
<1>6. /\ d6 \in Seq(S) /\ Len(d6) = a + b + c + 7
      /\ En(d6, 0, d1) /\ En(d6, 1, x) /\ En(d6, a + 1, g) /\ En(d6, a + 4, y)
      /\ En(d6, a + b + 4, g) /\ En(d6, a + b + 7, z)
  <2>1. /\ d6 \in Seq(S) /\ Len(d6) = Len(d5) + Len(z) /\ En(d6, Len(d5), z)
        /\ \A n \in Nat, v \in Seq(S) : En(d5, n, v) => En(d6, n, v)
    BY <1>5, EnDos
  <2> HIDE DEF d6
  <2>2. Len(d5) + Len(z) = a + b + c + 7
    BY <1>1, <1>5 DEF c
  <2>3. a + 1 \in Nat /\ a + 4 \in Nat /\ a + b + 4 \in Nat
    BY <1>1
  <2>4. QED
    BY <1>5, <2>1, <2>2, <2>3
<1> HIDE DEF d6
<1>7. d6 # <<>> /\ d6[1] = d1[1]
  <2>1. Len(d6) # 0
    BY <1>1, <1>6
  <2>2. \A k \in 1 .. 1 : d6[0 + k] = d1[k]
    BY <1>6 DEF En
  <2>3. d6[0 + 1] = d1[1]
    BY <2>2
  <2>4. QED
    BY <2>1, <2>3
<1> DEFINE s == Tail(d6)
<1>8. s \in Seq(S) /\ Len(s) = a + b + c + 6
  <2>1. s \in Seq(S) /\ Len(s) = Len(d6) - 1
    BY <1>6, <1>7, HeadTailProperties
  <2>2. QED
    BY <1>1, <1>6, <2>1
<1>9. En(s, 0, x) /\ En(s, a, g) /\ En(s, a + 3, y) /\ En(s, a + b + 3, g) /\ En(s, a + b + 6, z)
  <2>1. /\ a \in Nat /\ a + 3 \in Nat /\ a + b + 3 \in Nat /\ a + b + 6 \in Nat
        /\ 0 + 1 = 1 /\ (a + 3) + 1 = a + 4
        /\ (a + b + 3) + 1 = a + b + 4 /\ (a + b + 6) + 1 = a + b + 7
    BY <1>1
  <2>2. ASSUME NEW n \in Nat, NEW v \in Seq(S), En(d6, n + 1, v) PROVE En(s, n, v)
    BY <1>6, <1>7, <2>2, EnResto
  <2> HIDE DEF s
  <2>3. QED
    BY <1>6, <2>1, <2>2
<1> HIDE DEF s
<1>10. /\ \A k \in 1 .. a : s[0 + k] = x[k]
       /\ \A k \in 1 .. b : s[a + 3 + k] = y[k]
       /\ \A k \in 1 .. c : s[a + b + 6 + k] = z[k]
  BY <1>9 DEF En, a, b, c
<1>11. /\ \A k \in 1 .. 3 : s[a + k] = g[k]
       /\ \A k \in 1 .. 3 : s[a + b + 3 + k] = g[k]
  BY <1>9 DEF En
<1>12. /\ s[a + 1] = g[1] /\ s[a + 2] = g[2] /\ s[a + 3] = g[3]
  BY <1>11
<1>13. /\ s[a + b + 4] = g[1] /\ s[a + b + 5] = g[2] /\ s[a + b + 6] = g[3]
  <2>1. /\ a + b + 3 + 1 = a + b + 4 /\ a + b + 3 + 2 = a + b + 5
        /\ a + b + 3 + 3 = a + b + 6
    BY <1>1
  <2>2. s[a + b + 3 + 1] = g[1] /\ s[a + b + 3 + 2] = g[2] /\ s[a + b + 3 + 3] = g[3]
    BY <1>11
  <2>3. QED
    BY <2>1, <2>2
<1>14. \A k \in 1 .. a : s[k] = x[k]
  <2>1. ASSUME NEW k \in 1 .. a PROVE s[k] = x[k]
    <3>1. 0 + k = k
      BY <1>1
    <3>2. QED
      BY <1>10, <3>1
  <2>2. QED
    BY <2>1
<1>15. EsLinea(s, x, y, z, g)
  BY <1>8, <1>10, <1>12, <1>13, <1>14 DEF EsLinea, a, b, c
<1>16. QED
  BY <1>7, <1>8, <1>15 DEF s, d6, d5, d4, d3, d2

\* A piece of a list that has the length and the elements of another is it.
LEMMA TrozoIgual ==
  ASSUME NEW S, NEW s \in Seq(S), NEW x \in Seq(S), NEW n \in Nat,
         n + Len(x) <= Len(s), \A k \in 1 .. Len(x) : s[n + k] = x[k]
  PROVE  SubSeq(s, n + 1, n + Len(x)) = x
<1> DEFINE p == n + 1
           q == n + Len(x)
           t == SubSeq(s, p, q)
<1>1. Len(x) \in Nat /\ Len(s) \in Nat
  OBVIOUS
<1>2. \A k \in p .. q : s[k] \in S
  BY <1>1, ElementOfSeq
<1>a. /\ p \in Int /\ q \in Int /\ q - p + 1 = Len(x) /\ (p <= q <=> Len(x) # 0)
      /\ \A k \in 1 .. Len(x) : p + k - 1 = n + k
  BY <1>1
<1> HIDE DEF p, q
<1>3. /\ t \in Seq(S)
      /\ Len(t) = IF p <= q THEN q - p + 1 ELSE 0
      /\ \A k \in 1 .. q - p + 1 : t[k] = s[p + k - 1]
  BY <1>2, <1>a, SubSeqProperties
<1> HIDE DEF t
<1>4. Len(t) = Len(x)
  BY <1>1, <1>a, <1>3
<1>5. ASSUME NEW k \in 1 .. Len(x) PROVE t[k] = x[k]
  <2>1. k \in 1 .. q - p + 1 /\ p + k - 1 = n + k
    BY <1>a
  <2>2. QED
    BY <1>3, <2>1
<1>6. t = x
  BY <1>3, <1>4, <1>5, SeqEqual
<1>7. QED
  BY <1>6 DEF t, p, q

\* What a line of the bot has where.
LEMMA LineaDonde ==
  ASSUME NEW S, NEW s \in Seq(S), NEW x \in Seq(S), NEW y \in Seq(S), NEW z \in Seq(S),
         NEW g, EsLinea(s, x, y, z, g), NEW k \in 1 .. Len(s)
  PROVE  \/ k \in 1 .. Len(x) /\ s[k] = x[k]
         \/ k \in {Len(x) + 1, Len(x) + Len(y) + 4} /\ s[k] = g[1]
         \/ k \in {Len(x) + 2, Len(x) + Len(y) + 5} /\ s[k] = g[2]
         \/ k \in {Len(x) + 3, Len(x) + Len(y) + 6} /\ s[k] = g[3]
         \/ \E j \in 1 .. Len(y) : k = Len(x) + 3 + j /\ s[k] = y[j]
         \/ \E j \in 1 .. Len(z) : k = Len(x) + Len(y) + 6 + j /\ s[k] = z[j]
<1> DEFINE a == Len(x)
           b == Len(y)
           c == Len(z)
<1>1. /\ a \in Nat /\ b \in Nat /\ c \in Nat /\ k \in Int /\ k >= 1 /\ k <= a + b + c + 6
      /\ \A j \in 1 .. a : s[j] = x[j]
      /\ s[a + 1] = g[1] /\ s[a + 2] = g[2] /\ s[a + 3] = g[3]
      /\ \A j \in 1 .. b : s[a + 3 + j] = y[j]
      /\ s[a + b + 4] = g[1] /\ s[a + b + 5] = g[2] /\ s[a + b + 6] = g[3]
      /\ \A j \in 1 .. c : s[a + b + 6 + j] = z[j]
  <2>1. a \in Nat /\ b \in Nat /\ c \in Nat /\ Len(s) = a + b + c + 6
    BY DEF EsLinea
  <2>2. k \in Int /\ k >= 1 /\ k <= a + b + c + 6
    BY <2>1
  <2>3. QED
    BY <2>1, <2>2, Zenon DEF EsLinea
<1> HIDE DEF a, b, c
<1>2. \/ k \in 1 .. a
      \/ k \in {a + 1, a + 2, a + 3}
      \/ k - (a + 3) \in 1 .. b /\ k = a + 3 + (k - (a + 3))
      \/ k \in {a + b + 4, a + b + 5, a + b + 6}
      \/ k - (a + b + 6) \in 1 .. c /\ k = a + b + 6 + (k - (a + b + 6))
  BY <1>1
<1>3. CASE k \in 1 .. a
  BY <1>1, <1>3 DEF a
<1>4. CASE k \in {a + 1, a + 2, a + 3}
  BY <1>1, <1>4 DEF a
<1>5. CASE k - (a + 3) \in 1 .. b /\ k = a + 3 + (k - (a + 3))
  <2> DEFINE j == k - (a + 3)
  <2>1. j \in 1 .. b /\ k = a + 3 + j
    BY <1>5
  <2> HIDE DEF j
  <2>2. s[k] = y[j]
    BY <1>1, <2>1
  <2>3. QED
    BY <2>1, <2>2 DEF a, b
<1>6. CASE k \in {a + b + 4, a + b + 5, a + b + 6}
  BY <1>1, <1>6 DEF a, b
<1>7. CASE k - (a + b + 6) \in 1 .. c /\ k = a + b + 6 + (k - (a + b + 6))
  <2> DEFINE j == k - (a + b + 6)
  <2>1. j \in 1 .. c /\ k = a + b + 6 + j
    BY <1>7
  <2> HIDE DEF j
  <2>2. s[k] = z[j]
    BY <1>1, <2>1
  <2>3. QED
    BY <2>1, <2>2 DEF a, b, c
<1>8. QED
  BY <1>2, <1>3, <1>4, <1>5, <1>6, <1>7

\* The texts between the dashes of a line, and its link.
EsTexto(x, y, z) ==
  /\ \A k \in 1 .. Len(x) : x[k] # "-" /\ x[k] # "http"
  /\ Len(y) >= 1 /\ y[1] # " " /\ y[Len(y)] # " "
  /\ \A k \in 1 .. Len(y) : y[k] # "http"
  /\ Len(z) >= 1 /\ z[1] = "http"
  /\ \A k \in 1 .. Len(z) : z[k] # "-" /\ z[k] # " "

\* A dash between blanks.
EsGuion(g) == g[1] = " " /\ g[2] = "-" /\ g[3] = " "

\* The title may have dashes: they are between the two that count.
LEMMA GuionesDeLinea ==
  ASSUME NEW S, NEW s \in Seq(S), NEW x \in Seq(S), NEW y \in Seq(S), NEW z \in Seq(S),
         NEW g, EsGuion(g), EsLinea(s, x, y, z, g), EsTexto(x, y, z)
  PROVE  Primero(s) = Len(x) + 2 /\ Ultimo(s) = Len(x) + Len(y) + 5
<1> DEFINE a == Len(x)
           b == Len(y)
           c == Len(z)
<1>1. /\ a \in Nat /\ b \in Nat /\ c \in Nat /\ Len(s) = a + b + c + 6
      /\ DOMAIN s = 1 .. Len(s)
      /\ s[a + 2] = "-" /\ s[a + b + 5] = "-"
  <2>1. a \in Nat /\ b \in Nat /\ c \in Nat /\ Len(s) = a + b + c + 6
    BY DEF EsLinea
  <2>2. s[a + 2] = "-" /\ s[a + b + 5] = "-"
    BY Zenon DEF EsLinea, EsGuion
  <2>3. DOMAIN s = 1 .. Len(s)
    OBVIOUS
  <2>4. QED
    BY <2>1, <2>2, <2>3
<1>2. ASSUME NEW k \in 1 .. Len(s), s[k] = "-" PROVE a + 2 <= k /\ k <= a + b + 5
  <2>1. \/ k \in 1 .. a /\ s[k] = x[k]
        \/ k \in {a + 1, a + b + 4} /\ s[k] = g[1]
        \/ k \in {a + 2, a + b + 5} /\ s[k] = g[2]
        \/ k \in {a + 3, a + b + 6} /\ s[k] = g[3]
        \/ \E j \in 1 .. b : k = a + 3 + j /\ s[k] = y[j]
        \/ \E j \in 1 .. c : k = a + b + 6 + j /\ s[k] = z[j]
    BY LineaDonde
  <2>2. ~(k \in 1 .. a /\ s[k] = x[k])
    BY <1>2 DEF EsTexto
  <2>3. s[k] # g[1] /\ s[k] # g[3]
    BY <1>2 DEF EsGuion
  <2>4. ~ \E j \in 1 .. c : k = a + b + 6 + j /\ s[k] = z[j]
    BY <1>2 DEF EsTexto
  <2> HIDE DEF a, b, c
  <2>5. CASE k \in {a + 2, a + b + 5}
    BY <1>1, <2>5
  <2>6. CASE \E j \in 1 .. b : k = a + 3 + j
    BY <1>1, <2>6
  <2>7. QED
    BY <2>1, <2>2, <2>3, <2>4, <2>5, <2>6
<1>3. /\ Guiones(s) \subseteq Int
      /\ \A k : k \in Guiones(s) <=> k = 0 \/ (k \in 1 .. Len(s) /\ s[k] = "-")
  BY <1>1 DEF Guiones
<1> HIDE DEF a, b, c
<1>4. a + 2 \in Guiones(s) \ {0} /\ a + b + 5 \in Guiones(s)
  <2>1. a + 2 \in 1 .. Len(s) /\ a + 2 # 0 /\ a + b + 5 \in 1 .. Len(s)
    BY <1>1
  <2>2. QED
    BY <1>1, <1>3, <2>1, Zenon
<1>5. Primero(s) = a + 2
  <2>1. \A k \in Guiones(s) \ {0} : a + 2 <= k
    BY <1>2, <1>3
  <2>2. Min(Guiones(s) \ {0}) = a + 2
    BY <1>3, <1>4, <2>1, MinimoUnico, Guiones(s) \ {0} \subseteq Int
  <2>3. Guiones(s) # {0}
    BY <1>4
  <2>4. QED
    BY <2>2, <2>3 DEF Primero
<1>6. Ultimo(s) = a + b + 5
  <2>1. \A k \in Guiones(s) : a + b + 5 >= k
    BY <1>1, <1>2, <1>3
  <2>2. QED
    BY <1>3, <1>4, <2>1, MaximoUnico DEF Ultimo
<1>7. QED
  BY <1>5, <1>6 DEF a, b

\* The section found in a line is the one said.
LEMMA SeccionDeLinea ==
  ASSUME NEW S, NEW s \in Seq(S), NEW x \in Seq(S), NEW y \in Seq(S), NEW z \in Seq(S),
         NEW g, EsGuion(g), EsLinea(s, x, y, z, g), EsTexto(x, y, z)
  PROVE  SeccionEn(s) = x
<1> DEFINE a == Len(x)
<1>1. /\ a \in Nat /\ Len(s) \in Nat /\ a <= Len(s)
      /\ \A k \in 1 .. a : s[0 + k] = x[k]
  <2>1. a \in Nat /\ Len(y) \in Nat /\ Len(z) \in Nat /\ Len(s) = a + Len(y) + Len(z) + 6
    BY DEF EsLinea
  <2>2. \A k \in 1 .. a : s[k] = x[k]
    BY DEF EsLinea
  <2>3. \A k \in 1 .. a : 0 + k = k
    BY <2>1
  <2>4. \A k \in 1 .. a : s[0 + k] = x[k]
    BY <2>2, <2>3
  <2>5. QED
    BY <2>1, <2>4
<1>2. Primero(s) = a + 2
  BY GuionesDeLinea
<1>3. SubSeq(s, 0 + 1, 0 + Len(x)) = x
  BY <1>1, TrozoIgual, 0 \in Nat, 0 + Len(x) <= Len(s)
<1> DEFINE Q == {Len(s), 1 + a - 1}
<1>4. Min(Q) = a
  <2>1. Q \subseteq Int /\ a \in Q /\ \A n \in Q : a <= n
    BY <1>1
  <2> HIDE DEF Q
  <2>2. QED
    BY <2>1, MinimoUnico
<1>5. SeccionEn(s) = SubSeq(s, 1, Min(Q))
  <2>1. Primero(s) - 2 = a /\ ~ a < 0
    BY <1>1, <1>2
  <2> HIDE DEF a
  <2>2. QED
    BY <2>1 DEF SeccionEn, Medio
<1>6. 0 + 1 = 1 /\ 0 + a = a
  BY <1>1
<1> HIDE DEF Q
<1>7. QED
  BY <1>3, <1>4, <1>5, <1>6

\* trimmed leaves a text that has no blank at either end.
Recortado(y) == y[1] # " " /\ y[Len(y)] # " "

\* There is nothing to trim.
LEMMA RecortaNada ==
  ASSUME NEW S, NEW y \in Seq(S), Len(y) >= 1, Recortado(y)
  PROVE  Recorta(y) = y
<1> DEFINE P == {k \in DOMAIN y : y[k] # " "}
<1>1. Len(y) \in Nat /\ DOMAIN y = 1 .. Len(y)
  BY LenProperties
<1> HIDE DEF P
<1>2. 1 \in 1 .. Len(y) /\ Len(y) \in 1 .. Len(y)
  BY <1>1
<1>3. 1 \in P /\ Len(y) \in P
  BY <1>1, <1>2, Zenon DEF P, Recortado
<1>4. P \subseteq Int /\ \A k \in P : 1 <= k /\ Len(y) >= k
  <2>1. P \subseteq 1 .. Len(y)
    BY <1>1, Zenon DEF P
  <2>2. QED
    BY <1>1, <2>1
<1>5. Min(P) = 1 /\ Max(P) = Len(y)
  <2>1. \A k \in P : 1 <= k
    BY <1>4
  <2>2. \A k \in P : Len(y) >= k
    BY <1>4
  <2>3. QED
    BY <1>3, <1>4, <2>1, <2>2, MinimoUnico, MaximoUnico
<1>6. SubSeq(y, 1, Len(y)) = y
  BY SubSeqFull
<1>7. P # {}
  BY <1>3
<1>8. QED
  BY <1>5, <1>6, <1>7 DEF Recorta, P

\* The title found in a line is the one said, with its dashes and blanks.
LEMMA TituloDeLinea ==
  ASSUME NEW S, NEW s \in Seq(S), NEW x \in Seq(S), NEW y \in Seq(S), NEW z \in Seq(S),
         NEW g, EsGuion(g), EsLinea(s, x, y, z, g), EsTexto(x, y, z)
  PROVE  TituloEn(s) = y
<1> DEFINE a == Len(x)
           b == Len(y)
<1>1. /\ a \in Nat /\ b \in Nat /\ Len(s) \in Nat /\ (a + 3) + b <= Len(s)
      /\ \A k \in 1 .. b : s[(a + 3) + k] = y[k]
  <2>1. a \in Nat /\ b \in Nat /\ Len(z) \in Nat /\ Len(s) = a + b + Len(z) + 6
    BY DEF EsLinea
  <2>2. \A k \in 1 .. b : s[a + 3 + k] = y[k]
    BY DEF EsLinea
  <2>3. QED
    BY <2>1, <2>2
<1>2. Primero(s) = a + 2 /\ Ultimo(s) = a + b + 5
  BY GuionesDeLinea
<1>3. SubSeq(s, (a + 3) + 1, (a + 3) + Len(y)) = y
  BY <1>1, TrozoIgual, a + 3 \in Nat, (a + 3) + Len(y) <= Len(s)
<1> DEFINE Q == {Len(s), (a + 4) + b - 1}
<1>4. Min(Q) = (a + 3) + b
  <2>1. Q \subseteq Int /\ (a + 3) + b \in Q /\ \A n \in Q : (a + 3) + b <= n
    BY <1>1
  <2> HIDE DEF Q
  <2>2. QED
    BY <2>1, MinimoUnico
<1>5. TituloEn(s) = Recorta(SubSeq(s, a + 4, Min(Q)))
  <2>1. Primero(s) + 2 = a + 4 /\ Ultimo(s) - Primero(s) - 3 = b /\ ~ b < 0
    BY <1>1, <1>2
  <2> HIDE DEF a, b
  <2>2. QED
    BY <2>1 DEF TituloEn, Medio
<1>6. SubSeq(s, a + 4, Min(Q)) = y
  BY <1>1, <1>3, <1>4, (a + 3) + 1 = a + 4
<1>7. QED
  BY <1>5, <1>6, RecortaNada DEF EsTexto, Recortado

\* There is a URL in the line, and the first is the link, whole.
LEMMA UrlDeLinea ==
  ASSUME NEW S, NEW s \in Seq(S), NEW x \in Seq(S), NEW y \in Seq(S), NEW z \in Seq(S),
         NEW g, EsGuion(g), EsLinea(s, x, y, z, g), EsTexto(x, y, z)
  PROVE  Urls(s) # {} /\ Url(s) = z
<1> DEFINE a == Len(x)
           b == Len(y)
           c == Len(z)
           n == a + b + 7
<1>1. /\ a \in Nat /\ b \in Nat /\ c \in Nat /\ c >= 1 /\ Len(s) = a + b + c + 6
      /\ \A j \in 1 .. c : s[a + b + 6 + j] = z[j]
  <2>1. c >= 1
    BY DEF EsTexto
  <2>2. Len(s) = a + b + c + 6 /\ \A j \in 1 .. c : s[a + b + 6 + j] = z[j]
    BY DEF EsLinea
  <2>3. QED
    BY <2>1, <2>2
<1>2. n \in 2 .. Len(s) /\ n - 1 = a + b + 6 /\ n = a + b + 6 + 1
  BY <1>1
<1>3. n \in Urls(s)
  <2>1. s[n] = z[1]
    BY <1>1, <1>2, 1 \in 1 .. c
  <2>2. s[n] = "http"
    BY <2>1 DEF EsTexto
  <2>3. s[n - 1] = " "
    BY <1>2, Zenon DEF EsLinea, EsGuion
  <2>4. QED
    BY <1>2, <2>2, <2>3, Zenon DEF Urls
<1>4. ASSUME NEW k \in 1 .. Len(s), s[k] = "http"
      PROVE  \E j \in 1 .. c : k = a + b + 6 + j
  <2>1. \/ k \in 1 .. a /\ s[k] = x[k]
        \/ k \in {a + 1, a + b + 4} /\ s[k] = g[1]
        \/ k \in {a + 2, a + b + 5} /\ s[k] = g[2]
        \/ k \in {a + 3, a + b + 6} /\ s[k] = g[3]
        \/ \E j \in 1 .. b : k = a + 3 + j /\ s[k] = y[j]
        \/ \E j \in 1 .. c : k = a + b + 6 + j /\ s[k] = z[j]
    BY LineaDonde
  <2>2. ~(k \in 1 .. a /\ s[k] = x[k])
    BY <1>4 DEF EsTexto
  <2>3. s[k] # g[1] /\ s[k] # g[2] /\ s[k] # g[3]
    BY <1>4 DEF EsGuion
  <2>4. ~ \E j \in 1 .. b : k = a + 3 + j /\ s[k] = y[j]
    BY <1>4 DEF EsTexto
  <2> HIDE DEF a, b, c
  <2>5. QED
    BY <2>1, <2>2, <2>3, <2>4
<1>5. ASSUME NEW j \in 1 .. c PROVE s[a + b + 6 + j] # " "
  <2>1. s[a + b + 6 + j] = z[j]
    BY <1>1
  <2>2. z[j] # " "
    BY DEF EsTexto
  <2>3. QED
    BY <2>1, <2>2, Zenon
<1>6. ASSUME NEW k \in Urls(s) PROVE n <= k
  <2>1. k \in 2 .. Len(s) /\ s[k] = "http"
    BY DEF Urls
  <2>2. PICK j \in 1 .. c : k = a + b + 6 + j
    BY <1>1, <1>4, <2>1, k \in 1 .. Len(s)
  <2>3. QED
    BY <1>1, <2>2
<1>7. Urls(s) \subseteq Int
  <2>1. Urls(s) \subseteq 2 .. Len(s)
    BY Zenon DEF Urls
  <2>2. QED
    BY <1>1, <2>1
<1>8. Min(Urls(s)) = n
  <2> HIDE DEF n
  <2>1. \A k \in Urls(s) : n <= k
    BY <1>6
  <2>2. QED
    BY <1>3, <1>7, <2>1, MinimoUnico
<1>9. {j \in n .. Len(s) : s[j] = " "} = {}
  <2>1. ASSUME NEW k \in n .. Len(s) PROVE s[k] # " "
    <3>1. /\ k - (a + b + 6) \in 1 .. c
          /\ a + b + 6 + (k - (a + b + 6)) = k
      BY <1>1
    <3>2. QED
      BY <1>5, <3>1
  <2>2. QED
    BY <2>1
<1> DEFINE Q == {Len(s)} \cup {j - 1 : j \in {k \in n .. Len(s) : s[k] = " "}}
<1>10. Min(Q) = Len(s)
  <2>1. Q = {Len(s)}
    <3> HIDE DEF n
    <3>1. QED
      BY <1>9
  <2>2. {Len(s)} \subseteq Int /\ \A k \in {Len(s)} : Len(s) <= k
    BY <1>1
  <2>3. Min({Len(s)}) = Len(s)
    <3> DEFINE L == {Len(s)}
    <3>1. L \subseteq Int /\ Len(s) \in L /\ \A k \in L : Len(s) <= k
      BY <2>2
    <3> HIDE DEF L
    <3>2. Min(L) = Len(s)
      BY <3>1, MinimoUnico
    <3>3. QED
      BY <3>2 DEF L
  <2>4. QED
    BY <2>1, <2>3
<1>11. Url(s) = SubSeq(s, n, Len(s))
  <2> HIDE DEF n
  <2>1. QED
    BY <1>8, <1>10 DEF Url
<1>12. SubSeq(s, (a + b + 6) + 1, (a + b + 6) + Len(z)) = z
  BY <1>1, TrozoIgual, a + b + 6 \in Nat, (a + b + 6) + Len(z) <= Len(s)
<1>13. n = (a + b + 6) + 1 /\ Len(s) = (a + b + 6) + Len(z)
  BY <1>1
<1>14. QED
  BY <1>3, <1>11, <1>12, <1>13

\* The short lists that the code builds.
LEMMA Listas ==
  ASSUME NEW S, NEW p \in S, NEW q \in S, NEW r \in S
  PROVE  /\ <<p>> \in Seq(S) /\ Len(<<p>>) = 1 /\ <<p>>[1] = p
         /\ <<p, q, r>> \in Seq(S) /\ Len(<<p, q, r>>) = 3
         /\ <<p, q, r>>[1] = p /\ <<p, q, r>>[2] = q /\ <<p, q, r>>[3] = r
  OBVIOUS

\* The code finds in what the bot says of an upload the three texts.
LEMMA DiceLoSuyo ==
  ASSUME NEW u \in Subidas
  PROVE  /\ Dice(u) # <<>> /\ Dice(u)[1] = Subida
         /\ Urls(Tail(Dice(u))) # {}
         /\ SeccionEn(Tail(Dice(u))) = SeccionDe[u]
         /\ TituloEn(Tail(Dice(u))) = TituloDe[u]
         /\ Url(Tail(Dice(u))) = EnlaceDe[u]
<1> DEFINE x == SeccionDe[u]
           y == TituloDe[u]
           z == EnlaceDe[u]
           g == Guion
           d1 == <<Subida>>
           d == d1 \o x \o g \o y \o g \o z
<1> DEFINE S == STRING \cup {" ", "-", Subida}
<1>1. x \in Seq(S) /\ y \in Seq(S) /\ z \in Seq(S)
  <2>1. x \in Seq(STRING) /\ y \in Seq(STRING) /\ z \in Seq(STRING)
    BY UploadsAssumption
  <2>2. STRING \subseteq S
    OBVIOUS
  <2> HIDE DEF S, x, y, z
  <2>3. QED
    BY <2>1, <2>2, SeqMonotonic
<1>2. " " \in S /\ "-" \in S /\ Subida \in S
  OBVIOUS
<1> HIDE DEF S
<1>3. g \in Seq(S) /\ Len(g) = 3 /\ EsGuion(g)
  BY <1>2, Listas DEF Guion, EsGuion
<1>4. d1 \in Seq(S) /\ Len(d1) = 1 /\ d1[1] = Subida
  BY <1>2, Listas
<1>5. EsTexto(x, y, z)
  <2>1. /\ \A k \in DOMAIN x : x[k] \notin {"-", "http"}
        /\ y # <<>> /\ y[1] # " " /\ y[Len(y)] # " "
        /\ \A k \in DOMAIN y : y[k] # "http"
        /\ z # <<>> /\ z[1] = "http"
        /\ \A k \in DOMAIN z : z[k] \notin {"-", " "}
    BY IrcSessionAssumption
  <2>2. /\ DOMAIN x = 1 .. Len(x) /\ DOMAIN y = 1 .. Len(y) /\ DOMAIN z = 1 .. Len(z)
    BY <1>1, LenProperties
  <2> HIDE DEF x, y, z
  <2>3. Len(y) >= 1 /\ Len(z) >= 1
    <3>1. y # <<>> /\ z # <<>>
      BY <2>1
    <3>2. Len(y) \in Nat \ {0} /\ Len(z) \in Nat \ {0}
      BY <1>1, <3>1, EmptySeq
    <3>3. QED
      BY <3>2
  <2>4. QED
    BY <2>1, <2>2, <2>3, Zenon DEF EsTexto
<1>6. d = Dice(u)
  BY DEF Dice
<1> HIDE DEF x, y, z, g, d1
<1>7. d # <<>> /\ d[1] = d1[1] /\ Tail(d) \in Seq(S) /\ EsLinea(Tail(d), x, y, z, g)
  BY <1>1, <1>3, <1>4, LineaPosiciones
<1> HIDE DEF d
<1>8. Urls(Tail(d)) # {} /\ Url(Tail(d)) = z
  BY <1>1, <1>3, <1>5, <1>7, UrlDeLinea
<1>9. SeccionEn(Tail(d)) = x
  BY <1>1, <1>3, <1>5, <1>7, SeccionDeLinea
<1>10. TituloEn(Tail(d)) = y
  BY <1>1, <1>3, <1>5, <1>7, TituloDeLinea
<1>11. d # <<>> /\ d[1] = Subida
  BY <1>4, <1>7
<1>12. QED
  BY <1>6, <1>8, <1>9, <1>10, <1>11 DEF x, y, z

-----------------------------------------------------------------------------
(* The lines that are announced.                                           *)

\* What the bot says of an upload, in a channel.
Anunciada(l, d) == l.nick = Bot /\ d # Privado /\ l.u # Ninguna

\* on_privmsg brings to miraTitulo the lines that announce an upload, with
\* its texts, and no other.
LEMMA MensajeAnuncia ==
  ASSUME NEW l \in Lineas, NEW d, Mensaje(l, d)
  PROVE  /\ Anunciada(l, d) =>
              /\ l.u \in Subidas
              /\ MiraTitulo(Anuncio("irc", l.u, SeccionDe[l.u], TituloDe[l.u], EnlaceDe[l.u]))
         /\ ~Anunciada(l, d) => Calla
<1> DEFINE m == Descolorea(l.texto)
<1>1. /\ IF DelBot(l, d, m) THEN MiraSubida(Tail(m), l.u) ELSE Calla
  BY Zenon DEF Mensaje, SinColores
<1>2. /\ l.texto \in Seq(STRING) /\ l.u \in Subidas \cup {Ninguna} /\ Ninguna \notin Subidas
      /\ l.nick = Bot =>
           IF l.u \in Subidas THEN Muestra(l.texto) = Dice(l.u)
           ELSE Muestra(l.texto) # <<>> /\ Muestra(l.texto)[1] = Subida
                => Urls(Tail(Muestra(l.texto))) = {}
  BY IrcSessionAssumption, Zenon
<1>3. m = Muestra(l.texto)
  BY <1>2, DescoloreaMuestra
<1> HIDE DEF m
<1>4. ASSUME Anunciada(l, d)
      PROVE  /\ l.u \in Subidas
             /\ MiraTitulo(Anuncio("irc", l.u, SeccionDe[l.u], TituloDe[l.u], EnlaceDe[l.u]))
  <2>1. l.u \in Subidas /\ m = Dice(l.u)
    BY <1>2, <1>3, <1>4 DEF Anunciada
  <2>2. DelBot(l, d, m)
    BY <1>4, <2>1, DiceLoSuyo DEF DelBot, Anunciada
  <2>3. MiraSubida(Tail(m), l.u)
    BY <1>1, <2>2
  <2>4. /\ Urls(Tail(m)) # {} /\ SeccionEn(Tail(m)) = SeccionDe[l.u]
        /\ TituloEn(Tail(m)) = TituloDe[l.u] /\ Url(Tail(m)) = EnlaceDe[l.u]
    BY <2>1, DiceLoSuyo
  <2>5. MiraTitulo(Anuncio("irc", l.u, SeccionEn(Tail(m)), TituloEn(Tail(m)), Url(Tail(m))))
    BY <2>3, <2>4 DEF MiraSubida
  <2>6. QED
    BY <2>1, <2>4, <2>5
<1>5. ASSUME ~Anunciada(l, d) PROVE Calla
  <2>1. CASE ~DelBot(l, d, m)
    BY <1>1, <2>1
  <2>2. CASE DelBot(l, d, m)
    <3>1. l.nick = Bot /\ d # Privado /\ m # <<>> /\ m[1] = Subida
      BY <2>2 DEF DelBot
    <3>2. l.u \notin Subidas
      BY <1>2, <1>5, <3>1 DEF Anunciada
    <3>3. Urls(Tail(m)) = {}
      BY <1>2, <1>3, <3>1, <3>2
    <3>4. QED
      BY <1>1, <2>2, <3>3 DEF MiraSubida
  <2>3. QED
    BY <2>1, <2>2
<1>6. QED
  BY <1>4, <1>5

\* What the bot announces in a channel, and nothing else, comes to miraTitulo
\* with the three texts as they were.
THEOREM LoQueDiceElBot == Spec => IrcFiel
<1>1. ASSUME NEW l \in Lineas, NEW d \in Canales \cup {Privado}, Mensaje(l, d)
      PROVE  ultimo' = IF l.nick = Bot /\ d # Privado /\ l.u # Ninguna
                       THEN Anuncio("irc", l.u, SeccionDe[l.u], TituloDe[l.u], EnlaceDe[l.u])
                       ELSE SinAnuncio
  <2>1. CASE Anunciada(l, d)
    <3>1. MiraTitulo(Anuncio("irc", l.u, SeccionDe[l.u], TituloDe[l.u], EnlaceDe[l.u]))
      BY <1>1, <2>1, MensajeAnuncia
    <3>2. QED
      BY <2>1, <3>1 DEF MiraTitulo, Anunciada
  <2>2. CASE ~Anunciada(l, d)
    <3>1. Calla
      BY <1>1, <2>2, MensajeAnuncia
    <3>2. QED
      BY <2>2, <3>1 DEF Calla, Anunciada
  <2>3. QED
    BY <2>1, <2>2
<1>2. [Next]_vars
      => [\A l \in Lineas, d \in Canales \cup {Privado} :
            Mensaje(l, d)
            => ultimo' = IF l.nick = Bot /\ d # Privado /\ l.u # Ninguna
                         THEN Anuncio("irc", l.u, SeccionDe[l.u], TituloDe[l.u], EnlaceDe[l.u])
                         ELSE SinAnuncio]_vars
  BY <1>1
<1>3. QED
  BY <1>2, PTL DEF Spec, IrcFiel

-----------------------------------------------------------------------------
(* Types.                                                                  *)

\* The types, by the module that declares the variables.
TipoFeed ==
  /\ enDoc \in BOOLEAN /\ roto \in BOOLEAN
  /\ item \in Subidas \cup {Nada}
  /\ faltan \in Seq(Campos)
  /\ currentTag \in Campos \cup {"item", Nada}
  /\ pila \in Nat /\ items \in Nat /\ truncados \in Nat
  /\ resta \in Seq(STRING) /\ value \in Seq(STRING)
  /\ titleString \in Seq(STRING) /\ linkString \in Seq(STRING)
  /\ description \in Seq(STRING)

TipoIrc ==
  /\ conexion \in {"abriendo", "saludo", "arriba", "caida"}
  /\ enCanal \subseteq Canales /\ pedidos \subseteq Canales
  /\ esperas \subseteq Canales

TipoAnuncios ==
  /\ ultimo.fuente \in {"nadie", "feed", "irc"}
  /\ tomados \in Seq(Subidas) /\ recientes \in Seq(Seq(STRING))

\* Where in a document the parser may be.
Marcha ==
  /\ ~enDoc => item = Nada /\ resta = <<>>
  /\ item = Nada => faltan \in {<<>>, <<"title">>}
  /\ item # Nada => pila > 0

\* The invariant for the types: pila does not go below 0, as an item is open
\* only inside the stack.
BInv == TipoFeed /\ TipoIrc /\ TipoAnuncios /\ llegadas \in Nat /\ Marcha

\* TypeOK, in parts.
LEMMA TypeOKPartes ==
  TypeOK <=> TipoFeed /\ TipoIrc /\ TipoAnuncios /\ llegadas \in Nat
<1>1. (\A s \in {resta, value, titleString, linkString, description} : s \in Seq(STRING))
      <=> /\ resta \in Seq(STRING) /\ value \in Seq(STRING)
          /\ titleString \in Seq(STRING) /\ linkString \in Seq(STRING)
          /\ description \in Seq(STRING)
  OBVIOUS
<1>2. QED
  BY <1>1, Zenon DEF TypeOK, TipoFeed, TipoIrc, TipoAnuncios

\* The texts a title may have.
TitulosDe(u) ==
  {TituloDe[u]} \cup {<<p>> \o TituloDe[u] \o <<Pares>> :
                        p \in {q \in DOMAIN Prefijo : Prefijo[q] = SeccionDe[u]}}

\* A title with what some trackers add: the tokens are at its two ends.
LEMMA TituloConTokens ==
  ASSUME NEW u \in Subidas, NEW p \in DOMAIN Prefijo
  PROVE  LET t == <<p>> \o TituloDe[u] \o <<Pares>>
             n == Len(TituloDe[u]) IN
         /\ t \in Seq(STRING) /\ n \in Nat /\ Len(t) = n + 2
         /\ t[1] = p /\ t[n + 2] = Pares
         /\ \A k \in 1 .. n : t[k + 1] = TituloDe[u][k]
<1> DEFINE y == TituloDe[u]
           n == Len(y)
           a == <<p>>
           b == a \o y
           c == <<Pares>>
           t == b \o c
<1>1. y \in Seq(STRING) /\ p \in STRING /\ Pares \in STRING
  BY UploadsAssumption, FeedParserAssumption
<1>2. /\ a \in Seq(STRING) /\ Len(a) = 1 /\ a[1] = p
      /\ c \in Seq(STRING) /\ Len(c) = 1 /\ c[1] = Pares
  BY <1>1, Listas
<1> HIDE DEF y, a, c
<1>3. n \in Nat
  BY <1>1, LenProperties
<1>4. /\ b \in Seq(STRING) /\ Len(b) = Len(a) + Len(y)
      /\ \A k \in 1 .. Len(a) + Len(y) : b[k] = IF k <= Len(a) THEN a[k] ELSE y[k - Len(a)]
  BY <1>1, <1>2, ConcatProperties
<1> HIDE DEF b
<1>5. /\ t \in Seq(STRING) /\ Len(t) = Len(b) + Len(c)
      /\ \A k \in 1 .. Len(b) + Len(c) : t[k] = IF k <= Len(b) THEN b[k] ELSE c[k - Len(b)]
  <2>1. b \in Seq(STRING) /\ c \in Seq(STRING)
    BY <1>2, <1>4
  <2>2. QED
    BY <2>1, ConcatProperties
<1> HIDE DEF t
<1>6. Len(b) = n + 1 /\ Len(t) = n + 2 /\ b[1] = p
  BY <1>2, <1>3, <1>4, <1>5
<1> HIDE DEF n
<1>7. t[1] = p
  BY <1>2, <1>3, <1>5, <1>6, 1 \in 1 .. Len(b) + Len(c)
<1>8. t[n + 2] = Pares
  <2>1. n + 2 \in 1 .. Len(b) + Len(c) /\ ~ n + 2 <= Len(b) /\ (n + 2) - Len(b) = 1
    BY <1>2, <1>3, <1>6
  <2>2. QED
    BY <1>2, <1>5, <2>1
<1>9. ASSUME NEW k \in 1 .. n PROVE t[k + 1] = y[k]
  <2>1. /\ k + 1 \in 1 .. Len(b) + Len(c) /\ k + 1 <= Len(b)
        /\ k + 1 \in 1 .. Len(a) + Len(y) /\ ~ k + 1 <= Len(a) /\ (k + 1) - Len(a) = k
    BY <1>2, <1>3, <1>6 DEF n
  <2>2. QED
    BY <1>4, <1>5, <2>1
<1>10. QED
  BY <1>3, <1>5, <1>6, <1>7, <1>8, <1>9 DEF t, b, a, c, n, y

\* Either way a title is a text.
LEMMA TitulosTipo ==
  ASSUME NEW u \in Subidas, NEW t \in TitulosDe(u)
  PROVE  t \in Seq(STRING)
<1>1. CASE t = TituloDe[u]
  BY <1>1, UploadsAssumption
<1>2. ASSUME NEW p \in DOMAIN Prefijo, t = <<p>> \o TituloDe[u] \o <<Pares>>
      PROVE  t \in Seq(STRING)
  BY <1>2, TituloConTokens
<1>3. QED
  BY <1>1, <1>2 DEF TitulosDe

\* What is left of a title when the tokens that the tracker added go.
LEMMA LimpiaTipo ==
  ASSUME NEW S, NEW t \in Seq(S)
  PROVE  Limpia(t) \in Seq(S)
<1> DEFINE P == {k \in DOMAIN t : t[k] # Pares}
           sin == EnOrden(t, P)
<1>1. P \in SUBSET (1 .. Len(t))
  OBVIOUS
<1>2. sin \in Seq(S)
  <2> HIDE DEF P
  <2>1. QED
    BY <1>1, EnOrdenPosiciones
<1> HIDE DEF sin
<1>3. sin # <<>> => Tail(sin) \in Seq(S)
  BY <1>2, HeadTailProperties
<1>4. Limpia(t) = IF sin # <<>> /\ sin[1] \in DOMAIN Prefijo THEN Tail(sin) ELSE sin
  BY DEF Limpia, sin
<1>5. QED
  BY <1>2, <1>3, <1>4

\* Only the tokens go: the title of the item is what is left.
LEMMA LimpiaTitulo ==
  ASSUME NEW u \in Subidas, NEW t \in TitulosDe(u)
  PROVE  Limpia(t) = TituloDe[u]
<1> DEFINE y == TituloDe[u]
           n == Len(y)
           P == {k \in DOMAIN t : t[k] # Pares}
           sin == EnOrden(t, P)
<1>1. y \in Seq(STRING) /\ n \in Nat /\ DOMAIN y = 1 .. n
  <2>1. y \in Seq(STRING)
    BY UploadsAssumption
  <2>2. QED
    BY <2>1, LenProperties
<1>2. \A k \in 1 .. n : y[k] \notin DOMAIN Prefijo /\ y[k] # Pares
  BY <1>1, FeedParserAssumption
<1>3. Limpia(t) = IF sin # <<>> /\ sin[1] \in DOMAIN Prefijo THEN Tail(sin) ELSE sin
  BY DEF Limpia
<1>4. CASE t = y
  <2>1. P = 1 .. Len(t)
    BY <1>1, <1>2, <1>4
  <2>2. sin = y
    BY <1>1, <1>4, <2>1, EnOrdenTodo
  <2>3. y # <<>> => y[1] \notin DOMAIN Prefijo
    BY <1>1, <1>2
  <2>4. QED
    BY <1>3, <2>2, <2>3
<1>5. ASSUME NEW p \in DOMAIN Prefijo, t = <<p>> \o y \o <<Pares>>
      PROVE  Limpia(t) = y
  <2>1. /\ t \in Seq(STRING) /\ Len(t) = n + 2
        /\ t[1] = p /\ t[n + 2] = Pares
        /\ \A k \in 1 .. n : t[k + 1] = y[k]
    BY <1>5, TituloConTokens
  <2> HIDE DEF y
  <2>2. Pares \notin DOMAIN Prefijo
    BY FeedParserAssumption
  <2>3. ASSUME NEW k \in 1 .. n + 1 PROVE t[k] # Pares
    <3>1. CASE k = 1
      BY <2>1, <2>2, <3>1
    <3>2. CASE k # 1
      <4>1. k - 1 \in 1 .. n /\ (k - 1) + 1 = k
        BY <1>1, <3>2
      <4>2. t[k] = y[k - 1]
        BY <2>1, <4>1
      <4>3. QED
        BY <1>2, <4>1, <4>2
    <3>3. QED
      BY <3>1, <3>2
  <2>4. P = 1 .. n + 1
    <3>1. DOMAIN t = 1 .. n + 2
      BY <2>1, LenProperties
    <3>2. \A k : k \in 1 .. n + 2 <=> k \in 1 .. n + 1 \/ k = n + 2
      BY <1>1
    <3>3. n + 2 \notin 1 .. n + 1
      BY <1>1
    <3>4. QED
      BY <2>1, <2>3, <3>1, <3>2, <3>3
  <2> DEFINE f == [j \in 1 .. n + 1 |-> j]
  <2>5. Numera(f, n + 1, P)
    <3>1. f \in [1 .. n + 1 -> P]
      BY <2>4
    <3>2. \A j, k \in 1 .. n + 1 : j < k => f[j] < f[k]
      OBVIOUS
    <3>3. \A q \in P : \E j \in 1 .. n + 1 : f[j] = q
      BY <2>4
    <3> HIDE DEF f, P
    <3>4. QED
      BY <3>1, <3>2, <3>3 DEF Numera
  <2>6. sin = [j \in 1 .. n + 1 |-> t[f[j]]]
    <3>1. P \in SUBSET (1 .. Len(t)) /\ n + 1 \in Nat
      BY <1>1, <2>1, <2>4
    <3> HIDE DEF P, f
    <3>2. QED
      BY <2>1, <2>5, <3>1, EnOrdenUnico
  <2>7. sin = [j \in 1 .. n + 1 |-> t[j]]
    BY <2>6
  <2> HIDE DEF f, P, sin
  <2>8. \A j \in 1 .. n + 1 : t[j] \in STRING
    BY <1>1, <2>1, ElementOfSeq
  <2>9. sin \in Seq(STRING) /\ Len(sin) = n + 1 /\ \A j \in 1 .. n + 1 : sin[j] = t[j]
    BY <1>1, <2>7, <2>8
  <2>10. sin # <<>> /\ sin[1] = p
    BY <1>1, <2>1, <2>9
  <2>11. /\ Tail(sin) \in Seq(STRING) /\ Len(Tail(sin)) = Len(sin) - 1
         /\ \A j \in 1 .. Len(Tail(sin)) : Tail(sin)[j] = sin[j + 1]
    BY <2>9, <2>10, HeadTailProperties
  <2>12. Len(Tail(sin)) = n
    BY <1>1, <2>9, <2>11
  <2>13. ASSUME NEW j \in 1 .. n PROVE Tail(sin)[j] = y[j]
    <3>1. j + 1 \in 1 .. n + 1
      BY <1>1
    <3>2. QED
      BY <2>1, <2>9, <2>11, <2>12, <3>1
  <2>14. Tail(sin) = y
    BY <1>1, <2>11, <2>12, <2>13, SeqEqual
  <2>15. QED
    BY <1>3, <2>10, <2>14
<1>6. QED
  BY <1>4, <1>5 DEF TitulosDe

\* And so is what any field has.
LEMMA TextosTipo ==
  ASSUME NEW c \in Campos, TipoFeed, NEW t \in Textos(c)
  PROVE  t \in Seq(STRING)
<1>1. CASE item = Nada
  <2>1. t = <<TituloCanal>>
    BY <1>1 DEF Textos
  <2>2. TituloCanal \in STRING
    BY FeedParserAssumption
  <2>3. QED
    BY <2>1, <2>2, Listas
<1>2. CASE item # Nada
  <2>1. item \in Subidas
    BY <1>2 DEF TipoFeed
  <2>2. EnlaceDe[item] \in Seq(STRING) /\ SeccionDe[item] \in Seq(STRING)
    BY <2>1, UploadsAssumption
  <2>3. <<>> \in Seq(STRING)
    OBVIOUS
  <2>4. CASE c = "title"
    <3>1. t \in TitulosDe(item)
      BY <1>2, <2>4 DEF Textos, TitulosDe
    <3>2. QED
      BY <2>1, <3>1, TitulosTipo
  <2>5. CASE c = "link"
    BY <1>2, <2>2, <2>5 DEF Textos
  <2>6. CASE c = "enclosure"
    BY <1>2, <2>3, <2>6 DEF Textos
  <2>7. CASE c = "description"
    BY <1>2, <2>2, <2>7 DEF Textos
  <2>8. QED
    BY <2>4, <2>5, <2>6, <2>7 DEF Campos
<1>3. QED
  BY <1>1, <1>2

\* miraTitulo, for an announcement of one of the two ways.
LEMMA MiraTituloTipo ==
  ASSUME TipoAnuncios, NEW a, MiraTitulo(a), a.fuente \in {"feed", "irc"},
         a.u \in Subidas, a.titulo \in Seq(STRING)
  PROVE  TipoAnuncios'
<1>1. ultimo' = a
  BY DEF MiraTitulo
<1>2. CASE UNCHANGED <<recientes, tomados>>
  BY <1>1, <1>2 DEF TipoAnuncios
<1>3. CASE /\ recientes' = Append(IF Len(recientes) > MaxRecientes
                                  THEN Tail(recientes) ELSE recientes, a.titulo)
           /\ tomados' = Append(tomados, a.u)
  <2> DEFINE r == IF Len(recientes) > MaxRecientes THEN Tail(recientes) ELSE recientes
  <2>1. r \in Seq(Seq(STRING))
    <3>1. CASE Len(recientes) > MaxRecientes
      <4>1. recientes # <<>>
        BY <3>1, UploadsAssumption
      <4>2. QED
        BY <3>1, <4>1, HeadTailProperties DEF TipoAnuncios
    <3>2. CASE ~ Len(recientes) > MaxRecientes
      BY <3>2 DEF TipoAnuncios
    <3>3. QED
      BY <3>1, <3>2
  <2> HIDE DEF r
  <2>2. Append(r, a.titulo) \in Seq(Seq(STRING))
    BY <2>1, AppendProperties
  <2>3. Append(tomados, a.u) \in Seq(Subidas)
    BY AppendProperties DEF TipoAnuncios
  <2>4. QED
    BY <1>1, <1>3, <2>2, <2>3 DEF TipoAnuncios, r
<1>4. QED
  BY <1>2, <1>3 DEF MiraTitulo

\* When nothing is announced the types of what was are kept.
LEMMA CallaTipo ==
  ASSUME TipoAnuncios, Calla \/ UNCHANGED varsAnuncios
  PROVE  TipoAnuncios'
<1>1. CASE Calla
  BY <1>1 DEF TipoAnuncios, Calla, SinAnuncio
<1>2. CASE UNCHANGED varsAnuncios
  BY <1>2 DEF TipoAnuncios, varsAnuncios
<1>3. QED
  BY <1>1, <1>2

\* The first word of a text is a text.
LEMMA PrimeraPalabraTipo ==
  ASSUME NEW s \in Seq(STRING)
  PROVE  PrimeraPalabra(s) \in Seq(STRING)
<1> DEFINE Seguida(k) == \A j \in 1 .. k : s[j] # " "
           P == {k \in DOMAIN s : Seguida(k)}
<1>1. P \in SUBSET (1 .. Len(s))
  <2>1. DOMAIN s = 1 .. Len(s)
    OBVIOUS
  <2> HIDE DEF Seguida
  <2>2. QED
    BY <2>1
<1>2. PrimeraPalabra(s) = EnOrden(s, P)
  BY DEF PrimeraPalabra
<1> HIDE DEF P
<1>3. QED
  BY <1>1, <1>2, EnOrdenPosiciones

\* ... and there is none in an empty one.
LEMMA SinPalabra == PrimeraPalabra(<<>>) = <<>>
<1> DEFINE s == <<>>
           P == {k \in DOMAIN s : \A j \in 1 .. k : s[j] # " "}
<1>1. s \in Seq(STRING) /\ Len(s) = 0
  BY EmptySeq
<1>2. P = 1 .. Len(s)
  BY <1>1
<1>3. EnOrden(s, 1 .. Len(s)) = s
  <2> HIDE DEF s
  <2>1. QED
    BY <1>1, EnOrdenTodo
<1>4. QED
  BY <1>2, <1>3 DEF PrimeraPalabra

\* The section an item gets.
LEMMA SeccionTipo ==
  ASSUME TipoFeed
  PROVE  Seccion \in Seq(STRING)
<1>1. PrimeraPalabra(description) \in Seq(STRING)
  BY PrimeraPalabraTipo DEF TipoFeed
<1>2. QED
  BY <1>1, FeedParserAssumption DEF TipoFeed, Seccion

\* It holds at the start.
LEMMA BInicial == Init => BInv
<1> SUFFICES ASSUME Init PROVE BInv
  OBVIOUS
<1>1. TipoFeed
  <2>1. <<>> \in Seq(STRING) /\ <<>> \in Seq(Campos)
    BY EmptySeq
  <2>2. QED
    BY <2>1 DEF Init, InitFeed, TipoFeed
<1>2. TipoIrc
  BY DEF Init, InitIrc, TipoIrc
<1>3. TipoAnuncios /\ llegadas \in Nat
  BY DEF Init, InitAnuncios, TipoAnuncios, SinAnuncio
<1>4. Marcha
  BY DEF Init, InitFeed, Marcha
<1>5. QED
  BY <1>1, <1>2, <1>3, <1>4 DEF BInv

\* What is left of a document when it ends, wherever it ends.
LEMMA AcabaTipo ==
  ASSUME BInv, Acaba, truncados' \in Nat, roto' \in BOOLEAN, pila' \in Nat,
         currentTag' = currentTag,
         \/ Olvida
         \/ UNCHANGED <<titleString, linkString, description>>,
         Calla, UNCHANGED <<varsIrc, llegadas>>
  PROVE  BInv'
<1>1. <<>> \in Seq(STRING) /\ <<>> \in Seq(Campos)
  BY EmptySeq
<1>2. /\ enDoc' = FALSE /\ item' = Nada /\ resta' = <<>> /\ faltan' = <<>>
      /\ value' = <<>> /\ items' = items
  BY DEF Acaba
<1>3. TipoFeed /\ TipoIrc /\ TipoAnuncios /\ llegadas \in Nat
  BY DEF BInv
<1>4. titleString' \in Seq(STRING) /\ linkString' \in Seq(STRING) /\ description' \in Seq(STRING)
  BY <1>1, <1>3 DEF Olvida, TipoFeed
<1>5. TipoFeed'
  BY <1>1, <1>2, <1>3, <1>4 DEF TipoFeed
<1>6. TipoIrc' /\ llegadas' \in Nat
  BY <1>3 DEF TipoIrc, varsIrc
<1>7. TipoAnuncios'
  BY <1>3, CallaTipo
<1>8. Marcha'
  BY <1>2 DEF Marcha
<1>9. QED
  BY <1>5, <1>6, <1>7, <1>8 DEF BInv

\* Every step of parseXml keeps it.
LEMMA BFeedSigue == BInv /\ PasoFeed => BInv'
<1> SUFFICES ASSUME BInv, PasoFeed PROVE BInv'
  OBVIOUS
<1>1. TipoFeed /\ TipoIrc /\ TipoAnuncios /\ llegadas \in Nat /\ Marcha
  BY DEF BInv
<1>2. UNCHANGED varsIrc /\ NextFeed
  BY DEF PasoFeed
<1>3. TipoIrc'
  BY <1>1, <1>2 DEF TipoIrc, varsIrc
<1>4. <<>> \in Seq(STRING) /\ <<>> \in Seq(Campos) /\ <<"title">> \in Seq(Campos)
  <2>1. "title" \in Campos
    BY DEF Campos
  <2>2. QED
    BY <2>1, EmptySeq, Listas
<1>5. CASE AbreDoc
  <2>1. /\ enDoc' = TRUE /\ faltan' \in {<<>>, <<"title">>} /\ value' = <<>>
        /\ UNCHANGED <<item, resta, items, truncados, pila, currentTag,
                       titleString, linkString, description, roto, varsAnuncios>>
        /\ ~enDoc /\ llegadas' = llegadas + 1
    BY <1>5 DEF AbreDoc, Llega
  <2>2. TipoFeed'
    BY <1>1, <1>4, <2>1 DEF TipoFeed
  <2>3. TipoAnuncios' /\ llegadas' \in Nat
    BY <1>1, <2>1, CallaTipo
  <2>4. Marcha'
    BY <1>1, <2>1 DEF Marcha
  <2>5. QED
    BY <1>3, <2>2, <2>3, <2>4 DEF BInv
<1>6. ASSUME NEW u \in Subidas, AbreItem(u), UNCHANGED llegadas PROVE BInv'
  <2>1. /\ item' = u /\ items' = items + 1 /\ faltan' \in Formas
        /\ linkString' = <<>> /\ pila' = pila + 1 /\ currentTag' = "item"
        /\ UNCHANGED <<enDoc, resta, truncados, value, titleString, description, roto>>
        /\ enDoc /\ Calla
    BY <1>6 DEF AbreItem
  <2>2. faltan' \in Seq(Campos) /\ u # Nada
    BY <2>1, FeedParserAssumption
  <2>3. TipoFeed'
    BY <1>1, <1>4, <2>1, <2>2 DEF TipoFeed
  <2>4. TipoAnuncios'
    BY <1>1, <2>1, CallaTipo
  <2>5. Marcha'
    BY <1>1, <2>1, <2>2 DEF Marcha, TipoFeed
  <2>6. QED
    BY <1>1, <1>3, <1>6, <2>3, <2>4, <2>5 DEF BInv
<1>7. ASSUME NEW c \in Campos, AbreCampo(c), UNCHANGED llegadas PROVE BInv'
  <2>1. /\ faltan # <<>> /\ c = Head(faltan) /\ faltan' = Tail(faltan)
        /\ resta' \in Textos(c) /\ currentTag' = c
        /\ linkString' = IF c = "enclosure" THEN EnlaceDe[item] ELSE linkString
        /\ UNCHANGED <<enDoc, item, items, truncados, value, pila, titleString,
                       description, roto, varsAnuncios>>
        /\ enDoc
    BY <1>7 DEF AbreCampo
  <2>2. resta' \in Seq(STRING)
    BY <1>1, <2>1, TextosTipo
  <2>3. faltan' \in Seq(Campos)
    BY <1>1, <2>1, HeadTailProperties DEF TipoFeed
  <2>4. item = Nada => c = "title" /\ faltan' = <<>>
    <3>1. item = Nada => faltan = <<"title">>
      BY <1>1, <2>1 DEF Marcha
    <3>2. Head(<<"title">>) = "title" /\ Tail(<<"title">>) = <<>>
      OBVIOUS
    <3>3. QED
      BY <2>1, <3>1, <3>2
  <2>5. linkString' \in Seq(STRING)
    <3>1. CASE c = "enclosure"
      <4>1. item \in Subidas
        BY <1>1, <2>4, <3>1 DEF TipoFeed
      <4>2. QED
        BY <2>1, <3>1, <4>1, UploadsAssumption
    <3>2. CASE c # "enclosure"
      BY <1>1, <2>1, <3>2 DEF TipoFeed
    <3>3. QED
      BY <3>1, <3>2
  <2>6. TipoFeed'
    BY <1>1, <2>1, <2>2, <2>3, <2>5 DEF TipoFeed
  <2>7. TipoAnuncios'
    BY <1>1, <2>1, CallaTipo
  <2>8. Marcha'
    BY <1>1, <2>1, <2>4 DEF Marcha
  <2>9. QED
    BY <1>1, <1>3, <1>7, <2>6, <2>7, <2>8 DEF BInv
<1>8. CASE Texto /\ UNCHANGED llegadas
  <2>1. PICK k \in {Len(resta)} \cup (IF currentTag = "title" THEN {1} ELSE {}) :
          Anota(SubSeq(resta, 1, k)) /\ resta' = SubSeq(resta, k + 1, Len(resta))
    BY <1>8 DEF Texto
  <2>2. /\ UNCHANGED <<enDoc, item, faltan, items, truncados, value, pila, currentTag,
                       roto, varsAnuncios>>
        /\ enDoc /\ resta # <<>>
    BY <1>8 DEF Texto
  <2> DEFINE t == SubSeq(resta, 1, k)
  <2>3. resta \in Seq(STRING) /\ Len(resta) \in Nat /\ Len(resta) >= 1 /\ k \in 1 .. Len(resta)
    <3>1. resta \in Seq(STRING)
      BY <1>1 DEF TipoFeed
    <3>2. Len(resta) \in Nat \ {0}
      BY <2>2, <3>1, EmptySeq
    <3>3. k = Len(resta) \/ k = 1
      BY <2>1
    <3>4. QED
      BY <3>1, <3>2, <3>3
  <2>4. t \in Seq(STRING) /\ resta' \in Seq(STRING)
    <3>1. /\ \A i \in 1 .. k : resta[i] \in STRING
          /\ \A i \in k + 1 .. Len(resta) : resta[i] \in STRING
      BY <2>3, ElementOfSeq
    <3>2. t \in Seq(STRING)
      BY <2>3, <3>1, SubSeqProperties
    <3>3. SubSeq(resta, k + 1, Len(resta)) \in Seq(STRING)
      BY <2>3, <3>1, SubSeqProperties
    <3>4. QED
      BY <2>1, <3>2, <3>3
  <2> HIDE DEF t
  <2>5. /\ titleString' \in {titleString, titleString \o t}
        /\ linkString' \in {linkString, linkString \o t}
        /\ description' \in {description, description \o t}
    BY <2>1 DEF Anota, t
  <2>6. /\ titleString \o t \in Seq(STRING) /\ linkString \o t \in Seq(STRING)
        /\ description \o t \in Seq(STRING)
    BY <1>1, <2>4, ConcatProperties DEF TipoFeed
  <2>7. TipoFeed'
    BY <1>1, <2>2, <2>4, <2>5, <2>6 DEF TipoFeed
  <2>8. TipoAnuncios'
    BY <1>1, <2>2, CallaTipo
  <2>9. Marcha'
    BY <1>1, <2>2 DEF Marcha
  <2>10. QED
    BY <1>1, <1>3, <1>8, <2>7, <2>8, <2>9 DEF BInv
<1>9. CASE CierraItem /\ UNCHANGED llegadas
  <2>1. /\ enDoc /\ item # Nada /\ resta = <<>> /\ faltan = <<>>
        /\ MiraTitulo(Anuncio("feed", item, Seccion, Limpia(titleString), linkString))
        /\ value' = Seccion
        /\ titleString' = <<>> /\ linkString' = <<>> /\ description' = <<>>
        /\ pila' = pila - 1 /\ item' = Nada
        /\ UNCHANGED <<enDoc, resta, faltan, items, truncados, currentTag, roto>>
    BY <1>9 DEF CierraItem, Olvida
  <2>2. pila - 1 \in Nat
    BY <1>1, <2>1 DEF Marcha, TipoFeed
  <2>3. TipoFeed'
    BY <1>1, <1>4, <2>1, <2>2, SeccionTipo DEF TipoFeed
  <2>4. TipoAnuncios'
    <3>1. Limpia(titleString) \in Seq(STRING)
      BY <1>1, LimpiaTipo DEF TipoFeed
    <3>2. item \in Subidas
      BY <1>1, <2>1 DEF TipoFeed
    <3> DEFINE a == Anuncio("feed", item, Seccion, Limpia(titleString), linkString)
    <3>3. a.fuente \in {"feed", "irc"} /\ a.u \in Subidas /\ a.titulo \in Seq(STRING)
      BY <3>1, <3>2 DEF Anuncio
    <3> HIDE DEF a
    <3>4. MiraTitulo(a)
      BY <2>1 DEF a
    <3>5. QED
      BY <1>1, <3>3, <3>4, MiraTituloTipo
  <2>5. Marcha'
    BY <2>1 DEF Marcha
  <2>6. QED
    BY <1>1, <1>3, <1>9, <2>3, <2>4, <2>5 DEF BInv
<1>10. CASE CierraDoc /\ UNCHANGED llegadas
  BY <1>1, <1>2, <1>10, AcabaTipo DEF CierraDoc, varsRss, TipoFeed
<1>11. CASE Trunca /\ UNCHANGED llegadas
  <2>1. truncados + 1 \in Nat
    BY <1>1 DEF TipoFeed
  <2>2. QED
    BY <1>1, <1>2, <1>11, <2>1, AcabaTipo DEF Trunca, varsRss, TipoFeed
<1>12. CASE ErrorXml /\ UNCHANGED llegadas
  <2>1. (IF pila = 0 THEN 0 ELSE pila - 1) \in Nat /\ (pila = 0) \in BOOLEAN
    BY <1>1 DEF TipoFeed
  <2>2. QED
    BY <1>1, <1>2, <1>12, <2>1, AcabaTipo DEF ErrorXml, TipoFeed
<1>13. QED
  BY <1>2, <1>5, <1>6, <1>7, <1>8, <1>9, <1>10, <1>11, <1>12 DEF NextFeed, SigueDoc

\* And so does every handler of the IRC session.
LEMMA BIrcSigue == BInv /\ PasoIrc => BInv'
<1> SUFFICES ASSUME BInv, PasoIrc PROVE BInv'
  OBVIOUS
<1>1. TipoFeed /\ TipoIrc /\ TipoAnuncios /\ llegadas \in Nat /\ Marcha
  BY DEF BInv
<1>2. UNCHANGED varsFeed /\ NextIrc
  BY DEF PasoIrc
<1>3. TipoFeed' /\ Marcha'
  BY <1>1, <1>2 DEF TipoFeed, Marcha, varsFeed, varsXml, varsRss
<1>4. ASSUME \/ (Conecta \/ FinDeMotd \/ Cae) /\ UNCHANGED llegadas
             \/ \E c \in Canales : Expulsa(c) \/ Vuelve(c)
      PROVE  BInv'
  <2>1. UNCHANGED varsAnuncios /\ llegadas' \in {llegadas, llegadas + 1}
    BY <1>4 DEF Conecta, FinDeMotd, Cae, Expulsa, Vuelve, Entra, Reentra, Llega
  <2>2. TipoIrc'
    BY <1>1, <1>4 DEF Conecta, FinDeMotd, Cae, Expulsa, Vuelve, Entra, Reentra, TipoIrc
  <2>3. TipoAnuncios' /\ llegadas' \in Nat
    BY <1>1, <2>1, CallaTipo
  <2>4. QED
    BY <1>3, <2>2, <2>3 DEF BInv
<1>5. ASSUME NEW l \in Lineas, NEW d \in Canales \cup {Privado}, Mensaje(l, d)
      PROVE  BInv'
  <2>1. llegadas' \in Nat /\ TipoIrc'
    BY <1>1, <1>5 DEF Mensaje, Llega, TipoIrc
  <2>2. TipoAnuncios'
    <3>1. CASE Anunciada(l, d)
      <4> DEFINE a == Anuncio("irc", l.u, SeccionDe[l.u], TituloDe[l.u], EnlaceDe[l.u])
      <4>1. l.u \in Subidas /\ MiraTitulo(a)
        BY <1>5, <3>1, MensajeAnuncia
      <4>2. a.fuente \in {"feed", "irc"} /\ a.u \in Subidas /\ a.titulo \in Seq(STRING)
        BY <4>1, UploadsAssumption DEF Anuncio
      <4> HIDE DEF a
      <4>3. QED
        BY <1>1, <4>1, <4>2, MiraTituloTipo
    <3>2. CASE ~Anunciada(l, d)
      BY <1>1, <1>5, <3>2, MensajeAnuncia, CallaTipo
    <3>3. QED
      BY <3>1, <3>2
  <2>3. QED
    BY <1>3, <2>1, <2>2 DEF BInv
<1>6. QED
  BY <1>2, <1>4, <1>5 DEF NextIrc

\* So it always holds.
LEMMA BSiempre == Spec => []BInv
<1>1. BInv /\ UNCHANGED vars => BInv'
  BY DEF BInv, TipoFeed, TipoIrc, TipoAnuncios, Marcha, vars, varsFeed, varsXml, varsRss,
         varsIrc, varsAnuncios
<1>2. BInv /\ [Next]_vars => BInv'
  BY <1>1, BFeedSigue, BIrcSigue DEF Next
<1>3. QED
  BY <1>2, BInicial, PTL DEF Spec

\* Every variable of the feeds, of the IRC session and of miraTitulo has its
\* type in every reachable state.
THEOREM AnunciosTypeCorrect == Spec => []TypeOK
<1>1. BInv => TypeOK
  BY TypeOKPartes DEF BInv
<1>2. QED
  BY <1>1, BSiempre, PTL

-----------------------------------------------------------------------------
(* What is kept of a document, and of the announcements.                   *)

\* The tokens of a title are those of its item.
LEMMA PrefijoDeTitulo ==
  ASSUME NEW u \in Subidas, NEW t \in TitulosDe(u), t # <<>>, t[1] \in DOMAIN Prefijo
  PROVE  Prefijo[t[1]] = SeccionDe[u]
<1>1. CASE t = TituloDe[u]
  <2>1. t \in Seq(STRING)
    BY TitulosTipo
  <2>2. 1 \in DOMAIN t
    BY <2>1, EmptySeq, LenProperties
  <2>3. t[1] \notin DOMAIN Prefijo
    BY <1>1, <2>2, FeedParserAssumption
  <2>4. QED
    BY <2>3
<1>2. ASSUME NEW p \in DOMAIN Prefijo, Prefijo[p] = SeccionDe[u],
             t = <<p>> \o TituloDe[u] \o <<Pares>>
      PROVE  Prefijo[t[1]] = SeccionDe[u]
  <2>1. t[1] = p
    BY <1>2, TituloConTokens
  <2>2. QED
    BY <1>2, <2>1
<1>3. QED
  BY <1>1, <1>2 DEF TitulosDe

\* Two texts with their characters in P, put together.
LEMMA ConjuntoDeDos ==
  ASSUME NEW S, NEW a \in Seq(S), NEW b \in Seq(S), NEW P,
         ToSet(a) \subseteq P, ToSet(b) \subseteq P
  PROVE  ToSet(a \o b) \subseteq P
<1>1. /\ \A k \in 1 .. Len(a) : a[k] \in P
      /\ \A k \in 1 .. Len(b) : b[k] \in P
      /\ Len(a) \in Nat /\ Len(b) \in Nat
  BY LenProperties DEF ToSet
<1>2. /\ a \o b \in Seq(S) /\ Len(a \o b) = Len(a) + Len(b)
      /\ \A k \in 1 .. Len(a) + Len(b) :
           (a \o b)[k] = IF k <= Len(a) THEN a[k] ELSE b[k - Len(a)]
  BY ConcatProperties
<1> DEFINE t == a \o b
<1> HIDE DEF t
<1>3. ASSUME NEW k \in 1 .. Len(a) + Len(b) PROVE t[k] \in P
  <2>1. CASE k <= Len(a)
    BY <1>1, <1>2, <2>1 DEF t
  <2>2. CASE ~ k <= Len(a)
    <3>1. k - Len(a) \in 1 .. Len(b)
      BY <1>1, <2>2
    <3>2. QED
      BY <1>1, <1>2, <2>2, <3>1 DEF t
  <2>3. QED
    BY <2>1, <2>2
<1>4. DOMAIN t = 1 .. Len(a) + Len(b)
  BY <1>2, LenProperties DEF t
<1>5. ToSet(t) \subseteq P
  BY <1>3, <1>4 DEF ToSet
<1>6. QED
  BY <1>5 DEF t

\* A piece of a text has no other characters.
LEMMA ConjuntoDeTrozo ==
  ASSUME NEW S, NEW s \in Seq(S), NEW i \in 1 .. Len(s) + 1, NEW j \in 0 .. Len(s)
  PROVE  ToSet(SubSeq(s, i, j)) \subseteq ToSet(s)
<1> DEFINE t == SubSeq(s, i, j)
<1>1. /\ t \in Seq(S) /\ Len(t) = IF i <= j THEN j - i + 1 ELSE 0
      /\ \A k \in 1 .. j - i + 1 : t[k] = s[i + k - 1]
  <2>1. \A k \in i .. j : s[k] \in S
    BY ElementOfSeq
  <2>2. QED
    BY <2>1, SubSeqProperties
<1> HIDE DEF t
<1>2. DOMAIN t = 1 .. Len(t) /\ DOMAIN s = 1 .. Len(s) /\ Len(s) \in Nat
  BY <1>1, LenProperties
<1>3. ASSUME NEW k \in 1 .. Len(t) PROVE t[k] \in ToSet(s)
  <2>1. k \in 1 .. j - i + 1 /\ i + k - 1 \in 1 .. Len(s)
    BY <1>1, <1>2
  <2>2. QED
    BY <1>1, <1>2, <2>1 DEF ToSet
<1>4. ToSet(t) \subseteq ToSet(s)
  BY <1>2, <1>3 DEF ToSet
<1>5. QED
  BY <1>4 DEF t

\* The elements of a list are different; c is one of them.
Distintos(f) == \A j, k \in DOMAIN f : f[j] = f[k] => j = k
Esta(f, c) == \E k \in DOMAIN f : f[k] = c

\* When the first of different elements goes, it alone goes.
LEMMA RestoDistinto ==
  ASSUME NEW S, NEW f \in Seq(S), f # <<>>, Distintos(f)
  PROVE  /\ Distintos(Tail(f))
         /\ \A c : Esta(Tail(f), c) <=> Esta(f, c) /\ c # Head(f)
         /\ Esta(f, Head(f))
<1>1. /\ Tail(f) \in Seq(S) /\ Len(Tail(f)) = Len(f) - 1
      /\ \A k \in 1 .. Len(Tail(f)) : Tail(f)[k] = f[k + 1]
  BY HeadTailProperties
<1>2. /\ DOMAIN f = 1 .. Len(f) /\ DOMAIN Tail(f) = 1 .. Len(Tail(f))
      /\ Len(f) \in Nat \ {0} /\ Head(f) = f[1]
  BY <1>1, LenProperties, EmptySeq
<1> DEFINE t == Tail(f)
           n == Len(f)
<1> HIDE DEF t, n
<1>3. /\ DOMAIN f = 1 .. n /\ DOMAIN t = 1 .. n - 1 /\ n \in Nat \ {0}
      /\ \A k \in 1 .. n - 1 : t[k] = f[k + 1] /\ k + 1 \in 1 .. n
  BY <1>1, <1>2 DEF t, n
<1>4. Distintos(t)
  <2>1. ASSUME NEW j \in 1 .. n - 1, NEW k \in 1 .. n - 1, t[j] = t[k] PROVE j = k
    <3>1. j + 1 \in DOMAIN f /\ k + 1 \in DOMAIN f /\ f[j + 1] = f[k + 1]
      BY <1>3, <2>1
    <3>2. j + 1 = k + 1
      BY <3>1 DEF Distintos
    <3>3. QED
      BY <1>3, <3>2
  <2>2. QED
    BY <1>3, <2>1 DEF Distintos
<1>5. ASSUME NEW c PROVE Esta(t, c) <=> Esta(f, c) /\ c # f[1]
  <2>1. ASSUME NEW k \in 1 .. n - 1, t[k] = c PROVE Esta(f, c) /\ c # f[1]
    <3>1. k + 1 \in DOMAIN f /\ 1 \in DOMAIN f /\ k + 1 # 1 /\ f[k + 1] = c
      BY <1>3, <2>1
    <3>2. QED
      BY <3>1 DEF Distintos, Esta
  <2>2. ASSUME NEW k \in 1 .. n, f[k] = c, c # f[1] PROVE Esta(t, c)
    <3>1. k - 1 \in 1 .. n - 1 /\ (k - 1) + 1 = k
      BY <1>3, <2>2
    <3>2. t[k - 1] = c
      BY <1>3, <2>2, <3>1
    <3>3. QED
      BY <1>3, <3>1, <3>2 DEF Esta
  <2>3. QED
    BY <1>3, <2>1, <2>2 DEF Esta
<1>6. Esta(f, f[1])
  BY <1>3 DEF Esta
<1>7. QED
  BY <1>2, <1>4, <1>5, <1>6 DEF t

\* The recent titles are those of the last uploads taken.
Ventana ==
  LET n == Len(tomados)  m == Len(recientes) IN
  /\ m = IF n <= MaxRecientes THEN n ELSE MaxRecientes + 1
  /\ \A i \in 1 .. m : recientes[i] = TituloDe[tomados[n - m + i]]

\* Between two times that an upload is taken, more than MaxRecientes are.
Separados ==
  \A j, k \in DOMAIN tomados :
    j < k /\ tomados[j] = tomados[k] => k - j > MaxRecientes + 1

\* An upload that is taken was not taken while its title was recent: the
\* window of recent titles moves on with the uploads taken.
LEMMA TomaOtra ==
  ASSUME TipoAnuncios, Ventana, Separados, NEW a, MiraTitulo(a),
         a.u \in Subidas, a.titulo = TituloDe[a.u]
  PROVE  Ventana' /\ Separados'
<1> DEFINE n == Len(tomados)
           m == Len(recientes)
           r == IF m > MaxRecientes THEN Tail(recientes) ELSE recientes
           x == a.titulo
<1>1. /\ tomados \in Seq(Subidas) /\ recientes \in Seq(Seq(STRING))
      /\ n \in Nat /\ m \in Nat /\ DOMAIN tomados = 1 .. n /\ DOMAIN recientes = 1 .. m
      /\ MaxRecientes \in Nat /\ x \in Seq(STRING)
  BY LenProperties, UploadsAssumption DEF TipoAnuncios
<1>2. /\ m = IF n <= MaxRecientes THEN n ELSE MaxRecientes + 1
      /\ \A i \in 1 .. m : recientes[i] = TituloDe[tomados[n - m + i]]
  BY DEF Ventana
<1>3. CASE UNCHANGED <<recientes, tomados>>
  BY <1>3 DEF Ventana, Separados
<1>4. CASE /\ ~Contains(recientes, x)
           /\ recientes' = Append(r, x) /\ tomados' = Append(tomados, a.u)
  <2> DEFINE d == IF m > MaxRecientes THEN 1 ELSE 0
  <2>1. /\ r \in Seq(Seq(STRING)) /\ Len(r) = m - d
        /\ \A i \in 1 .. m - d : r[i] = recientes[i + d]
    <3>1. CASE m > MaxRecientes
      <4>1. recientes # <<>>
        BY <1>1, <3>1
      <4>2. QED
        BY <1>1, <3>1, <4>1, HeadTailProperties
    <3>2. CASE ~ m > MaxRecientes
      BY <1>1, <3>2
    <3>3. QED
      BY <3>1, <3>2
  <2> HIDE DEF r, n, m, x
  <2>2. /\ Len(recientes') = m - d + 1 /\ recientes'[m - d + 1] = x
        /\ \A i \in 1 .. m - d : recientes'[i] = recientes[i + d]
    <3> DEFINE S == Seq(STRING)
    <3> HIDE DEF S
    <3>1. r \in Seq(S) /\ x \in S
      BY <1>1, <2>1 DEF S
    <3>2. /\ Len(Append(r, x)) = Len(r) + 1 /\ Append(r, x)[Len(r) + 1] = x
          /\ \A i \in 1 .. Len(r) : Append(r, x)[i] = r[i]
      BY <3>1, AppendProperties
    <3>3. QED
      BY <1>4, <2>1, <3>2
  <2>3. /\ tomados' \in Seq(Subidas) /\ Len(tomados') = n + 1 /\ tomados'[n + 1] = a.u
        /\ \A i \in 1 .. n : tomados'[i] = tomados[i]
    BY <1>1, <1>4, AppendProperties DEF n
  <2>4. d \in {0, 1} /\ m - d \in Nat /\ m <= n /\ (d = 1 <=> m > MaxRecientes)
    BY <1>1, <1>2
  <2>5. Ventana'
    <3>1. Len(recientes') = IF n + 1 <= MaxRecientes THEN n + 1 ELSE MaxRecientes + 1
      BY <1>1, <1>2, <2>2, <2>4
    <3>2. ASSUME NEW i \in 1 .. m - d + 1
          PROVE  recientes'[i] = TituloDe[tomados'[(n + 1) - (m - d + 1) + i]]
      <4>1. CASE i = m - d + 1
        <5>1. (n + 1) - (m - d + 1) + i = n + 1
          BY <1>1, <2>4, <4>1
        <5>2. recientes'[i] = TituloDe[a.u]
          BY <2>2, <4>1 DEF x
        <5>3. QED
          BY <2>3, <5>1, <5>2
      <4>2. CASE i # m - d + 1
        <5>1. /\ i \in 1 .. m - d /\ i + d \in 1 .. m
              /\ (n + 1) - (m - d + 1) + i = n - m + (i + d)
              /\ n - m + (i + d) \in 1 .. n
          BY <1>1, <2>4, <4>2
        <5>2. recientes'[i] = TituloDe[tomados[n - m + (i + d)]]
          BY <1>2, <2>2, <5>1
        <5>3. QED
          BY <2>3, <5>1, <5>2
      <4>3. QED
        BY <4>1, <4>2
    <3>3. QED
      BY <2>2, <2>3, <3>1, <3>2 DEF Ventana
  <2>6. ASSUME NEW j \in 1 .. n, tomados[j] = a.u PROVE (n + 1) - j > MaxRecientes + 1
    <3>1. j <= n - m
      <4> SUFFICES ASSUME j > n - m PROVE FALSE
        BY <1>1
      <4>1. j - (n - m) \in 1 .. m /\ n - m + (j - (n - m)) = j
        BY <1>1, <2>4
      <4>2. recientes[j - (n - m)] = x
        BY <1>2, <2>6, <4>1 DEF x
      <4>3. QED
        BY <1>4, <4>1, <4>2 DEF Contains, m
    <3>2. QED
      BY <1>1, <1>2, <2>4, <3>1
  <2>7. ASSUME NEW j \in 1 .. n + 1, NEW k \in 1 .. n + 1, j < k, tomados'[j] = tomados'[k]
        PROVE  k - j > MaxRecientes + 1
    <3>1. j \in 1 .. n /\ tomados'[j] = tomados[j]
      BY <1>1, <2>3, <2>7
    <3>2. CASE k = n + 1
      BY <2>3, <2>6, <2>7, <3>1, <3>2
    <3>3. CASE k # n + 1
      <4>1. k \in 1 .. n /\ tomados'[k] = tomados[k]
        BY <1>1, <2>3, <3>3
      <4>2. QED
        BY <1>1, <2>7, <3>1, <4>1 DEF Separados
    <3>4. QED
      BY <3>2, <3>3
  <2>8. DOMAIN tomados' = 1 .. n + 1
    BY <2>3, LenProperties
  <2>9. Separados'
    BY <2>7, <2>8 DEF Separados
  <2>10. QED
    BY <2>5, <2>9
<1>5. QED
  BY <1>3, <1>4 DEF MiraTitulo

\* Between two items nothing is kept but the section.
EntreItems ==
  item = Nada => /\ pila = 0
                 /\ titleString = <<>> /\ linkString = <<>> /\ description = <<>>

\* The fields still to come are different.
Campo == item # Nada => pila = 1 /\ Distintos(faltan)

\* In an item, a string has what has been read of its field.
Titulo ==
  item # Nada =>
    IF Esta(faltan, "title") THEN titleString = <<>> /\ currentTag # "title"
    ELSE IF currentTag = "title" THEN titleString \o resta \in TitulosDe(item)
    ELSE titleString \in TitulosDe(item)

\* The description is that of the item, or is still to come.
Descripcion ==
  item # Nada =>
    /\ description \in {<<>>, SeccionDe[item]}
    /\ Esta(faltan, "description") => description = <<>> /\ currentTag # "description"
    /\ currentTag = "description" /\ resta # <<>>
       => description = <<>> /\ resta = SeccionDe[item]

\* The link has nothing but what the item has in its own.
Enlace ==
  item # Nada =>
    /\ ToSet(linkString) \subseteq ToSet(EnlaceDe[item])
    /\ currentTag = "link" => ToSet(resta) \subseteq ToSet(EnlaceDe[item])

\* The section of an item: whole from its title, or the first word of its
\* description.
SeccionesDe(u) == {SeccionDe[u], PrimeraPalabra(SeccionDe[u])}

\* The section that the next item may get is that of one before it.
SeccionLlevada == value # <<>> => \E u \in vistos : value \in SeccionesDe(u)

\* All that is kept of a document from one token to the next.
Documento == EntreItems /\ Campo /\ Titulo /\ Descripcion /\ Enlace /\ SeccionLlevada

\* A new item begins with empty strings.
LEMMA DocumentoAbreItem ==
  ASSUME BInv, Documento, NEW u \in Subidas, AbreItem(u)
  PROVE  Documento'
<1>1. /\ item = Nada /\ resta = <<>> /\ item' = u /\ faltan' \in Formas
      /\ linkString' = <<>> /\ pila' = pila + 1 /\ currentTag' = "item"
      /\ UNCHANGED <<resta, vistos, value, titleString, description>>
  BY DEF AbreItem
<1>2. pila = 0 /\ titleString = <<>> /\ description = <<>>
  BY <1>1 DEF Documento, EntreItems
<1>3. u # Nada
  BY FeedParserAssumption
<1>4. Distintos(faltan') /\ Esta(faltan', "title")
  BY <1>1, FeedParserAssumption DEF Distintos, Esta
<1>5. EntreItems' /\ Campo'
  BY <1>1, <1>2, <1>3, <1>4 DEF EntreItems, Campo
<1>6. Titulo' /\ Descripcion'
  BY <1>1, <1>2, <1>4 DEF Titulo, Descripcion
<1>7. Enlace'
  BY <1>1 DEF Enlace, ToSet
<1>8. SeccionLlevada'
  BY <1>1 DEF Documento, SeccionLlevada
<1>9. QED
  BY <1>5, <1>6, <1>7, <1>8 DEF Documento

\* A field that begins has not been read.
LEMMA DocumentoAbreCampo ==
  ASSUME BInv, Documento, NEW c \in Campos, AbreCampo(c)
  PROVE  Documento'
<1>1. /\ resta = <<>> /\ faltan # <<>> /\ c = Head(faltan) /\ faltan' = Tail(faltan)
      /\ resta' \in Textos(c) /\ currentTag' = c
      /\ linkString' = IF c = "enclosure" THEN EnlaceDe[item] ELSE linkString
      /\ UNCHANGED <<item, vistos, value, pila, titleString, description>>
  BY DEF AbreCampo
<1>2. TipoFeed /\ Marcha
  BY DEF BInv
<1>3. SeccionLlevada'
  BY <1>1 DEF Documento, SeccionLlevada
<1>4. CASE item = Nada
  <2>1. c = "title"
    <3>1. faltan = <<"title">>
      BY <1>1, <1>2, <1>4 DEF Marcha
    <3>2. Head(<<"title">>) = "title"
      OBVIOUS
    <3>3. QED
      BY <1>1, <3>1, <3>2
  <2>2. EntreItems'
    BY <1>1, <1>4, <2>1 DEF Documento, EntreItems
  <2>3. QED
    BY <1>1, <1>3, <1>4, <2>2 DEF Documento, Campo, Titulo, Descripcion, Enlace
<1>5. CASE item # Nada
  <2>1. item \in Subidas /\ faltan \in Seq(Campos) /\ Distintos(faltan) /\ pila = 1
    BY <1>2, <1>5 DEF TipoFeed, Documento, Campo
  <2>2. /\ Distintos(faltan') /\ Esta(faltan, c)
        /\ \A d : Esta(faltan', d) <=> Esta(faltan, d) /\ d # c
    BY <1>1, <2>1, RestoDistinto
  <2>3. EntreItems' /\ Campo'
    BY <1>1, <1>5, <2>1, <2>2 DEF EntreItems, Campo
  <2>4. Titulo'
    <3>1. CASE c = "title"
      <4>1. titleString = <<>> /\ ~Esta(faltan', "title")
        BY <1>5, <2>2, <3>1 DEF Documento, Titulo
      <4>2. resta' \in TitulosDe(item)
        BY <1>1, <1>5, <3>1 DEF Textos, TitulosDe
      <4>3. resta' \in Seq(STRING)
        BY <2>1, <4>2, TitulosTipo
      <4>4. <<>> \o resta' = resta'
        BY <4>3, ConcatEmptySeq
      <4>5. titleString' \o resta' = resta' /\ item' = item /\ currentTag' = "title"
        BY <1>1, <3>1, <4>1, <4>4
      <4>6. QED
        BY <4>1, <4>2, <4>5 DEF Titulo
    <3>2. CASE c # "title"
      <4>1. Esta(faltan', "title") <=> Esta(faltan, "title")
        BY <2>2, <3>2
      <4>2. titleString \o resta = titleString
        <5>1. titleString \in Seq(STRING)
          BY <1>2 DEF TipoFeed
        <5>2. QED
          BY <1>1, <5>1, ConcatEmptySeq
      <4>3. IF Esta(faltan, "title") THEN titleString = <<>>
            ELSE titleString \in TitulosDe(item)
        BY <1>5, <4>2 DEF Documento, Titulo
      <4>4. QED
        BY <1>1, <3>2, <4>1, <4>3 DEF Titulo
    <3>3. QED
      BY <3>1, <3>2
  <2>5. Descripcion'
    <3>1. CASE c = "description"
      <4>1. description = <<>> /\ ~Esta(faltan', "description")
        BY <1>5, <2>2, <3>1 DEF Documento, Descripcion
      <4>2. resta' = SeccionDe[item]
        BY <1>1, <1>5, <3>1 DEF Textos
      <4>3. QED
        BY <1>1, <4>1, <4>2 DEF Descripcion
    <3>2. CASE c # "description"
      <4>1. Esta(faltan', "description") <=> Esta(faltan, "description")
        BY <2>2, <3>2
      <4>2. QED
        BY <1>1, <1>5, <3>2, <4>1 DEF Documento, Descripcion
    <3>3. QED
      BY <3>1, <3>2
  <2>6. Enlace'
    <3>1. ToSet(linkString') \subseteq ToSet(EnlaceDe[item])
      BY <1>1, <1>5 DEF Documento, Enlace
    <3>2. CASE c = "link"
      <4>1. resta' = EnlaceDe[item]
        BY <1>1, <1>5, <3>2 DEF Textos
      <4>2. QED
        BY <1>1, <3>1, <4>1 DEF Enlace
    <3>3. CASE c # "link"
      BY <1>1, <3>1, <3>3 DEF Enlace
    <3>4. QED
      BY <3>2, <3>3
  <2>7. QED
    BY <1>3, <2>3, <2>4, <2>5, <2>6 DEF Documento
<1>6. QED
  BY <1>4, <1>5

\* A piece of text goes to the string of its field, after what came before.
LEMMA DocumentoTexto ==
  ASSUME BInv, Documento, Texto
  PROVE  Documento'
<1>1. PICK k \in {Len(resta)} \cup (IF currentTag = "title" THEN {1} ELSE {}) :
        Anota(SubSeq(resta, 1, k)) /\ resta' = SubSeq(resta, k + 1, Len(resta))
  BY DEF Texto
<1>2. /\ resta # <<>>
      /\ UNCHANGED <<item, faltan, vistos, value, pila, currentTag>>
  BY DEF Texto
<1>3. TipoFeed
  BY DEF BInv
<1>4. resta \in Seq(STRING) /\ Len(resta) \in Nat \ {0} /\ k \in 1 .. Len(resta)
  <2>1. resta \in Seq(STRING)
    BY <1>3 DEF TipoFeed
  <2>2. Len(resta) \in Nat \ {0}
    BY <1>2, <2>1, EmptySeq
  <2>3. k = Len(resta) \/ k = 1
    BY <1>1
  <2>4. QED
    BY <2>1, <2>2, <2>3
<1> DEFINE t == SubSeq(resta, 1, k)
<1>5. /\ t \in Seq(STRING) /\ resta' \in Seq(STRING) /\ t \o resta' = resta
      /\ ToSet(t) \subseteq ToSet(resta) /\ ToSet(resta') \subseteq ToSet(resta)
  <2>1. /\ \A i \in 1 .. k : resta[i] \in STRING
        /\ \A i \in k + 1 .. Len(resta) : resta[i] \in STRING
    BY <1>4, ElementOfSeq
  <2>2. t \in Seq(STRING)
    BY <1>4, <2>1, SubSeqProperties
  <2>3. SubSeq(resta, k + 1, Len(resta)) \in Seq(STRING)
    BY <1>4, <2>1, SubSeqProperties
  <2>4. t \o SubSeq(resta, k + 1, Len(resta)) = SubSeq(resta, 1, Len(resta))
    <3>1. 1 \in 1 .. Len(resta) + 1 /\ k \in 1 - 1 .. Len(resta) /\ Len(resta) \in k .. Len(resta)
      BY <1>4
    <3>2. QED
      BY <1>4, <3>1, ConcatAdjacentSubSeq
  <2>5. SubSeq(resta, 1, Len(resta)) = resta
    BY <1>4, SubSeqFull
  <2>6. ToSet(t) \subseteq ToSet(resta)
    <3>1. 1 \in 1 .. Len(resta) + 1 /\ k \in 0 .. Len(resta)
      BY <1>4
    <3>2. QED
      BY <1>4, <3>1, ConjuntoDeTrozo
  <2>7. ToSet(SubSeq(resta, k + 1, Len(resta))) \subseteq ToSet(resta)
    <3>1. k + 1 \in 1 .. Len(resta) + 1 /\ Len(resta) \in 0 .. Len(resta)
      BY <1>4
    <3>2. QED
      BY <1>4, <3>1, ConjuntoDeTrozo
  <2>8. QED
    BY <1>1, <2>2, <2>3, <2>4, <2>5, <2>6, <2>7
<1>6. currentTag # "title" => t = resta /\ resta' = <<>>
  <2>1. currentTag # "title" => k = Len(resta)
    BY <1>1
  <2>2. SubSeq(resta, 1, Len(resta)) = resta
    BY <1>4, SubSeqFull
  <2>3. SubSeq(resta, Len(resta) + 1, Len(resta)) = <<>>
    BY <1>4, SubSeqEmpty
  <2>4. QED
    BY <1>1, <2>1, <2>2, <2>3
<1>7. Anota(t)
  BY <1>1
<1> HIDE DEF t
<1>8. SeccionLlevada'
  BY <1>2 DEF Documento, SeccionLlevada
<1>9. CASE item = Nada
  <2>1. pila = 0
    BY <1>9 DEF Documento, EntreItems
  <2>2. UNCHANGED <<titleString, linkString, description>>
    BY <1>7, <2>1 DEF Anota
  <2>3. EntreItems'
    BY <1>2, <2>2 DEF Documento, EntreItems
  <2>4. QED
    BY <1>2, <1>8, <1>9, <2>3 DEF Documento, Campo, Titulo, Descripcion, Enlace
<1>10. CASE item # Nada
  <2>1. pila > 0 /\ item \in Subidas
    BY <1>3, <1>10 DEF Documento, Campo, TipoFeed
  <2>2. /\ titleString' = IF currentTag = "title" THEN titleString \o t ELSE titleString
        /\ linkString' = IF currentTag = "link" THEN linkString \o t ELSE linkString
        /\ description' = IF currentTag = "description" THEN description \o t ELSE description
    BY <1>7, <2>1 DEF Anota
  <2>3. EntreItems' /\ Campo'
    BY <1>2, <1>10 DEF Documento, EntreItems, Campo
  <2>4. Titulo'
    <3>1. CASE currentTag = "title"
      <4>1. ~Esta(faltan, "title") /\ titleString \o resta \in TitulosDe(item)
        BY <1>10, <3>1 DEF Documento, Titulo
      <4>2. (titleString \o t) \o resta' = titleString \o resta
        <5>1. titleString \in Seq(STRING)
          BY <1>3 DEF TipoFeed
        <5>2. (titleString \o t) \o resta' = titleString \o (t \o resta')
          <6>1. \A x, y, z \in Seq(STRING) : (x \o y) \o z = x \o (y \o z)
            BY ConcatAssociative
          <6>2. QED
            BY <1>5, <5>1, <6>1, Zenon
        <5>3. QED
          BY <1>5, <5>2
      <4>3. titleString' \o resta' \in TitulosDe(item)
        BY <2>2, <3>1, <4>1, <4>2
      <4>4. QED
        BY <1>2, <3>1, <4>1, <4>3 DEF Titulo
    <3>2. CASE currentTag # "title"
      BY <1>2, <1>10, <2>2, <3>2 DEF Documento, Titulo
    <3>3. QED
      BY <3>1, <3>2
  <2>5. Descripcion'
    <3>1. CASE currentTag = "description"
      <4>1. ~Esta(faltan, "description") /\ description = <<>> /\ resta = SeccionDe[item]
        BY <1>2, <1>10, <3>1 DEF Documento, Descripcion
      <4>2. t = SeccionDe[item] /\ resta' = <<>>
        BY <1>6, <3>1, <4>1
      <4>3. <<>> \o t = t
        BY <1>5, ConcatEmptySeq
      <4>4. description' = SeccionDe[item]
        BY <2>2, <3>1, <4>1, <4>2, <4>3
      <4>5. QED
        BY <1>2, <4>1, <4>2, <4>4 DEF Descripcion
    <3>2. CASE currentTag # "description"
      BY <1>2, <1>10, <2>2, <3>2 DEF Documento, Descripcion
    <3>3. QED
      BY <3>1, <3>2
  <2>6. Enlace'
    <3>1. ToSet(linkString) \subseteq ToSet(EnlaceDe[item])
      BY <1>10 DEF Documento, Enlace
    <3>2. CASE currentTag = "link"
      <4>1. ToSet(resta) \subseteq ToSet(EnlaceDe[item])
        BY <1>10, <3>2 DEF Documento, Enlace
      <4>2. /\ ToSet(t) \subseteq ToSet(EnlaceDe[item])
            /\ ToSet(resta') \subseteq ToSet(EnlaceDe[item])
        BY <1>5, <4>1
      <4>3. linkString \in Seq(STRING)
        BY <1>3 DEF TipoFeed
      <4>4. ToSet(linkString \o t) \subseteq ToSet(EnlaceDe[item])
        BY <1>5, <3>1, <4>2, <4>3, ConjuntoDeDos
      <4>5. linkString' = linkString \o t
        BY <2>2, <3>2
      <4>6. QED
        BY <1>2, <4>2, <4>4, <4>5 DEF Enlace
    <3>3. CASE currentTag # "link"
      BY <1>2, <2>2, <3>1, <3>3 DEF Enlace
    <3>4. QED
      BY <3>2, <3>3
  <2>7. QED
    BY <1>8, <2>3, <2>4, <2>5, <2>6 DEF Documento
<1>11. QED
  BY <1>9, <1>10

\* A whole item is announced, with its title, its link and its section or one
\* before it.
LEMMA DocumentoCierraItem ==
  ASSUME BInv, Documento, CierraItem
  PROVE  /\ Documento' /\ item \in Subidas /\ vistos' = vistos \cup {item}
         /\ Limpia(titleString) = TituloDe[item]
         /\ ToSet(linkString) \subseteq ToSet(EnlaceDe[item])
         /\ Seccion # <<>> => \E u \in vistos' : Seccion \in SeccionesDe(u)
<1>1. /\ item # Nada /\ resta = <<>> /\ faltan = <<>> /\ value' = Seccion
      /\ titleString' = <<>> /\ linkString' = <<>> /\ description' = <<>>
      /\ pila' = pila - 1 /\ item' = Nada /\ vistos' = vistos \cup {item}
  BY DEF CierraItem, Olvida
<1>2. item \in Subidas /\ titleString \in Seq(STRING) /\ pila = 1
  BY <1>1 DEF BInv, TipoFeed, Documento, Campo
<1>3. titleString \in TitulosDe(item)
  <2>1. ~Esta(faltan, "title")
    BY <1>1 DEF Esta
  <2>2. titleString \o resta = titleString
    BY <1>1, <1>2, ConcatEmptySeq
  <2>3. QED
    BY <1>1, <2>1, <2>2 DEF Documento, Titulo
<1>4. Limpia(titleString) = TituloDe[item]
  BY <1>2, <1>3, LimpiaTitulo
<1>5. ToSet(linkString) \subseteq ToSet(EnlaceDe[item])
  BY <1>1 DEF Documento, Enlace
<1>6. Seccion # <<>> => \E u \in vistos' : Seccion \in SeccionesDe(u)
  <2>1. CASE titleString # <<>> /\ titleString[1] \in DOMAIN Prefijo
    <3>1. Seccion = SeccionDe[item]
      BY <1>2, <1>3, <2>1, PrefijoDeTitulo DEF Seccion
    <3>2. QED
      BY <1>1, <3>1 DEF SeccionesDe
  <2>2. CASE ~(titleString # <<>> /\ titleString[1] \in DOMAIN Prefijo)
    <3> DEFINE palabra == PrimeraPalabra(description)
    <3>1. Seccion = IF palabra # <<>> THEN palabra ELSE value
      BY <2>2 DEF Seccion
    <3>2. palabra # <<>> => palabra \in SeccionesDe(item)
      BY <1>1, SinPalabra DEF Documento, Descripcion, SeccionesDe
    <3> HIDE DEF palabra
    <3>3. value # <<>> => \E u \in vistos : value \in SeccionesDe(u)
      BY DEF Documento, SeccionLlevada
    <3>4. QED
      BY <1>1, <3>1, <3>2, <3>3
  <2>3. QED
    BY <2>1, <2>2
<1>7. Documento'
  <2>1. EntreItems'
    BY <1>1, <1>2 DEF EntreItems
  <2>2. SeccionLlevada'
    BY <1>1, <1>6 DEF SeccionLlevada
  <2>3. QED
    BY <1>1, <2>1, <2>2 DEF Documento, Campo, Titulo, Descripcion, Enlace
<1>8. QED
  BY <1>1, <1>2, <1>4, <1>5, <1>6, <1>7

\* What the last announcement of a feed has is of its item or of its document.
Propio ==
  DelFeed => /\ ultimo.titulo = TituloDe[ultimo.u]
             /\ ToSet(ultimo.enlace) \subseteq ToSet(EnlaceDe[ultimo.u])

\* Its section is that of the item or of one before it.
DeSuDoc ==
  DelFeed /\ vistos # {} /\ ultimo.seccion # <<>>
  => \E u \in vistos : ultimo.seccion \in SeccionesDe(u)

\* What is true of the announcements.
Anunciado == Ventana /\ Separados /\ Propio /\ DeSuDoc

\* The inductive invariant: a document that was cut short may have left half an
\* item in the strings, any other leaves nothing.
CInv == BInv /\ (truncados = 0 => Documento /\ Anunciado)

\* Nothing is announced: the history of the announcements stays.
LEMMA AnunciadoCalla ==
  ASSUME Anunciado, \/ Calla
                    \/ UNCHANGED varsAnuncios /\ vistos' \in {vistos, {}}
  PROVE  Anunciado'
<1>1. Ventana' /\ Separados'
  BY DEF Anunciado, Ventana, Separados, Calla, varsAnuncios
<1>2. CASE Calla
  <2>1. ~DelFeed'
    BY <1>2 DEF Calla, SinAnuncio, DelFeed
  <2>2. QED
    BY <1>1, <2>1 DEF Anunciado, Propio, DeSuDoc
<1>3. CASE UNCHANGED varsAnuncios /\ vistos' \in {vistos, {}}
  <2>1. Propio' /\ DeSuDoc'
    BY <1>3 DEF Anunciado, Propio, DeSuDoc, DelFeed, varsAnuncios
  <2>2. QED
    BY <1>1, <2>1 DEF Anunciado
<1>4. QED
  BY <1>2, <1>3

\* It holds at the start.
LEMMA CInicial == Init => CInv
<1> SUFFICES ASSUME Init PROVE CInv
  OBVIOUS
<1>1. BInv
  BY BInicial
<1>2. /\ item = Nada /\ pila = 0 /\ value = <<>>
      /\ titleString = <<>> /\ linkString = <<>> /\ description = <<>>
      /\ recientes = <<>> /\ tomados = <<>> /\ ultimo = SinAnuncio
  BY DEF Init, InitFeed, InitAnuncios
<1>3. Documento
  BY <1>2 DEF Documento, EntreItems, Campo, Titulo, Descripcion, Enlace, SeccionLlevada
<1>4. Ventana /\ Separados
  BY <1>2, UploadsAssumption DEF Ventana, Separados
<1>5. Propio /\ DeSuDoc
  BY <1>2 DEF Propio, DeSuDoc, DelFeed, SinAnuncio
<1>6. QED
  BY <1>1, <1>3, <1>4, <1>5 DEF CInv, Anunciado

\* Every step of parseXml keeps it, but for a document that is cut short.
LEMMA CFeedSigue ==
  ASSUME BInv, Documento, Anunciado, PasoFeed, truncados' = truncados
  PROVE  Documento' /\ Anunciado'
<1>1. TipoFeed /\ TipoAnuncios /\ NextFeed
  BY DEF BInv, PasoFeed
<1>2. CASE AbreDoc
  <2>1. /\ value' = <<>> /\ vistos' = {} /\ item = Nada
        /\ UNCHANGED <<item, pila, titleString, linkString, description, varsAnuncios>>
    BY <1>2 DEF AbreDoc, BInv, Marcha
  <2>2. EntreItems' /\ SeccionLlevada'
    BY <2>1 DEF Documento, EntreItems, SeccionLlevada
  <2>3. Documento'
    BY <2>1, <2>2 DEF Documento, Campo, Titulo, Descripcion, Enlace
  <2>4. QED
    BY <2>1, <2>3, AnunciadoCalla
<1>3. ASSUME NEW u \in Subidas, AbreItem(u) PROVE Documento' /\ Anunciado'
  <2>1. Calla
    BY <1>3 DEF AbreItem
  <2>2. QED
    BY <1>3, <2>1, DocumentoAbreItem, AnunciadoCalla
<1>4. ASSUME NEW c \in Campos, AbreCampo(c) PROVE Documento' /\ Anunciado'
  <2>1. UNCHANGED varsAnuncios /\ vistos' = vistos
    BY <1>4 DEF AbreCampo
  <2>2. QED
    BY <1>4, <2>1, DocumentoAbreCampo, AnunciadoCalla
<1>5. CASE Texto
  <2>1. UNCHANGED varsAnuncios /\ vistos' = vistos
    BY <1>5 DEF Texto
  <2>2. QED
    BY <1>5, <2>1, DocumentoTexto, AnunciadoCalla
<1>6. CASE CierraItem
  <2> DEFINE a == Anuncio("feed", item, Seccion, Limpia(titleString), linkString)
  <2>1. /\ Documento' /\ item \in Subidas /\ vistos' = vistos \cup {item}
        /\ Limpia(titleString) = TituloDe[item]
        /\ ToSet(linkString) \subseteq ToSet(EnlaceDe[item])
        /\ Seccion # <<>> => \E u \in vistos' : Seccion \in SeccionesDe(u)
    BY <1>6, DocumentoCierraItem
  <2>2. /\ a.u = item /\ a.seccion = Seccion /\ a.enlace = linkString
        /\ a.titulo = Limpia(titleString)
    BY DEF Anuncio
  <2>3. MiraTitulo(a)
    BY <1>6 DEF CierraItem
  <2> HIDE DEF a
  <2>4. ultimo' = a
    BY <2>3 DEF MiraTitulo
  <2>5. Ventana' /\ Separados'
    <3>1. a.u \in Subidas /\ a.titulo = TituloDe[a.u]
      BY <2>1, <2>2
    <3>2. Ventana /\ Separados
      BY DEF Anunciado
    <3>3. QED
      BY <1>1, <2>3, <3>1, <3>2, TomaOtra
  <2>6. Propio' /\ DeSuDoc'
    BY <2>1, <2>2, <2>4 DEF Propio, DeSuDoc
  <2>7. QED
    BY <2>1, <2>5, <2>6 DEF Anunciado
<1>7. CASE CierraDoc
  <2>1. /\ item' = Nada /\ value' = <<>> /\ item = Nada /\ Calla
        /\ UNCHANGED <<pila, titleString, linkString, description>>
    BY <1>7 DEF CierraDoc, Acaba, varsRss
  <2>2. EntreItems' /\ SeccionLlevada'
    BY <2>1 DEF Documento, EntreItems, SeccionLlevada
  <2>3. Documento'
    BY <2>1, <2>2 DEF Documento, Campo, Titulo, Descripcion, Enlace
  <2>4. QED
    BY <2>1, <2>3, AnunciadoCalla
<1>8. CASE Trunca
  <2>1. truncados' = truncados + 1 /\ truncados \in Nat
    BY <1>1, <1>8 DEF Trunca, TipoFeed
  <2>2. QED
    BY <2>1
<1>9. CASE ErrorXml
  <2>1. /\ item' = Nada /\ value' = <<>> /\ Calla
        /\ titleString' = <<>> /\ linkString' = <<>> /\ description' = <<>>
        /\ pila' = IF pila = 0 THEN 0 ELSE pila - 1
    BY <1>9 DEF ErrorXml, Acaba, Olvida
  <2>2. pila \in {0, 1}
    BY DEF Documento, EntreItems, Campo
  <2>3. EntreItems' /\ SeccionLlevada'
    BY <2>1, <2>2 DEF EntreItems, SeccionLlevada
  <2>4. Documento'
    BY <2>1, <2>3 DEF Documento, Campo, Titulo, Descripcion, Enlace
  <2>5. QED
    BY <2>1, <2>4, AnunciadoCalla
<1>10. QED
  BY <1>1, <1>2, <1>3, <1>4, <1>5, <1>6, <1>7, <1>8, <1>9 DEF NextFeed, SigueDoc

\* The IRC session leaves the document alone, and announces what is said.
LEMMA CIrcSigue ==
  ASSUME BInv, Documento, Anunciado, PasoIrc
  PROVE  Documento' /\ Anunciado' /\ truncados' = truncados
<1>1. /\ UNCHANGED <<item, resta, faltan, value, pila, currentTag, titleString, linkString,
                     description, vistos, truncados>>
      /\ NextIrc
  BY DEF PasoIrc, varsFeed, varsXml, varsRss
<1>2. Documento'
  BY <1>1 DEF Documento, EntreItems, Campo, Titulo, Descripcion, Enlace, SeccionLlevada
<1>3. ASSUME \/ Conecta \/ FinDeMotd \/ Cae
             \/ \E c \in Canales : Expulsa(c) \/ Vuelve(c)
      PROVE  Anunciado'
  <2>1. UNCHANGED varsAnuncios
    BY <1>3 DEF Conecta, FinDeMotd, Cae, Expulsa, Vuelve, Entra, Reentra
  <2>2. QED
    BY <1>1, <2>1, AnunciadoCalla
<1>4. ASSUME NEW l \in Lineas, NEW d \in Canales \cup {Privado}, Mensaje(l, d)
      PROVE  Anunciado'
  <2>1. CASE Anunciada(l, d)
    <3> DEFINE a == Anuncio("irc", l.u, SeccionDe[l.u], TituloDe[l.u], EnlaceDe[l.u])
    <3>1. l.u \in Subidas /\ MiraTitulo(a)
      BY <1>4, <2>1, MensajeAnuncia
    <3>2. a.fuente = "irc" /\ a.u \in Subidas /\ a.titulo = TituloDe[a.u]
      BY <3>1 DEF Anuncio
    <3> HIDE DEF a
    <3>3. TipoAnuncios /\ Ventana /\ Separados
      BY DEF BInv, Anunciado
    <3>4. Ventana' /\ Separados'
      BY <3>1, <3>2, <3>3, TomaOtra
    <3>5. ~DelFeed'
      BY <3>1, <3>2 DEF MiraTitulo, DelFeed
    <3>6. QED
      BY <3>4, <3>5 DEF Anunciado, Propio, DeSuDoc
  <2>2. CASE ~Anunciada(l, d)
    BY <1>4, <2>2, MensajeAnuncia, AnunciadoCalla
  <2>3. QED
    BY <2>1, <2>2
<1>5. Anunciado'
  BY <1>1, <1>3, <1>4 DEF NextIrc
<1>6. QED
  BY <1>1, <1>2, <1>5

\* A document cut short is not forgotten.
LEMMA TruncadosCrece ==
  ASSUME BInv, PasoFeed
  PROVE  truncados' = truncados \/ truncados' # 0
<1>1. truncados \in Nat
  BY DEF BInv, TipoFeed
<1>2. truncados' \in {truncados, truncados + 1}
  BY DEF PasoFeed, NextFeed, SigueDoc, AbreDoc, AbreItem, AbreCampo, Texto, CierraItem,
         CierraDoc, Trunca, ErrorXml
<1>3. QED
  BY <1>1, <1>2

\* So it always holds.
LEMMA CSiempre == Spec => []CInv
<1>1. CInv /\ PasoFeed => CInv'
  <2> SUFFICES ASSUME CInv, PasoFeed PROVE CInv'
    OBVIOUS
  <2>1. BInv /\ (truncados = 0 => Documento /\ Anunciado)
    BY DEF CInv
  <2>2. BInv'
    BY <2>1, BFeedSigue
  <2>3. truncados' = truncados \/ truncados' # 0
    BY <2>1, TruncadosCrece
  <2>4. ASSUME truncados' = 0 PROVE Documento' /\ Anunciado'
    BY <2>1, <2>3, <2>4, CFeedSigue
  <2>5. QED
    BY <2>2, <2>4 DEF CInv
<1>2. CInv /\ PasoIrc => CInv'
  <2> SUFFICES ASSUME CInv, PasoIrc PROVE CInv'
    OBVIOUS
  <2>1. BInv /\ (truncados = 0 => Documento /\ Anunciado)
    BY DEF CInv
  <2>2. BInv'
    BY <2>1, BIrcSigue
  <2>3. truncados' = truncados
    BY DEF PasoIrc, varsFeed, varsXml
  <2>4. ASSUME truncados' = 0 PROVE Documento' /\ Anunciado'
    BY <2>1, <2>3, <2>4, CIrcSigue
  <2>5. QED
    BY <2>2, <2>4 DEF CInv
<1>3. CInv /\ UNCHANGED vars => CInv'
  <2> SUFFICES ASSUME CInv, UNCHANGED vars PROVE CInv'
    OBVIOUS
  <2>1. BInv'
    BY DEF CInv, BInv, TipoFeed, TipoIrc, TipoAnuncios, Marcha, vars, varsFeed, varsXml,
           varsRss, varsIrc, varsAnuncios
  <2>2. /\ UNCHANGED varsAnuncios
        /\ UNCHANGED <<item, resta, faltan, value, pila, currentTag, titleString, linkString,
                       description, vistos, truncados>>
    BY DEF vars, varsFeed, varsXml, varsRss
  <2>3. Documento => Documento'
    BY <2>2 DEF Documento, EntreItems, Campo, Titulo, Descripcion, Enlace, SeccionLlevada
  <2>4. Anunciado => Anunciado'
    BY <2>2, AnunciadoCalla
  <2>5. QED
    BY <2>1, <2>2, <2>3, <2>4 DEF CInv
<1>4. CInv /\ [Next]_vars => CInv'
  BY <1>1, <1>2, <1>3 DEF Next
<1>5. QED
  BY <1>4, CInicial, PTL DEF Spec

\* An item of a feed gives miraTitulo its own title, whole and clean, and
\* nothing but its own link, with any order of the fields, any pieces of text
\* and any syntax errors before it, while no document is cut short.
THEOREM ItemEnteroSiempre == Spec => []ItemEntero
<1>1. CInv => ItemEntero
  BY DEF CInv, Anunciado, Propio, ItemEntero
<1>2. QED
  BY <1>1, CSiempre, PTL

\* The section an announcement has is that of its item, or of an item before it
\* in the same document, whole from a title and its first word from a
\* description: never one of another document, while none is cut short.
THEOREM SeccionDeSuDocSiempre == Spec => []SeccionDeSuDoc
<1>1. CInv => SeccionDeSuDoc
  BY DEF CInv, Anunciado, DeSuDoc, SeccionesDe, SeccionDeSuDoc
<1>2. QED
  BY <1>1, CSiempre, PTL

\* An upload that comes by feed and by IRC, or again and again, is taken once
\* until more than MaxRecientes others have been taken.
THEOREM UnaVezSiempre == Spec => []UnaVezPorSubida
<1>1. CInv => UnaVezPorSubida
  BY DEF CInv, Anunciado, Separados, UnaVezPorSubida
<1>2. QED
  BY <1>1, CSiempre, PTL
=============================================================================
