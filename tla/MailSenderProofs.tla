-------------------------- MODULE MailSenderProofs --------------------------
(***************************************************************************)
(* Proofs about MailSender, for any number of sends and whatever the       *)
(* server and the network do: types, the message sent only to a server     *)
(* that waits for it, and the promise of MailDelivery.                     *)
(***************************************************************************)
EXTENDS MailSender, SequenceTheorems, TLAPS

-----------------------------------------------------------------------------
(* The lines that the program has still to read.                           *)

Cadena == buf \o red

LEMMA EsperaTipo ==
  /\ Ordenes = {"saludo", "ehlo", "helo", "starttls", "login", "usuario", "clave",
                "mail", "rcpt", "data", "cuerpo", "quit"}
  /\ \A o \in Ordenes : Espera[o] \in Int
  /\ \A o \in Ordenes : Espera[o] = 354 <=> o = "data"
  /\ Espera["cuerpo"] = 250
BY DEF Ordenes, Espera

LEMMA SigueTipo ==
  ASSUME NEW o \in Ordenes \ {"quit"}
  PROVE  Sigue(o) \in Ordenes
BY EsperaTipo DEF Sigue

LEMMA CadenaTipo ==
  ASSUME TipoDialogo
  PROVE  /\ Cadena \in Seq(Linea) /\ Len(Cadena) \in Nat
         /\ Len(Cadena) = Len(buf) + Len(red)
         /\ \A j \in 1 .. Len(Cadena) :
              Cadena[j] = IF j <= Len(buf) THEN buf[j] ELSE red[j - Len(buf)]
BY ConcatProperties DEF TipoDialogo, Cadena

\* A sequence without its first n elements.
LEMMA Resto ==
  ASSUME NEW S, NEW s \in Seq(S), NEW n \in 0 .. Len(s)
  PROVE  /\ SubSeq(s, n + 1, Len(s)) \in Seq(S)
         /\ Len(SubSeq(s, n + 1, Len(s))) = Len(s) - n
         /\ \A j \in 1 .. Len(s) - n : SubSeq(s, n + 1, Len(s))[j] = s[n + j]
<1>1. Len(s) \in Nat
  OBVIOUS
<1>2. \A j \in n + 1 .. Len(s) : s[j] \in S
  BY ElementOfSeq, <1>1
<1>3. /\ SubSeq(s, n + 1, Len(s)) \in Seq(S)
      /\ Len(SubSeq(s, n + 1, Len(s))) = IF n + 1 <= Len(s) THEN Len(s) - (n + 1) + 1 ELSE 0
      /\ \A j \in 1 .. Len(s) - (n + 1) + 1 :
           SubSeq(s, n + 1, Len(s))[j] = s[(n + 1) + j - 1]
  BY <1>1, <1>2, SubSeqProperties, n + 1 \in Int, Len(s) \in Int
<1>4. QED
  BY <1>1, <1>3

\* The first k elements of a sequence.
LEMMA Principio ==
  ASSUME NEW S, NEW s \in Seq(S), NEW k \in 0 .. Len(s)
  PROVE  /\ SubSeq(s, 1, k) \in Seq(S) /\ Len(SubSeq(s, 1, k)) = k
         /\ \A j \in 1 .. k : SubSeq(s, 1, k)[j] = s[j]
<1>1. \A j \in 1 .. k : s[j] \in S
  BY ElementOfSeq
<1>2. QED
  BY <1>1, SubSeqProperties

\* The arithmetic of Partida, below: l is b and k more of r, x what is left of
\* both without the first n, y the whole.
LEMMA Cuenta ==
  ASSUME NEW nb \in Nat, NEW nr \in Nat, NEW k \in 0 .. nr, NEW n \in 0 .. nb + k,
         NEW b, NEW r, NEW l, NEW bb, NEW rr, NEW x, NEW y,
         \A j \in 1 .. nb + k : l[j] = IF j <= nb THEN b[j] ELSE r[j - nb],
         \A j \in 1 .. nb + k - n : bb[j] = l[n + j],
         \A j \in 1 .. nr - k : rr[j] = r[k + j],
         \A j \in 1 .. nb + nr - n :
           x[j] = IF j <= nb + k - n THEN bb[j] ELSE rr[j - (nb + k - n)],
         \A j \in 1 .. nb + nr : y[j] = IF j <= nb THEN b[j] ELSE r[j - nb]
  PROVE  /\ \A j \in 1 .. nb + k : l[j] = y[j]
         /\ \A j \in 1 .. nb + nr - n : x[j] = y[n + j]
<1>1. \A j \in 1 .. nb + k : l[j] = y[j]
  OBVIOUS
<1>2. ASSUME NEW j \in 1 .. nb + nr - n PROVE x[j] = y[n + j]
  <2>1. CASE j <= nb + k - n
    <3>1. x[j] = bb[j] /\ bb[j] = l[n + j]
      BY <2>1
    <3>2. l[n + j] = y[n + j]
      BY <1>1, <2>1
    <3>3. QED
      BY <3>1, <3>2
  <2>2. CASE j > nb + k - n
    <3>1. x[j] = rr[j - (nb + k - n)]
      BY <2>2
    <3>2. j - (nb + k - n) \in 1 .. nr - k
      BY <2>2
    <3>3. rr[j - (nb + k - n)] = r[k + (j - (nb + k - n))]
      BY <3>2
    <3>4. k + (j - (nb + k - n)) = (n + j) - nb /\ n + j > nb /\ n + j \in 1 .. nb + nr
      BY <2>2
    <3>5. y[n + j] = r[(n + j) - nb]
      BY <3>4
    <3>6. QED
      BY <3>1, <3>3, <3>4, <3>5
  <2>3. QED
    BY <2>1, <2>2
<1>3. QED
  BY <1>1, <1>2

\* The lines in the socket when k of r have joined b, what is left there when
\* n of them have been read, and what is still to come.
Juntas(b, r, k) == b \o SubSeq(r, 1, k)
Quedan(b, r, k, n) == SubSeq(Juntas(b, r, k), n + 1, Len(Juntas(b, r, k)))
Faltan(r, k) == SubSeq(r, k + 1, Len(r))

\* x is y without its first n elements.
SinPrimeros(x, y, n) ==
  Len(x) = Len(y) - n /\ \A j \in 1 .. Len(y) - n : x[j] = y[n + j]

LEMMA Partida ==
  ASSUME NEW S, NEW b \in Seq(S), NEW r \in Seq(S), NEW k \in 0 .. Len(r),
         NEW n \in 0 .. Len(Juntas(b, r, k))
  PROVE  /\ Juntas(b, r, k) \in Seq(S) /\ Quedan(b, r, k, n) \in Seq(S)
         /\ Faltan(r, k) \in Seq(S)
         /\ Len(Juntas(b, r, k)) <= Len(b \o r)
         /\ \A j \in 1 .. Len(Juntas(b, r, k)) : Juntas(b, r, k)[j] = (b \o r)[j]
         /\ SinPrimeros(Quedan(b, r, k, n) \o Faltan(r, k), b \o r, n)
<1>t. Len(b) \in Nat /\ Len(r) \in Nat
  OBVIOUS
<1> DEFINE p == SubSeq(r, 1, k)
           l == b \o p
           bb == SubSeq(l, n + 1, Len(l))
           rr == SubSeq(r, k + 1, Len(r))
<1>1. p \in Seq(S) /\ Len(p) = k /\ \A j \in 1 .. k : p[j] = r[j]
  BY Principio
<1> HIDE DEF p
<1>2. /\ l \in Seq(S) /\ Len(l) = Len(b) + k
      /\ \A j \in 1 .. Len(b) + k : l[j] = IF j <= Len(b) THEN b[j] ELSE p[j - Len(b)]
  BY <1>t, <1>1, ConcatProperties
<1>3. /\ rr \in Seq(S) /\ Len(rr) = Len(r) - k
      /\ \A j \in 1 .. Len(r) - k : rr[j] = r[k + j]
  BY Resto
<1>0. n \in 0 .. Len(l)
  BY DEF p, Juntas
<1> HIDE DEF l
<1>4. /\ bb \in Seq(S) /\ Len(bb) = Len(l) - n
      /\ \A j \in 1 .. Len(l) - n : bb[j] = l[n + j]
  BY <1>0, <1>2, Resto
<1> HIDE DEF bb, rr
<1>5. /\ Len(bb \o rr) = Len(bb) + Len(rr)
      /\ \A j \in 1 .. Len(bb) + Len(rr) :
           (bb \o rr)[j] = IF j <= Len(bb) THEN bb[j] ELSE rr[j - Len(bb)]
  BY <1>3, <1>4, ConcatProperties
<1>6. /\ Len(b \o r) = Len(b) + Len(r)
      /\ \A j \in 1 .. Len(b) + Len(r) :
           (b \o r)[j] = IF j <= Len(b) THEN b[j] ELSE r[j - Len(b)]
  BY ConcatProperties
<1> DEFINE x == bb \o rr
           y == b \o r
<1>7. /\ Len(bb) = Len(b) + k - n /\ Len(bb) + Len(rr) = Len(b) + Len(r) - n
      /\ n \in 0 .. Len(b) + k
  BY <1>t, <1>0, <1>2, <1>3, <1>4
<1>8. \A j \in 1 .. Len(b) + k : l[j] = IF j <= Len(b) THEN b[j] ELSE r[j - Len(b)]
  BY <1>t, <1>1, <1>2
<1>9. /\ \A j \in 1 .. Len(b) + k - n : bb[j] = l[n + j]
      /\ \A j \in 1 .. Len(b) + Len(r) - n :
           x[j] = IF j <= Len(b) + k - n THEN bb[j] ELSE rr[j - (Len(b) + k - n)]
  BY <1>2, <1>4, <1>5, <1>7
<1>10. \A j \in 1 .. Len(b) + Len(r) : y[j] = IF j <= Len(b) THEN b[j] ELSE r[j - Len(b)]
  BY <1>6
<1> HIDE DEF x, y
<1>11. /\ \A j \in 1 .. Len(b) + k : l[j] = y[j]
       /\ \A j \in 1 .. Len(b) + Len(r) - n : x[j] = y[n + j]
  <2> DEFINE nb == Len(b)
             nr == Len(r)
  <2>1. nb \in Nat /\ nr \in Nat /\ k \in 0 .. nr /\ n \in 0 .. nb + k
    BY <1>t, <1>7
  <2>2. /\ \A j \in 1 .. nb + k : l[j] = IF j <= nb THEN b[j] ELSE r[j - nb]
        /\ \A j \in 1 .. nb + k - n : bb[j] = l[n + j]
        /\ \A j \in 1 .. nr - k : rr[j] = r[k + j]
        /\ \A j \in 1 .. nb + nr - n :
             x[j] = IF j <= nb + k - n THEN bb[j] ELSE rr[j - (nb + k - n)]
        /\ \A j \in 1 .. nb + nr : y[j] = IF j <= nb THEN b[j] ELSE r[j - nb]
    BY <1>3, <1>8, <1>9, <1>10
  <2> HIDE DEF nb, nr
  <2>3. /\ \A j \in 1 .. nb + k : l[j] = y[j]
        /\ \A j \in 1 .. nb + nr - n : x[j] = y[n + j]
    BY <2>1, <2>2, Cuenta
  <2>4. QED
    BY <2>3 DEF nb, nr
<1>12. /\ Len(l) <= Len(y) /\ Len(x) = Len(y) - n /\ Len(y) = Len(b) + Len(r)
  BY <1>t, <1>2, <1>5, <1>6, <1>7 DEF x, y
<1>13. /\ l \in Seq(S) /\ bb \in Seq(S) /\ rr \in Seq(S)
       /\ Len(l) <= Len(y)
       /\ \A j \in 1 .. Len(l) : l[j] = y[j]
       /\ Len(x) = Len(y) - n
       /\ \A j \in 1 .. Len(y) - n : x[j] = y[n + j]
  <2>1. \A j \in 1 .. Len(l) : l[j] = y[j]
    BY <1>2, <1>11
  <2>2. \A j \in 1 .. Len(y) - n : x[j] = y[n + j]
    BY <1>11, <1>12
  <2>3. QED
    BY <1>2, <1>3, <1>4, <1>12, <2>1, <2>2
<1>14. QED
  BY <1>13 DEF SinPrimeros, x, y, bb, rr, l, p, Juntas, Quedan, Faltan

-----------------------------------------------------------------------------
(* What each step does to the commands and to the lines.                   *)

\* Command o goes out when the first n of the lines have been read.
Avanza(o, n) ==
  /\ paso' = o /\ ordenes' = Append(ordenes, o)
  /\ red' \in Seq(Linea) /\ buf' \in Seq(Linea) /\ n \in 0 .. Len(Cadena)
  /\ Len(Cadena') = Len(Cadena) - n
  /\ \A j \in 1 .. Len(Cadena) - n : Cadena'[j] = Cadena[n + j]
  /\ UNCHANGED <<auth, abierta, resultado>>

Fracasa == Devuelve("false") /\ UNCHANGED ordenes

LEMMA MalaAvanza ==
  ASSUME TipoDialogo, NEW r \in Seq(Linea), NEW b \in Seq(Linea),
         NEW n \in 0 .. Len(Cadena), Len(b \o r) = Len(Cadena) - n,
         \A j \in 1 .. Len(Cadena) - n : (b \o r)[j] = Cadena[n + j],
         MalaRespuesta(r, b)
  PROVE  Fracasa \/ (paso = "ehlo" /\ Avanza("helo", n))
<1>1. CASE Devuelve("false") /\ UNCHANGED ordenes
  BY <1>1 DEF Fracasa
<1>2. CASE paso = "ehlo" /\ abierta /\ Manda("helo", r, b)
  <2>1. Cadena' = b \o r
    BY <1>2 DEF Manda, Cadena
  <2>2. Avanza("helo", n)
    BY <1>2, <2>1 DEF Manda, Avanza
  <2>3. QED
    BY <1>2, <2>2
<1>3. QED
  BY <1>1, <1>2 DEF MalaRespuesta

\* send() goes on only with the expected reply, or from EHLO to HELO.
LEMMA PasoLee ==
  ASSUME TipoDialogo, Lee
  PROVE  \/ Fracasa
         \/ paso = "quit" /\ Devuelve("true") /\ UNCHANGED ordenes
         \/ paso = "ehlo" /\ \E n \in 0 .. Len(Cadena) : Avanza("helo", n)
         \/ /\ paso \in Ordenes \ {"quit"}
            /\ \E n \in 1 .. Len(Cadena) :
                 Cadena[n].codigo = Espera[paso] /\ Avanza(Sigue(paso), n)
<1>t. buf \in Seq(Linea) /\ red \in Seq(Linea) /\ paso \in Ordenes
  BY DEF TipoDialogo, Lee, Esperando
<1>1. PICK k \in 0 .. Len(red) :
        Mira(Juntas(buf, red, k), Faltan(red, k))
  BY DEF Lee, Juntas, Faltan
<1> DEFINE l == Juntas(buf, red, k)
           rr == Faltan(red, k)
           bb(n) == Quedan(buf, red, k, n)
<1>2. /\ l \in Seq(Linea) /\ rr \in Seq(Linea)
      /\ Len(l) <= Len(Cadena) /\ \A j \in 1 .. Len(l) : l[j] = Cadena[j]
      /\ \A n \in 0 .. Len(l) :
           /\ bb(n) \in Seq(Linea) /\ Len(bb(n) \o rr) = Len(Cadena) - n
           /\ \A j \in 1 .. Len(Cadena) - n : (bb(n) \o rr)[j] = Cadena[n + j]
  <2>1. ASSUME NEW n \in 0 .. Len(l)
        PROVE  /\ l \in Seq(Linea) /\ rr \in Seq(Linea) /\ bb(n) \in Seq(Linea)
               /\ Len(l) <= Len(Cadena) /\ \A j \in 1 .. Len(l) : l[j] = Cadena[j]
               /\ Len(bb(n) \o rr) = Len(Cadena) - n
               /\ \A j \in 1 .. Len(Cadena) - n : (bb(n) \o rr)[j] = Cadena[n + j]
    <3>1. n \in 0 .. Len(Juntas(buf, red, k))
      BY <2>1
    <3> HIDE DEF l, rr, bb
    <3>2. /\ Juntas(buf, red, k) \in Seq(Linea) /\ Quedan(buf, red, k, n) \in Seq(Linea)
          /\ Faltan(red, k) \in Seq(Linea)
          /\ Len(Juntas(buf, red, k)) <= Len(buf \o red)
          /\ \A j \in 1 .. Len(Juntas(buf, red, k)) :
               Juntas(buf, red, k)[j] = (buf \o red)[j]
          /\ SinPrimeros(Quedan(buf, red, k, n) \o Faltan(red, k), buf \o red, n)
      BY <1>t, <3>1, Partida
    <3>3. QED
      BY <3>2 DEF SinPrimeros, Cadena, l, rr, bb
  <2>2. SubSeq(red, 1, k) \in Seq(Linea)
    BY <1>t, Principio
  <2> HIDE DEF rr, bb
  <2>3. l \in Seq(Linea)
    BY <1>t, <2>2, ConcatProperties DEF Juntas
  <2>4. Len(l) \in Nat
    BY <2>3
  <2>5. 0 \in 0 .. Len(l)
    BY <2>4
  <2> HIDE DEF l
  <2>6. QED
    BY <2>1, <2>5
<1>3. Len(Cadena) \in Nat /\ Len(l) \in Nat
  BY <1>2, CadenaTipo
<1>4. Mira(l, rr)
  BY <1>1
<1>5. <<>> \in Seq(Linea) /\ (l = <<>> => Len(l) = 0 /\ bb(0) = <<>>)
  BY EmptySeq, SubSeqEmpty DEF Quedan
<1> HIDE DEF rr, bb
<1>6. CASE l = <<>> /\ MalaRespuesta(rr, <<>>)
  <2>1. 0 \in 0 .. Len(l) /\ 0 \in 0 .. Len(Cadena)
    BY <1>3
  <2>2. /\ Len(<<>> \o rr) = Len(Cadena) - 0
        /\ \A j \in 1 .. Len(Cadena) - 0 : (<<>> \o rr)[j] = Cadena[0 + j]
    <3>1. /\ Len(bb(0) \o rr) = Len(Cadena) - 0
          /\ \A j \in 1 .. Len(Cadena) - 0 : (bb(0) \o rr)[j] = Cadena[0 + j]
      BY <1>2, <2>1
    <3>2. QED
      BY <1>5, <1>6, <3>1
  <2>3. Fracasa \/ (paso = "ehlo" /\ Avanza("helo", 0))
    BY <1>2, <1>5, <1>6, <2>1, <2>2, MalaAvanza
  <2>4. QED
    BY <2>1, <2>3
<1>7. ASSUME NEW n \in DOMAIN l,
             \/ ~Vale(l[n].codigo) /\ MalaRespuesta(rr, bb(n))
             \/ Vale(l[n].codigo) /\ paso = "quit" /\ Devuelve("true") /\ UNCHANGED ordenes
             \/ Vale(l[n].codigo) /\ paso # "quit" /\ Manda(Sigue(paso), rr, bb(n))
      PROVE  \/ Fracasa
             \/ paso = "quit" /\ Devuelve("true") /\ UNCHANGED ordenes
             \/ paso = "ehlo" /\ Avanza("helo", n)
             \/ /\ paso \in Ordenes \ {"quit"} /\ n \in 1 .. Len(Cadena)
                /\ Cadena[n].codigo = Espera[paso] /\ Avanza(Sigue(paso), n)
  <2>1. DOMAIN l = 1 .. Len(l)
    BY <1>2
  <2>2. n \in 0 .. Len(l) /\ n \in 1 .. Len(l)
    BY <1>3, <2>1
  <2>n. n \in 1 .. Len(Cadena) /\ n \in 0 .. Len(Cadena)
    BY <1>2, <1>3, <2>2
  <2>3. /\ bb(n) \in Seq(Linea) /\ Len(bb(n) \o rr) = Len(Cadena) - n
        /\ \A j \in 1 .. Len(Cadena) - n : (bb(n) \o rr)[j] = Cadena[n + j]
    BY <1>2, <2>2
  <2>4. CASE MalaRespuesta(rr, bb(n))
    BY <1>2, <2>n, <2>3, <2>4, MalaAvanza
  <2>5. CASE Vale(l[n].codigo) /\ paso # "quit" /\ Manda(Sigue(paso), rr, bb(n))
    <3>1. Cadena' = bb(n) \o rr
      BY <2>5 DEF Manda, Cadena
    <3>2. Avanza(Sigue(paso), n)
      BY <1>2, <2>5, <2>n, <2>3, <3>1 DEF Manda, Avanza
    <3>3. Cadena[n].codigo = Espera[paso]
      BY <1>2, <2>2, <2>5 DEF Vale
    <3>4. QED
      BY <1>t, <2>5, <2>n, <3>2, <3>3
  <2>6. QED
    BY <1>7, <2>4, <2>5
<1>8. \A n \in DOMAIN l : n \in 0 .. Len(Cadena)
  BY <1>2, <1>3
<1> HIDE DEF l
<1>9. QED
  <2>1. \/ l = <<>> /\ MalaRespuesta(rr, <<>>)
        \/ \E n \in DOMAIN l :
             \/ ~Vale(l[n].codigo) /\ MalaRespuesta(rr, bb(n))
             \/ Vale(l[n].codigo) /\ paso = "quit" /\ Devuelve("true") /\ UNCHANGED ordenes
             \/ Vale(l[n].codigo) /\ paso # "quit" /\ Manda(Sigue(paso), rr, bb(n))
    BY <1>4 DEF Mira, bb, Quedan, l
  <2>2. QED
    BY <1>6, <1>7, <1>8, <2>1

\* Lines that come are added at the end, all with the code of the reply, and
\* none comes when the connection is down.
Crece(c) ==
  /\ red' \in Seq(Linea)
  /\ Len(Cadena') \in Nat /\ Len(Cadena') >= Len(Cadena)
  /\ ~abierta => Cadena' = Cadena
  /\ \A j \in 1 .. Len(Cadena) : Cadena'[j] = Cadena[j]
  /\ \A j \in Len(Cadena) + 1 .. Len(Cadena') : Cadena'[j].codigo = c

LEMMA RespondeCrece ==
  ASSUME TipoDialogo, NEW c \in {Espera[o] : o \in Ordenes} \cup {Rechazo},
         Responde(c), UNCHANGED buf
  PROVE  Crece(c)
<1>t. buf \in Seq(Linea) /\ red \in Seq(Linea)
  BY DEF TipoDialogo
<1> DEFINE fin == [codigo |-> c, ultima |-> TRUE]
           dos == <<[codigo |-> c, ultima |-> FALSE], fin>>
<1>1. PICK lineas \in {<<fin>>, dos} :
        red' = IF abierta THEN red \o lineas ELSE red
  BY DEF Responde
<1>2. fin \in Linea /\ [codigo |-> c, ultima |-> FALSE] \in Linea
  BY DEF Linea
<1>3. /\ lineas \in Seq(Linea) /\ Len(lineas) \in Nat
      /\ \A j \in 1 .. Len(lineas) : lineas[j].codigo = c
  <2>1. CASE lineas = <<fin>>
    BY <1>2, <2>1
  <2>2. CASE lineas = dos
    BY <1>2, <2>2
  <2>3. QED
    BY <2>1, <2>2
<1>c. /\ Len(Cadena) \in Nat /\ Cadena \in Seq(Linea)
  BY CadenaTipo
<1>4. CASE ~abierta
  <2>1. Cadena' = Cadena /\ red' = red
    BY <1>1, <1>4 DEF Cadena
  <2>2. QED
    BY <1>t, <1>c, <2>1 DEF Crece
<1>5. CASE abierta
  <2>1. red' = red \o lineas /\ red' \in Seq(Linea)
    BY <1>1, <1>3, <1>5, <1>t, ConcatProperties
  <2>2. Cadena' = Cadena \o lineas
    <3>1. Cadena' = buf \o (red \o lineas)
      BY <2>1 DEF Cadena
    <3>2. lineas \in Seq(Linea)
      BY <1>3
    <3> HIDE DEF fin, dos
    <3>3. (buf \o red) \o lineas = buf \o (red \o lineas)
      BY <1>t, <3>2, ConcatAssociative
    <3>4. QED
      BY <3>1, <3>3 DEF Cadena
  <2> HIDE DEF fin, dos
  <2>3. /\ Len(Cadena \o lineas) = Len(Cadena) + Len(lineas)
        /\ \A j \in 1 .. Len(Cadena) + Len(lineas) :
             (Cadena \o lineas)[j] = IF j <= Len(Cadena) THEN Cadena[j]
                                     ELSE lineas[j - Len(Cadena)]
    BY <1>3, <1>c, ConcatProperties
  <2> DEFINE y == Cadena \o lineas
  <2>4. /\ Len(y) \in Nat /\ Len(y) >= Len(Cadena)
        /\ \A j \in 1 .. Len(Cadena) : y[j] = Cadena[j]
    BY <1>3, <1>c, <2>3
  <2>5. ASSUME NEW j \in Len(Cadena) + 1 .. Len(y) PROVE y[j].codigo = c
    <3>1. j - Len(Cadena) \in 1 .. Len(lineas) /\ y[j] = lineas[j - Len(Cadena)]
      BY <1>3, <1>c, <2>3
    <3>2. QED
      BY <1>3, <3>1
  <2> HIDE DEF y
  <2>6. Cadena' = y
    BY <2>2 DEF y
  <2>7. QED
    BY <1>5, <2>1, <2>4, <2>5, <2>6 DEF Crece
<1>6. QED
  BY <1>4, <1>5

\* A connection that goes loses lines from the end.
LEMMA CorteAcorta ==
  ASSUME TipoDialogo, Corte
  PROVE  /\ red' \in Seq(Linea) /\ Len(Cadena') \in 0 .. Len(Cadena)
         /\ \A j \in 1 .. Len(Cadena') : Cadena'[j] = Cadena[j]
<1>t. buf \in Seq(Linea) /\ red \in Seq(Linea)
  BY DEF TipoDialogo
<1>1. PICK k \in 0 .. Len(red) : red' = SubSeq(red, 1, k)
  BY DEF Corte
<1>2. red' \in Seq(Linea) /\ Len(red') = k /\ \A j \in 1 .. k : red'[j] = red[j]
  BY <1>1, <1>t, Principio
<1>3. Cadena' = buf \o red'
  BY DEF Cadena, Corte
<1> DEFINE p == red'
<1>4. p \in Seq(Linea) /\ Len(p) = k /\ \A j \in 1 .. k : p[j] = red[j]
  BY <1>2
<1> HIDE DEF p
<1>5. /\ Len(buf \o p) = Len(buf) + Len(p)
      /\ \A j \in 1 .. Len(buf) + Len(p) :
           (buf \o p)[j] = IF j <= Len(buf) THEN buf[j] ELSE p[j - Len(buf)]
  BY <1>t, <1>4, ConcatProperties
<1>6. /\ Len(Cadena) = Len(buf) + Len(red) /\ Len(Cadena) \in Nat
      /\ \A j \in 1 .. Len(Cadena) :
           Cadena[j] = IF j <= Len(buf) THEN buf[j] ELSE red[j - Len(buf)]
  BY CadenaTipo
<1>7. Len(buf) \in Nat /\ Len(red) \in Nat
  BY <1>t
<1> DEFINE y == buf \o p
<1>8. Len(y) \in 0 .. Len(Cadena)
  BY <1>4, <1>5, <1>6, <1>7
<1>9. ASSUME NEW j \in 1 .. Len(y) PROVE y[j] = Cadena[j]
  <2>1. CASE j <= Len(buf)
    BY <1>5, <1>6, <1>7, <1>8, <2>1
  <2>2. CASE j > Len(buf)
    <3>1. j - Len(buf) \in 1 .. k
      BY <1>4, <1>5, <1>7, <2>2
    <3>2. QED
      BY <1>4, <1>5, <1>6, <1>7, <1>8, <2>2, <3>1
  <2>3. QED
    BY <1>7, <2>1, <2>2
<1> HIDE DEF y
<1>10. Cadena' = y
  BY <1>3 DEF y, p
<1>11. QED
  BY <1>2, <1>8, <1>9, <1>10

\* Any wait of send(), with lines or without: the four ways it ends.
LEMMA PasoEspera ==
  ASSUME TipoDialogo, Lee \/ SinRespuesta
  PROVE  /\ UNCHANGED <<srv, aceptado, envios>> /\ paso \in Ordenes
         /\ \/ Fracasa
            \/ paso = "quit" /\ Devuelve("true") /\ UNCHANGED ordenes
            \/ paso = "ehlo" /\ \E n \in 0 .. Len(Cadena) : Avanza("helo", n)
            \/ /\ paso \in Ordenes \ {"quit"}
               /\ \E n \in 1 .. Len(Cadena) :
                    Cadena[n].codigo = Espera[paso] /\ Avanza(Sigue(paso), n)
<1>1. UNCHANGED <<srv, aceptado, envios>> /\ paso \in Ordenes
  BY DEF Lee, SinRespuesta, Esperando, TipoDialogo
<1>2. CASE SinRespuesta
  <2>1. Len(Cadena) \in Nat
    BY CadenaTipo
  <2>2. /\ 0 \in 0 .. Len(Cadena) /\ Len(buf \o red) = Len(Cadena) - 0
        /\ \A j \in 1 .. Len(Cadena) - 0 : (buf \o red)[j] = Cadena[0 + j]
    BY <2>1 DEF Cadena
  <2>3. buf \in Seq(Linea) /\ red \in Seq(Linea) /\ MalaRespuesta(red, buf)
    BY <1>2 DEF SinRespuesta, TipoDialogo
  <2>4. Fracasa \/ (paso = "ehlo" /\ Avanza("helo", 0))
    BY <2>2, <2>3, MalaAvanza
  <2>5. QED
    BY <1>1, <2>2, <2>4
<1>3. CASE Lee
  BY <1>1, <1>3, PasoLee
<1>4. QED
  BY <1>2, <1>3

\* A command that goes out, and one that the server takes.
LEMMA Sale ==
  ASSUME TipoDialogo, NEW o \in Ordenes, ordenes' = Append(ordenes, o)
  PROVE  /\ ordenes' \in Seq(Ordenes) /\ Len(ordenes') = Len(ordenes) + 1
         /\ Len(ordenes) \in Nat /\ ordenes'[Len(ordenes) + 1] = o
         /\ \A j \in 1 .. Len(ordenes) : ordenes'[j] = ordenes[j]
BY AppendProperties DEF TipoDialogo

LEMMA Llega ==
  ASSUME TipoDialogo, ordenes # <<>>, ordenes' = Tail(ordenes)
  PROVE  /\ Head(ordenes) \in Ordenes /\ Head(ordenes) = ordenes[1]
         /\ ordenes' \in Seq(Ordenes) /\ Len(ordenes') = Len(ordenes) - 1
         /\ Len(ordenes) \in Nat \ {0}
         /\ \A j \in 1 .. Len(ordenes') : ordenes'[j] = ordenes[j + 1]
BY HeadTailProperties, EmptySeq DEF TipoDialogo

\* The server's steps: a reply grows the lines, and the command is gone.
LEMMA PasoServidor ==
  ASSUME TipoDialogo, AtiendeOrden \/ AtiendeCuerpo
  PROVE  \E c \in {Espera[o] : o \in Ordenes} \cup {Rechazo} :
           /\ Crece(c)
           /\ ordenes # <<>> /\ ordenes' = Tail(ordenes)
           /\ UNCHANGED <<paso, auth, abierta, buf, resultado, envios>>
           /\ \/ /\ srv = "orden" /\ Head(ordenes) # "cuerpo"
                 /\ UNCHANGED aceptado
                 /\ \/ c = Rechazo /\ UNCHANGED srv
                    \/ /\ c = Espera[Head(ordenes)]
                       /\ srv' \in {"orden", "datos", "fin"}
                       /\ srv' = "datos" <=> Head(ordenes) = "data"
              \/ /\ srv = "datos" /\ Head(ordenes) = "cuerpo" /\ srv' = "orden"
                 /\ \/ c = Espera.cuerpo /\ aceptado' = aceptado + 1
                    \/ c = Rechazo /\ UNCHANGED aceptado
<1>1. CASE AtiendeOrden
  <2>1. Head(ordenes) \in Ordenes
    BY <1>1, Llega DEF AtiendeOrden
  <2>2. CASE Responde(Rechazo) /\ UNCHANGED srv
    BY <1>1, <2>2, RespondeCrece DEF AtiendeOrden
  <2>3. CASE /\ Responde(Espera[Head(ordenes)])
             /\ srv' = CASE Head(ordenes) = "data" -> "datos"
                         [] Head(ordenes) = "quit" -> "fin" [] OTHER -> "orden"
    <3>1. srv' \in {"orden", "datos", "fin"} /\ (srv' = "datos" <=> Head(ordenes) = "data")
      BY <2>3
    <3>2. Crece(Espera[Head(ordenes)])
      BY <1>1, <2>1, <2>3, RespondeCrece DEF AtiendeOrden
    <3>3. Espera[Head(ordenes)] \in {Espera[o] : o \in Ordenes} \cup {Rechazo}
      BY <2>1
    <3>4. QED
      BY <1>1, <3>1, <3>2, <3>3 DEF AtiendeOrden
  <2>4. QED
    BY <1>1, <2>2, <2>3 DEF AtiendeOrden
<1>2. CASE AtiendeCuerpo
  <2>1. "cuerpo" \in Ordenes /\ Espera.cuerpo = Espera["cuerpo"]
    BY EsperaTipo
  <2>2. CASE Responde(Espera.cuerpo) /\ aceptado' = aceptado + 1
    BY <1>2, <2>1, <2>2, RespondeCrece DEF AtiendeCuerpo
  <2>3. CASE Responde(Rechazo) /\ UNCHANGED aceptado
    BY <1>2, <2>3, RespondeCrece DEF AtiendeCuerpo
  <2>4. QED
    BY <1>2, <2>2, <2>3 DEF AtiendeCuerpo
<1>3. QED
  BY <1>1, <1>2

-----------------------------------------------------------------------------
(* Types.                                                                  *)

LEMMA TipoInicial == InitCorreo => TipoDialogo
<1>1. <<>> \in Seq(Ordenes) /\ <<>> \in Seq(Linea)
  BY EmptySeq
<1>2. InitCorreo => auth \in BOOLEAN /\ abierta \in BOOLEAN
  BY DEF InitCorreo
<1>3. InitCorreo => /\ paso \in Ordenes \cup {"libre", "conecta"}
                    /\ ordenes \in Seq(Ordenes) /\ red \in Seq(Linea) /\ buf \in Seq(Linea)
                    /\ srv \in {"orden", "datos", "fin"}
                    /\ resultado \in {"ninguno", "true", "false"}
                    /\ aceptado \in Nat /\ envios \in Nat
  BY <1>1 DEF InitCorreo
<1>4. QED
  BY <1>2, <1>3 DEF TipoDialogo

LEMMA TipoSigue == TipoDialogo /\ [NextCorreo]_varsCorreo => TipoDialogo'
<1> SUFFICES ASSUME TipoDialogo, [NextCorreo]_varsCorreo PROVE TipoDialogo'
  OBVIOUS
<1>e. <<>> \in Seq(Linea) /\ <<>> \in Seq(Ordenes)
  BY EmptySeq
<1>s. "saludo" \in Ordenes /\ "helo" \in Ordenes /\ <<"saludo">> \in Seq(Ordenes)
  BY EsperaTipo
<1>1. CASE Enviar
  BY <1>1, <1>e DEF Enviar, TipoDialogo
<1>2. CASE Conecta
  <2>1. CASE Devuelve("false") /\ UNCHANGED <<ordenes, srv>>
    BY <1>2, <1>e, <2>1 DEF Conecta, Devuelve, TipoDialogo
  <2>2. CASE /\ paso' = "saludo" /\ abierta' = TRUE
             /\ ordenes' = <<"saludo">> /\ srv' = "orden"
             /\ UNCHANGED <<auth, red, buf, resultado>>
    BY <1>2, <1>s, <2>2 DEF Conecta, TipoDialogo
  <2>3. QED
    BY <1>2, <2>1, <2>2 DEF Conecta
<1>3. CASE Lee \/ SinRespuesta
  <2>0. UNCHANGED <<srv, aceptado, envios>>
    BY <1>3, PasoEspera
  <2>1. CASE (Devuelve("false") \/ Devuelve("true")) /\ UNCHANGED ordenes
    BY <1>e, <2>0, <2>1 DEF Devuelve, TipoDialogo
  <2>2. ASSUME NEW n, NEW o \in Ordenes, Avanza(o, n) PROVE TipoDialogo'
    <3>1. ordenes' \in Seq(Ordenes)
      BY <2>2, Sale DEF Avanza
    <3>2. QED
      BY <2>0, <2>2, <3>1 DEF Avanza, TipoDialogo
  <2>3. ASSUME NEW n, paso \in Ordenes \ {"quit"}, Avanza(Sigue(paso), n)
        PROVE  TipoDialogo'
    BY <2>2, <2>3, SigueTipo
  <2>4. \/ Fracasa
        \/ paso = "quit" /\ Devuelve("true") /\ UNCHANGED ordenes
        \/ paso = "ehlo" /\ \E n \in 0 .. Len(Cadena) : Avanza("helo", n)
        \/ /\ paso \in Ordenes \ {"quit"}
           /\ \E n \in 1 .. Len(Cadena) :
                Cadena[n].codigo = Espera[paso] /\ Avanza(Sigue(paso), n)
    BY <1>3, PasoEspera
  <2>5. QED
    BY <1>s, <2>1, <2>2, <2>3, <2>4 DEF Fracasa
<1>4. CASE AtiendeOrden \/ AtiendeCuerpo
  <2>1. red' \in Seq(Linea) /\ ordenes' \in Seq(Ordenes)
    BY <1>4, PasoServidor, Llega DEF Crece
  <2>2. srv' \in {"orden", "datos", "fin"} /\ aceptado' \in Nat
    <3>1. \/ UNCHANGED aceptado /\ srv' \in {"orden", "datos", "fin"}
          \/ UNCHANGED aceptado /\ UNCHANGED srv
          \/ srv' = "orden" /\ aceptado' = aceptado + 1
      BY <1>4, PasoServidor
    <3>2. QED
      BY <3>1 DEF TipoDialogo
  <2>3. UNCHANGED <<paso, auth, abierta, buf, resultado, envios>>
    BY <1>4 DEF AtiendeOrden, AtiendeCuerpo
  <2>4. QED
    BY <2>1, <2>2, <2>3 DEF TipoDialogo
<1>5. CASE Corte
  BY <1>5, CorteAcorta DEF Corte, TipoDialogo
<1>6. CASE UNCHANGED varsCorreo
  BY <1>6 DEF varsCorreo, TipoDialogo
<1>7. QED
  BY <1>1, <1>2, <1>3, <1>4, <1>5, <1>6 DEF NextCorreo, PasoCorreo, Entorno

-----------------------------------------------------------------------------
(* The text goes only to a server that waits for it.                       *)

HayDatos == \E j \in 1 .. Len(Cadena) : Cadena[j].codigo = 354

\* DATA is the last command on its way while its reply is awaited; that reply
\* alone has the code 354, and when it is here, or the server waits for the
\* text, nothing else is on its way.
DInv ==
  /\ TipoDialogo
  /\ CuerpoEsperado
  /\ paso \in {"libre", "conecta"} => ~abierta /\ buf = <<>> /\ red = <<>>
  /\ paso = "conecta" => ordenes = <<>>
  /\ \A k \in 1 .. Len(ordenes) :
       ordenes[k] = "data" => k = Len(ordenes) /\ paso \in {"data", "libre"}
  /\ paso = "data" /\ HayDatos => srv = "datos"
  /\ paso = "data" /\ srv = "datos" => ordenes = <<>>
  /\ HayDatos => paso \in {"data", "cuerpo", "quit"}
  /\ srv = "datos" => paso \in {"data", "cuerpo", "quit", "libre"}

LEMMA SigueCasos ==
  ASSUME NEW o \in Ordenes \ {"quit"}
  PROVE  \/ o = "data" /\ Sigue(o) = "cuerpo"
         \/ o = "rcpt" /\ Sigue(o) = "data"
         \/ o = "cuerpo" /\ Sigue(o) = "quit"
         \/ /\ o \notin {"data", "rcpt", "cuerpo", "quit"}
            /\ Sigue(o) \in Ordenes \ {"data", "cuerpo", "quit"}
BY EsperaTipo DEF Sigue

\* Reading only takes lines away.
LEMMA AvanzaDatos ==
  ASSUME TipoDialogo, NEW o, NEW n, Avanza(o, n), HayDatos'
  PROVE  HayDatos
<1>1. PICK j \in 1 .. Len(Cadena') : Cadena'[j].codigo = 354
  BY DEF HayDatos
<1>t. /\ Len(Cadena) \in Nat /\ n \in 0 .. Len(Cadena)
      /\ Len(Cadena') = Len(Cadena) - n
  BY CadenaTipo DEF Avanza
<1>j. j \in 1 .. Len(Cadena) - n
  BY <1>1, <1>t
<1>2. n + j \in 1 .. Len(Cadena)
  BY <1>j, <1>t
<1>3. Cadena'[j] = Cadena[n + j]
  BY <1>j DEF Avanza
<1>4. QED
  BY <1>1, <1>2, <1>3 DEF HayDatos

LEMMA CreceDatos ==
  ASSUME TipoDialogo, NEW c, Crece(c), HayDatos'
  PROVE  HayDatos \/ (abierta /\ c = 354)
<1>1. PICK j \in 1 .. Len(Cadena') : Cadena'[j].codigo = 354
  BY DEF HayDatos
<1>2. Len(Cadena) \in Nat /\ Len(Cadena') \in Nat
  BY CadenaTipo DEF Crece
<1>3. CASE ~abierta
  BY <1>1, <1>3 DEF Crece, HayDatos
<1>4. CASE j \in 1 .. Len(Cadena)
  BY <1>1, <1>4 DEF Crece, HayDatos
<1>5. CASE abierta /\ j \in Len(Cadena) + 1 .. Len(Cadena')
  BY <1>1, <1>5 DEF Crece
<1>6. QED
  BY <1>1, <1>2, <1>3, <1>4, <1>5

LEMMA DInvInicial == InitCorreo => DInv
<1> SUFFICES ASSUME InitCorreo PROVE DInv
  OBVIOUS
<1>1. TipoDialogo
  BY TipoInicial
<1>2. Len(ordenes) = 0 /\ DOMAIN ordenes = {} /\ Len(Cadena) = 0
  BY <1>1, CadenaTipo, EmptySeq DEF InitCorreo
<1>3. ~HayDatos /\ CuerpoEsperado
  BY <1>2 DEF HayDatos, CuerpoEsperado
<1>4. QED
  BY <1>1, <1>2, <1>3 DEF DInv, InitCorreo

\* A step of the dialogue: one more command, after n lines.
LEMMA DInvAvanza ==
  ASSUME DInv, NEW o \in Ordenes, NEW n, Avanza(o, n), UNCHANGED srv, TipoDialogo',
         paso \in Ordenes,
         \/ paso = "ehlo" /\ o = "helo"
         \/ /\ paso \in Ordenes \ {"quit"} /\ o = Sigue(paso)
            /\ paso = "data" => HayDatos
  PROVE  DInv'
<1>t. TipoDialogo
  BY DEF DInv
<1>s. /\ Len(ordenes) \in Nat /\ Len(ordenes') = Len(ordenes) + 1
      /\ ordenes'[Len(ordenes) + 1] = o
      /\ \A j \in 1 .. Len(ordenes) : ordenes'[j] = ordenes[j]
      /\ DOMAIN ordenes = 1 .. Len(ordenes) /\ DOMAIN ordenes' = 1 .. Len(ordenes')
  BY <1>t, Sale DEF Avanza, TipoDialogo
<1>c. \/ paso = "data" /\ o = "cuerpo" /\ HayDatos
      \/ paso = "rcpt" /\ o = "data"
      \/ paso = "cuerpo" /\ o = "quit"
      \/ paso \notin {"data", "rcpt", "cuerpo", "quit"} /\ o \notin {"data", "cuerpo", "quit"}
  BY SigueCasos
<1>l. "libre" \notin Ordenes /\ "conecta" \notin Ordenes
  BY DEF Ordenes, Espera
<1>1. paso' = o /\ o \notin {"libre", "conecta"} /\ paso # "libre"
  BY <1>l DEF Avanza
<1>2. CuerpoEsperado'
  <2>1. CASE o = "cuerpo"
    <3>1. srv = "datos" /\ Len(ordenes) = 0
      BY <1>c, <2>1, EmptySeq DEF DInv
    <3>2. QED
      BY <1>s, <3>1 DEF CuerpoEsperado
  <2>2. CASE o # "cuerpo"
    <3>1. ASSUME NEW k \in 1 .. Len(ordenes'), ordenes'[k] = "cuerpo"
          PROVE  k \in 1 .. Len(ordenes) /\ ordenes[k] = "cuerpo"
      BY <1>s, <2>2, <3>1
    <3>2. QED
      BY <1>s, <3>1 DEF CuerpoEsperado, DInv
  <2>3. QED
    BY <2>1, <2>2
<1>3. ASSUME NEW k \in 1 .. Len(ordenes'), ordenes'[k] = "data"
      PROVE  k = Len(ordenes') /\ o = "data"
  <2>1. CASE k = Len(ordenes) + 1
    BY <1>s, <1>3, <2>1
  <2>2. CASE k \in 1 .. Len(ordenes)
    <3>1. ordenes[k] = "data" /\ paso = "data"
      BY <1>s, <1>1, <1>3, <2>2 DEF DInv
    <3>2. ordenes = <<>>
      BY <1>c, <3>1 DEF DInv
    <3>3. QED
      BY <2>2, <3>2, EmptySeq
  <2>3. QED
    BY <1>s, <2>1, <2>2
<1>4. (HayDatos' \/ srv' = "datos") => o \in {"cuerpo", "quit"}
  <2>1. HayDatos' => HayDatos
    BY <1>t, AvanzaDatos
  <2>2. HayDatos \/ srv = "datos" => paso \in {"data", "cuerpo", "quit"}
    BY <1>1 DEF DInv
  <2>3. QED
    BY <1>c, <2>1, <2>2
<1>5. QED
  BY <1>1, <1>2, <1>3, <1>4 DEF DInv

LEMMA DInvServidor ==
  ASSUME DInv, TipoDialogo', AtiendeOrden \/ AtiendeCuerpo
  PROVE  DInv'
<1>t. TipoDialogo
  BY DEF DInv
<1>1. PICK c \in {Espera[o] : o \in Ordenes} \cup {Rechazo} :
        /\ Crece(c)
        /\ ordenes # <<>> /\ ordenes' = Tail(ordenes)
        /\ UNCHANGED <<paso, auth, abierta, buf, resultado, envios>>
        /\ \/ /\ srv = "orden" /\ Head(ordenes) # "cuerpo"
              /\ UNCHANGED aceptado
              /\ \/ c = Rechazo /\ UNCHANGED srv
                 \/ /\ c = Espera[Head(ordenes)]
                    /\ srv' \in {"orden", "datos", "fin"}
                    /\ srv' = "datos" <=> Head(ordenes) = "data"
           \/ /\ srv = "datos" /\ Head(ordenes) = "cuerpo" /\ srv' = "orden"
              /\ \/ c = Espera.cuerpo /\ aceptado' = aceptado + 1
                 \/ c = Rechazo /\ UNCHANGED aceptado
  BY <1>t, PasoServidor
<1>s. /\ Head(ordenes) \in Ordenes /\ Head(ordenes) = ordenes[1]
      /\ Len(ordenes') = Len(ordenes) - 1 /\ Len(ordenes) \in Nat \ {0}
      /\ \A j \in 1 .. Len(ordenes') : ordenes'[j] = ordenes[j + 1]
      /\ DOMAIN ordenes = 1 .. Len(ordenes) /\ DOMAIN ordenes' = 1 .. Len(ordenes')
      /\ ordenes \in Seq(Ordenes) /\ ordenes' \in Seq(Ordenes)
  BY <1>t, <1>1, Llega DEF TipoDialogo
<1>2. CuerpoEsperado'
  <2>1. \A k \in 1 .. Len(ordenes') : ordenes'[k] # "cuerpo"
    BY <1>s DEF CuerpoEsperado, DInv
  <2>2. QED
    BY <1>s, <2>1 DEF CuerpoEsperado
<1>3. c = 354 \/ srv' = "datos" =>
        /\ Head(ordenes) = "data" /\ srv' = "datos"
        /\ Len(ordenes) = 1 /\ paso \in {"data", "libre"}
  <2>1. c = 354 \/ srv' = "datos" => Head(ordenes) = "data" /\ srv' = "datos"
    BY <1>1, <1>s, EsperaTipo, SMTT(30) DEF Rechazo
  <2>2. QED
    BY <1>s, <2>1 DEF DInv
<1>4. Len(ordenes) = 1 => ordenes' = <<>>
  BY <1>s, EmptySeq
<1>5. HayDatos' => HayDatos \/ (abierta /\ c = 354)
  BY <1>t, <1>1, CreceDatos
<1>6. paso = "data" => ~HayDatos /\ srv # "datos"
  BY <1>1 DEF DInv
<1>7. /\ paso = "data" /\ HayDatos' => srv' = "datos"
      /\ paso = "data" /\ srv' = "datos" => ordenes' = <<>>
      /\ HayDatos' => paso \in {"data", "cuerpo", "quit"}
      /\ srv' = "datos" => paso \in {"data", "libre"}
  BY <1>3, <1>4, <1>5, <1>6 DEF DInv
<1>8. \A k \in 1 .. Len(ordenes') :
        ordenes'[k] = "data" => k = Len(ordenes') /\ paso \in {"data", "libre"}
  BY <1>s DEF DInv
<1>9. paso \in {"libre", "conecta"} => ~abierta /\ buf = <<>> /\ red' = <<>>
  <2>1. ASSUME paso \in {"libre", "conecta"} PROVE red' = <<>>
    BY <1>1, <2>1 DEF DInv, AtiendeOrden, AtiendeCuerpo, Responde
  <2>2. QED
    BY <2>1 DEF DInv
<1>10. paso # "conecta"
  BY <1>1 DEF DInv
<1>11. QED
  BY <1>1, <1>2, <1>7, <1>8, <1>9, <1>10 DEF DInv

LEMMA DInvSigue == DInv /\ [NextCorreo]_varsCorreo => DInv'
<1> SUFFICES ASSUME DInv, [NextCorreo]_varsCorreo PROVE DInv'
  OBVIOUS
<1>t. TipoDialogo /\ TipoDialogo'
  BY TipoSigue DEF DInv
<1>v. /\ Len(<<>>) = 0 /\ \A s \in Seq(Linea) : s \o <<>> = s
      /\ DOMAIN <<>> = {}
  BY EmptySeq, ConcatEmptySeq
<1>n. buf' = <<>> /\ red' = <<>> => ~HayDatos'
  <2>1. buf' = <<>> /\ red' = <<>> => Cadena' = <<>>
    BY <1>v, EmptySeq DEF Cadena
  <2>2. QED
    BY <1>v, <2>1 DEF HayDatos
<1>1. CASE Enviar
  <2>1. buf' = <<>> /\ red' = <<>> /\ ~abierta'
    BY <1>1 DEF Enviar, DInv
  <2>2. CuerpoEsperado' /\ Len(ordenes') = 0
    BY <1>1, <1>v DEF Enviar, CuerpoEsperado
  <2>3. QED
    BY <1>1, <1>t, <1>n, <2>1, <2>2 DEF Enviar, DInv
<1>2. CASE Conecta
  <2>1. ordenes = <<>> /\ buf = <<>> /\ red = <<>> /\ srv # "datos"
    BY <1>2 DEF Conecta, DInv
  <2>2. buf' = <<>> /\ red' = <<>>
    BY <1>2, <2>1 DEF Conecta, Devuelve
  <2>3. \A k \in 1 .. Len(ordenes') : ordenes'[k] = "saludo"
    BY <1>2, <1>v, <2>1 DEF Conecta, Devuelve
  <2>4. CuerpoEsperado'
    BY <1>t, <2>3 DEF CuerpoEsperado, TipoDialogo
  <2>5. srv' # "datos" /\ (paso' = "libre" => ~abierta') /\ paso' \in {"libre", "saludo"}
    BY <1>2, <2>1 DEF Conecta, Devuelve
  <2>6. QED
    BY <1>t, <1>n, <2>2, <2>3, <2>4, <2>5 DEF DInv
<1>3. CASE Lee \/ SinRespuesta
  <2>0. UNCHANGED srv /\ paso \in Ordenes
    BY <1>3, <1>t, PasoEspera
  <2>1. CASE (Devuelve("false") \/ Devuelve("true")) /\ UNCHANGED ordenes
    <3>1. CuerpoEsperado'
      BY <2>0, <2>1 DEF CuerpoEsperado, DInv
    <3>2. QED
      BY <1>t, <1>n, <2>0, <2>1, <3>1 DEF DInv, Devuelve
  <2>2. ASSUME NEW n, paso = "ehlo", Avanza("helo", n) PROVE DInv'
    <3>1. "helo" \in Ordenes
      BY EsperaTipo
    <3>2. QED
      BY <1>t, <2>0, <2>2, <3>1, DInvAvanza
  <2>3. ASSUME NEW n \in 1 .. Len(Cadena), paso \in Ordenes \ {"quit"},
               Cadena[n].codigo = Espera[paso], Avanza(Sigue(paso), n)
        PROVE  DInv'
    <3>1. paso = "data" => HayDatos
      BY <2>3, EsperaTipo DEF HayDatos
    <3>2. Sigue(paso) \in Ordenes
      BY <2>3, SigueTipo
    <3>3. QED
      BY <1>t, <2>0, <2>3, <3>1, <3>2, DInvAvanza
  <2>4. \/ Fracasa
        \/ paso = "quit" /\ Devuelve("true") /\ UNCHANGED ordenes
        \/ paso = "ehlo" /\ \E n \in 0 .. Len(Cadena) : Avanza("helo", n)
        \/ /\ paso \in Ordenes \ {"quit"}
           /\ \E n \in 1 .. Len(Cadena) :
                Cadena[n].codigo = Espera[paso] /\ Avanza(Sigue(paso), n)
    BY <1>3, <1>t, PasoEspera
  <2>5. QED
    BY <2>1, <2>2, <2>3, <2>4 DEF Fracasa
<1>4. CASE AtiendeOrden \/ AtiendeCuerpo
  BY <1>4, <1>t, DInvServidor
<1>5. CASE Corte
  <2>1. HayDatos' => HayDatos
    BY <1>5, <1>t, CorteAcorta, CadenaTipo DEF HayDatos
  <2>2. paso \notin {"libre", "conecta"} /\ ~abierta'
    BY <1>5 DEF Corte, DInv
  <2>3. UNCHANGED <<paso, ordenes, srv>>
    BY <1>5 DEF Corte
  <2>4. CuerpoEsperado'
    BY <2>3 DEF CuerpoEsperado, DInv
  <2>5. QED
    BY <1>t, <2>1, <2>2, <2>3, <2>4 DEF DInv
<1>6. CASE UNCHANGED varsCorreo
  BY <1>6, <1>t DEF varsCorreo, DInv, HayDatos, Cadena, CuerpoEsperado
<1>7. QED
  BY <1>1, <1>2, <1>3, <1>4, <1>5, <1>6 DEF NextCorreo, PasoCorreo, Entorno

\* The text is on its way only to a server that waits for it: no reply read
\* out of step passes for the reply to DATA.
THEOREM TextoEsperado == SpecCorreo => []CuerpoEsperado
<1>1. DInv => CuerpoEsperado
  BY DEF DInv
<1>2. QED
  BY <1>1, DInvInicial, DInvSigue, PTL DEF SpecCorreo

-----------------------------------------------------------------------------
(* The places of send().                                                   *)

\* The greeting is awaited with nothing else on its way, and no line comes
\* before it: who goes on from there has read it.
Lugar ==
  /\ paso \in {"login", "usuario", "clave"} => auth
  /\ \A k \in 1 .. Len(ordenes) :
       ordenes[k] = "saludo" => Len(ordenes) = 1 /\ paso \in {"saludo", "libre"}
  /\ paso = "saludo" /\ ordenes # <<>> => ordenes[1] = "saludo" /\ Len(Cadena) = 0

LInv == DInv /\ Lugar

LEMMA SigueLugar ==
  ASSUME NEW o \in Ordenes \ {"quit"}
  PROVE  /\ Sigue(o) # "saludo"
         /\ Sigue(o) \in {"login", "usuario", "clave"} => auth \/ o \in {"login", "usuario"}
BY EsperaTipo DEF Sigue

LEMMA LugarInicial == InitCorreo => LInv
<1> SUFFICES ASSUME InitCorreo PROVE LInv
  OBVIOUS
<1>1. DInv /\ Len(ordenes) = 0
  BY DInvInicial, EmptySeq DEF InitCorreo
<1>2. QED
  BY <1>1 DEF LInv, Lugar, InitCorreo

\* A command goes out: the greeting is not on its way any more.
LEMMA LugarAvanza ==
  ASSUME LInv, paso \in Ordenes, NEW o \in Ordenes \ {"saludo"}, NEW n, Avanza(o, n),
         o \in {"login", "usuario", "clave"} => auth,
         paso = "saludo" => n # 0
  PROVE  Lugar'
<1>1. /\ Len(ordenes) \in Nat /\ Len(ordenes') = Len(ordenes) + 1
      /\ ordenes'[Len(ordenes) + 1] = o
      /\ \A j \in 1 .. Len(ordenes) : ordenes'[j] = ordenes[j]
  BY Sale DEF LInv, DInv, Avanza
<1>2. paso' = o /\ auth' = auth
  BY DEF Avanza
<1>3. \A j \in 1 .. Len(ordenes) : ordenes[j] # "saludo"
  <2>1. CASE paso = "saludo"
    <3>1. Len(Cadena) # 0
      BY <2>1, CadenaTipo DEF LInv, DInv, Avanza
    <3>2. Len(ordenes) = 0
      BY <2>1, <3>1, EmptySeq DEF LInv, Lugar
    <3>3. QED
      BY <3>2
  <2>2. CASE paso # "saludo"
    <3>1. paso # "libre"
      BY EsperaTipo
    <3>2. QED
      BY <2>2, <3>1 DEF LInv, Lugar
  <2>3. QED
    BY <2>1, <2>2
<1>4. \A j \in 1 .. Len(ordenes') : ordenes'[j] # "saludo"
  BY <1>1, <1>3
<1>5. QED
  BY <1>2, <1>4 DEF Lugar

LEMMA LugarSigue == LInv /\ [NextCorreo]_varsCorreo => LInv'
<1> SUFFICES ASSUME LInv, [NextCorreo]_varsCorreo PROVE Lugar'
  BY DInvSigue DEF LInv
<1>t. TipoDialogo /\ TipoDialogo' /\ Len(<<>>) = 0
  BY TipoSigue, EmptySeq DEF LInv, DInv
<1>1. CASE Enviar
  BY <1>1, <1>t DEF Enviar, Lugar
<1>2. CASE Conecta
  <2>1. ordenes = <<>> /\ buf = <<>> /\ red = <<>>
    BY <1>2 DEF Conecta, LInv, DInv
  <2>2. CASE Devuelve("false") /\ UNCHANGED <<ordenes, srv>>
    BY <1>t, <2>1, <2>2 DEF Devuelve, Lugar
  <2>3. CASE /\ paso' = "saludo" /\ abierta' = TRUE
             /\ ordenes' = <<"saludo">> /\ srv' = "orden"
             /\ UNCHANGED <<auth, red, buf, resultado>>
    <3>1. Cadena' = <<>>
      BY <1>t, <2>1, <2>3, ConcatEmptySeq DEF Cadena, TipoDialogo
    <3>2. Len(ordenes') = 1 /\ ordenes'[1] = "saludo"
      BY <2>3
    <3>3. QED
      BY <1>t, <2>3, <3>1, <3>2 DEF Lugar
  <2>4. QED
    BY <1>2, <2>2, <2>3 DEF Conecta
<1>3. CASE Lee \/ SinRespuesta
  <2>0. paso \in Ordenes
    BY <1>3, <1>t, PasoEspera
  <2>1. CASE (Devuelve("false") \/ Devuelve("true")) /\ UNCHANGED ordenes
    BY <2>1 DEF Devuelve, LInv, Lugar
  <2>2. ASSUME NEW n, paso = "ehlo", Avanza("helo", n) PROVE Lugar'
    BY <2>0, <2>2, EsperaTipo, LugarAvanza
  <2>3. ASSUME NEW n \in 1 .. Len(Cadena), paso \in Ordenes \ {"quit"}, Avanza(Sigue(paso), n)
        PROVE  Lugar'
    <3>1. Sigue(paso) \in Ordenes \ {"saludo"} /\ n # 0
      BY <2>3, SigueTipo, SigueLugar
    <3>2. Sigue(paso) \in {"login", "usuario", "clave"} => auth
      BY <2>3, SigueLugar DEF LInv, Lugar
    <3>3. QED
      BY <2>0, <2>3, <3>1, <3>2, LugarAvanza
  <2>4. \/ Fracasa
        \/ paso = "quit" /\ Devuelve("true") /\ UNCHANGED ordenes
        \/ paso = "ehlo" /\ \E n \in 0 .. Len(Cadena) : Avanza("helo", n)
        \/ /\ paso \in Ordenes \ {"quit"}
           /\ \E n \in 1 .. Len(Cadena) :
                Cadena[n].codigo = Espera[paso] /\ Avanza(Sigue(paso), n)
    BY <1>3, <1>t, PasoEspera
  <2>5. QED
    BY <2>1, <2>2, <2>3, <2>4 DEF Fracasa
<1>4. CASE AtiendeOrden \/ AtiendeCuerpo
  <2>1. /\ ordenes # <<>> /\ ordenes' = Tail(ordenes)
        /\ UNCHANGED <<paso, auth>>
    BY <1>4 DEF AtiendeOrden, AtiendeCuerpo
  <2>2. /\ Len(ordenes') = Len(ordenes) - 1 /\ Len(ordenes) \in Nat \ {0}
        /\ \A j \in 1 .. Len(ordenes') : ordenes'[j] = ordenes[j + 1]
        /\ ordenes' \in Seq(Ordenes)
    BY <1>t, <2>1, Llega
  <2>3. ASSUME NEW j \in 1 .. Len(ordenes'), ordenes'[j] = "saludo" PROVE FALSE
    <3>1. j + 1 \in 1 .. Len(ordenes) /\ Len(ordenes) # 1
      BY <2>2
    <3>2. ordenes[j + 1] = "saludo"
      BY <2>2, <2>3
    <3>3. QED
      BY <3>1, <3>2 DEF LInv, Lugar
  <2>4. paso = "saludo" => ordenes' = <<>>
    <3> SUFFICES ASSUME paso = "saludo" PROVE ordenes' = <<>>
      OBVIOUS
    <3>1. Len(ordenes') = Len(ordenes) - 1 /\ Len(ordenes) \in Nat \ {0}
      BY <2>2
    <3>2. 1 \in 1 .. Len(ordenes)
      BY <3>1
    <3>3. Len(ordenes) = 1
      BY <2>1, <3>2 DEF LInv, Lugar
    <3>4. Len(ordenes') = 0
      BY <3>1, <3>3
    <3>5. QED
      BY <2>2, <3>4, EmptySeq
  <2>5. QED
    BY <2>1, <2>3, <2>4 DEF LInv, Lugar
<1>5. CASE Corte
  <2>1. Len(Cadena) = 0 => Len(Cadena') = 0
    BY <1>5, <1>t, CorteAcorta
  <2>2. UNCHANGED <<paso, auth, ordenes>>
    BY <1>5 DEF Corte
  <2>3. QED
    BY <2>1, <2>2 DEF LInv, Lugar
<1>6. CASE UNCHANGED varsCorreo
  BY <1>6 DEF varsCorreo, LInv, Lugar, Cadena
<1>7. QED
  BY <1>1, <1>2, <1>3, <1>4, <1>5, <1>6 DEF NextCorreo, PasoCorreo, Entorno

\* Every variable keeps to the values its type in the code allows, and a place
\* of send() to what got it there: no socket before the connection and after
\* the return, a login only with a user, and the greeting read before anything
\* is sent.
THEOREM CorreoTypeCorrect == SpecCorreo => []TipoCorreo
<1>1. LInv => TipoCorreo
  BY DEF LInv, DInv, Lugar, TipoCorreo, TipoLugar, TipoDialogo
<1>2. QED
  BY <1>1, LugarInicial, LugarSigue, PTL DEF SpecCorreo

-----------------------------------------------------------------------------
(* The promise of MailDelivery.                                            *)

\* While the reply to the text is awaited and the message is not taken, the
\* lines here answer DATA or refuse the text: none can pass for acceptance.
EInv ==
  /\ DInv
  /\ aceptado \in {0, 1}
  /\ \A k \in 1 .. Len(ordenes) :
       ordenes[k] = "cuerpo" => aceptado = 0 /\ paso \in {"cuerpo", "quit", "libre"}
  /\ aceptado # 0 => paso \in {"cuerpo", "quit", "libre"}
  /\ paso = "quit" => aceptado = 1
  /\ paso # "libre" => resultado = "ninguno"
  /\ paso = "cuerpo" /\ aceptado = 0 =>
       \A j \in 1 .. Len(Cadena) : Cadena[j].codigo \in {354, 550}
  /\ paso = "data" =>
       \A i, j \in 1 .. Len(Cadena) :
         i < j /\ Cadena[i].codigo = 354 => Cadena[j].codigo = 354
  /\ paso = "cuerpo" => \A k \in 1 .. Len(ordenes) : ordenes[k] = "cuerpo"

LEMMA EInvInicial == InitCorreo => EInv
<1> SUFFICES ASSUME InitCorreo PROVE EInv
  OBVIOUS
<1>1. DInv
  BY DInvInicial
<1>2. Len(ordenes) = 0
  BY EmptySeq DEF InitCorreo
<1>3. QED
  BY <1>1, <1>2 DEF EInv, InitCorreo

LEMMA EInvAvanza ==
  ASSUME EInv, NEW o \in Ordenes, NEW n \in 0 .. Len(Cadena), Avanza(o, n),
         UNCHANGED aceptado, DInv', paso \in Ordenes,
         \/ paso = "ehlo" /\ o = "helo"
         \/ /\ paso \in Ordenes \ {"quit"} /\ o = Sigue(paso)
            /\ n \in 1 .. Len(Cadena) /\ Cadena[n].codigo = Espera[paso]
  PROVE  EInv'
<1>t. TipoDialogo
  BY DEF EInv, DInv
<1>s. /\ Len(ordenes) \in Nat /\ Len(ordenes') = Len(ordenes) + 1
      /\ ordenes'[Len(ordenes) + 1] = o
      /\ \A j \in 1 .. Len(ordenes) : ordenes'[j] = ordenes[j]
  BY <1>t, Sale DEF Avanza
<1>l. "libre" \notin Ordenes
  BY DEF Ordenes, Espera
<1>p. paso' = o /\ o # "libre" /\ paso # "libre" /\ resultado' = "ninguno"
  BY <1>l DEF Avanza, EInv
<1>d. /\ Len(Cadena) \in Nat /\ Len(Cadena') = Len(Cadena) - n
      /\ \A j \in 1 .. Len(Cadena') : Cadena'[j] = Cadena[n + j]
  BY <1>t, CadenaTipo DEF Avanza
<1>1. CASE paso = "data" /\ o = "cuerpo" /\ n \in 1 .. Len(Cadena) /\ Cadena[n].codigo = 354
  <2>1. HayDatos
    BY <1>1 DEF HayDatos
  <2>2. ordenes = <<>> /\ Len(ordenes) = 0 /\ aceptado = 0
    BY <1>1, <2>1, EmptySeq DEF EInv, DInv
  <2>3. ASSUME NEW j \in 1 .. Len(Cadena') PROVE Cadena'[j].codigo = 354
    <3>1. n + j \in 1 .. Len(Cadena) /\ n < n + j
      BY <1>1, <1>d
    <3>2. Cadena[n + j].codigo = 354
      BY <1>1, <3>1 DEF EInv
    <3>3. QED
      BY <1>d, <3>2
  <2>4. \A k \in 1 .. Len(ordenes') : ordenes'[k] = "cuerpo"
    BY <1>s, <1>1, <2>2
  <2>5. QED
    BY <1>p, <1>1, <2>2, <2>3, <2>4 DEF EInv
<1>2. CASE paso = "cuerpo" /\ o = "quit" /\ n \in 1 .. Len(Cadena) /\ Cadena[n].codigo = 250
  <2>1. aceptado = 1
    BY <1>2 DEF EInv
  <2>2. \A k \in 1 .. Len(ordenes') : ordenes'[k] # "cuerpo"
    BY <1>s, <1>2, <2>1 DEF EInv
  <2>3. QED
    BY <1>p, <1>2, <2>1, <2>2 DEF EInv
<1>3. CASE /\ paso \notin {"data", "cuerpo", "quit"}
           /\ o \notin {"cuerpo", "quit"}
  <2>1. aceptado = 0
    BY <1>p, <1>3 DEF EInv
  <2>2. \A k \in 1 .. Len(ordenes') : ordenes'[k] # "cuerpo"
    BY <1>s, <1>p, <1>3 DEF EInv
  <2>3. ~HayDatos
    BY <1>3 DEF EInv, DInv
  <2>4. ~HayDatos'
    BY <1>t, <2>3, AvanzaDatos
  <2>5. \A j \in 1 .. Len(Cadena') : Cadena'[j].codigo # 354
    BY <2>4 DEF HayDatos
  <2>6. QED
    BY <1>p, <1>3, <2>1, <2>2, <2>5 DEF EInv
<1>4. \/ paso = "data" /\ o = "cuerpo"
      \/ paso = "rcpt" /\ o = "data"
      \/ paso = "cuerpo" /\ o = "quit"
      \/ paso \notin {"data", "rcpt", "cuerpo", "quit"} /\ o \notin {"data", "cuerpo", "quit"}
  BY SigueCasos
<1>5. Espera["data"] = 354 /\ Espera["cuerpo"] = 250
  BY DEF Espera
<1>6. QED
  BY <1>1, <1>2, <1>3, <1>4, <1>5

LEMMA EInvServidor ==
  ASSUME EInv, DInv', AtiendeOrden \/ AtiendeCuerpo
  PROVE  EInv' /\ (UNCHANGED aceptado \/ (aceptado = 0 /\ aceptado' = 1))
<1>t. TipoDialogo
  BY DEF EInv, DInv
<1>1. PICK c \in {Espera[o] : o \in Ordenes} \cup {Rechazo} :
        /\ Crece(c)
        /\ ordenes # <<>> /\ ordenes' = Tail(ordenes)
        /\ UNCHANGED <<paso, auth, abierta, buf, resultado, envios>>
        /\ \/ /\ srv = "orden" /\ Head(ordenes) # "cuerpo"
              /\ UNCHANGED aceptado
              /\ \/ c = Rechazo /\ UNCHANGED srv
                 \/ /\ c = Espera[Head(ordenes)]
                    /\ srv' \in {"orden", "datos", "fin"}
                    /\ srv' = "datos" <=> Head(ordenes) = "data"
           \/ /\ srv = "datos" /\ Head(ordenes) = "cuerpo" /\ srv' = "orden"
              /\ \/ c = Espera.cuerpo /\ aceptado' = aceptado + 1
                 \/ c = Rechazo /\ UNCHANGED aceptado
  BY <1>t, PasoServidor
<1>s. /\ Head(ordenes) = ordenes[1]
      /\ Len(ordenes') = Len(ordenes) - 1 /\ Len(ordenes) \in Nat \ {0}
      /\ \A j \in 1 .. Len(ordenes') : ordenes'[j] = ordenes[j + 1]
      /\ DOMAIN ordenes = 1 .. Len(ordenes)
  BY <1>t, <1>1, Llega DEF TipoDialogo
<1>2. \A k \in 1 .. Len(ordenes') : ordenes'[k] # "cuerpo"
  BY <1>s DEF EInv, DInv, CuerpoEsperado
<1>3. Head(ordenes) = "cuerpo" => aceptado = 0 /\ paso \in {"cuerpo", "quit", "libre"}
  BY <1>s DEF EInv
<1>4. \/ UNCHANGED aceptado
      \/ aceptado = 0 /\ aceptado' = 1 /\ paso \in {"cuerpo", "libre"}
  <2>1. paso = "quit" => aceptado = 1
    BY DEF EInv
  <2>2. QED
    BY <1>1, <1>3, <2>1
<1>5. paso = "cuerpo" => Head(ordenes) = "cuerpo"
  BY <1>s DEF EInv
<1>d. /\ Len(Cadena) \in Nat /\ Len(Cadena') \in Nat
      /\ \A j \in 1 .. Len(Cadena) : Cadena'[j] = Cadena[j]
      /\ \A j \in Len(Cadena) + 1 .. Len(Cadena') : Cadena'[j].codigo = c
  BY <1>t, <1>1, CadenaTipo DEF Crece
<1>6. ASSUME paso = "cuerpo", aceptado' = 0
      PROVE  \A j \in 1 .. Len(Cadena') : Cadena'[j].codigo \in {354, 550}
  <2>1. aceptado = 0 /\ c = 550
    BY <1>1, <1>4, <1>5, <1>6 DEF Rechazo
  <2>2. \A j \in 1 .. Len(Cadena) : Cadena[j].codigo \in {354, 550}
    BY <1>6, <2>1 DEF EInv
  <2>3. QED
    BY <1>d, <2>1, <2>2
<1>7. ASSUME paso = "data", NEW i \in 1 .. Len(Cadena'), NEW j \in 1 .. Len(Cadena'),
             i < j, Cadena'[i].codigo = 354
      PROVE  Cadena'[j].codigo = 354
  <2>1. ~HayDatos
    BY <1>1, <1>7 DEF EInv, DInv
  <2>2. i \notin 1 .. Len(Cadena)
    BY <1>d, <1>7, <2>1 DEF HayDatos
  <2>3. i \in Len(Cadena) + 1 .. Len(Cadena') /\ j \in Len(Cadena) + 1 .. Len(Cadena')
    BY <1>d, <1>7, <2>2
  <2>4. QED
    BY <1>d, <1>7, <2>3
<1>8. UNCHANGED <<paso, resultado>>
  BY <1>1
<1>9. EInv'
  <2>1. /\ aceptado' \in {0, 1}
        /\ aceptado' # 0 => paso \in {"cuerpo", "quit", "libre"}
        /\ paso = "quit" => aceptado' = 1
        /\ paso # "libre" => resultado = "ninguno"
    BY <1>4 DEF EInv
  <2>2. paso = "data" =>
          \A i, j \in 1 .. Len(Cadena') :
            i < j /\ Cadena'[i].codigo = 354 => Cadena'[j].codigo = 354
    BY <1>7
  <2>3. paso = "cuerpo" => \A k \in 1 .. Len(ordenes') : ordenes'[k] = "cuerpo"
    <3>1. paso = "cuerpo" => Len(ordenes') = 0
      BY <1>s, <1>2 DEF EInv
    <3>2. QED
      BY <3>1
  <2>4. QED
    BY <1>2, <1>6, <1>8, <2>1, <2>2, <2>3 DEF EInv
<1>10. QED
  BY <1>4, <1>9

\* What a step of the detailed specification does to the promise's variables.
LEMMA EInvSigue ==
  ASSUME EInv, [NextCorreo]_varsCorreo
  PROVE  EInv' /\ [Entrega!MDNext]_<<resultado, aceptado>>
<1> USE DEF Entrega!MDNext, Entrega!MDEmpieza, Entrega!MDAcepta, Entrega!MDTermina
<1>t. TipoDialogo /\ DInv /\ DInv'
  BY DInvSigue DEF EInv, DInv
<1>v. Len(<<>>) = 0
  BY EmptySeq
<1>1. CASE Enviar
  <2>1. Len(ordenes') = 0
    BY <1>1, <1>v DEF Enviar
  <2>2. EInv'
    BY <1>1, <1>t, <2>1 DEF Enviar, EInv
  <2>3. QED
    BY <1>1, <2>2 DEF Enviar
<1>2. CASE Conecta
  <2>1. ordenes = <<>> /\ aceptado = 0 /\ resultado = "ninguno"
    BY <1>2 DEF Conecta, EInv, DInv
  <2>2. \A k \in 1 .. Len(ordenes') : ordenes'[k] # "cuerpo"
    BY <1>2, <1>v, <2>1 DEF Conecta, Devuelve
  <2>3. /\ aceptado' = 0 /\ paso' \in {"libre", "saludo"}
        /\ (paso' = "libre" /\ resultado' = "false") \/ (paso' # "libre" /\ UNCHANGED resultado)
    BY <1>2, <2>1 DEF Conecta, Devuelve
  <2>4. EInv'
    BY <1>t, <2>1, <2>2, <2>3 DEF EInv
  <2>5. QED
    BY <2>1, <2>3, <2>4
<1>3. CASE Lee \/ SinRespuesta
  <2>0. UNCHANGED aceptado /\ paso \in Ordenes
    BY <1>3, <1>t, PasoEspera
  <2>l. paso # "libre" /\ resultado = "ninguno"
    <3>1. "libre" \notin Ordenes
      BY DEF Ordenes, Espera
    <3>2. QED
      BY <2>0, <3>1 DEF EInv
  <2>1. CASE /\ Devuelve("false") \/ (paso = "quit" /\ Devuelve("true"))
             /\ UNCHANGED ordenes
    <3>1. EInv'
      BY <1>t, <2>0, <2>1, <2>l DEF EInv, Devuelve
    <3>2. [Entrega!MDNext]_<<resultado, aceptado>>
      BY <2>0, <2>1, <2>l DEF EInv, Devuelve
    <3>3. QED
      BY <3>1, <3>2
  <2>2. ASSUME NEW n \in 0 .. Len(Cadena), paso = "ehlo", Avanza("helo", n)
        PROVE  EInv' /\ UNCHANGED <<resultado, aceptado>>
    <3>1. "helo" \in Ordenes
      BY EsperaTipo
    <3>2. EInv'
      BY <1>t, <2>0, <2>2, <3>1, EInvAvanza
    <3>3. QED
      BY <2>0, <2>2, <3>2 DEF Avanza
  <2>3. ASSUME NEW n \in 1 .. Len(Cadena), paso \in Ordenes \ {"quit"},
               Cadena[n].codigo = Espera[paso], Avanza(Sigue(paso), n)
        PROVE  EInv' /\ UNCHANGED <<resultado, aceptado>>
    <3>1. n \in 0 .. Len(Cadena)
      OBVIOUS
    <3>2. Sigue(paso) \in Ordenes
      BY <2>3, SigueTipo
    <3>3. EInv'
      BY <1>t, <2>0, <2>3, <3>1, <3>2, EInvAvanza
    <3>4. QED
      BY <2>0, <2>3, <3>3 DEF Avanza
  <2>4. \/ Fracasa
        \/ paso = "quit" /\ Devuelve("true") /\ UNCHANGED ordenes
        \/ paso = "ehlo" /\ \E n \in 0 .. Len(Cadena) : Avanza("helo", n)
        \/ /\ paso \in Ordenes \ {"quit"}
           /\ \E n \in 1 .. Len(Cadena) :
                Cadena[n].codigo = Espera[paso] /\ Avanza(Sigue(paso), n)
    BY <1>3, <1>t, PasoEspera
  <2>5. QED
    BY <2>1, <2>2, <2>3, <2>4 DEF Fracasa
<1>4. CASE AtiendeOrden \/ AtiendeCuerpo
  <2>1. UNCHANGED resultado
    BY <1>4 DEF AtiendeOrden, AtiendeCuerpo
  <2>2. EInv' /\ (UNCHANGED aceptado \/ (aceptado = 0 /\ aceptado' = 1))
    BY <1>4, <1>t, EInvServidor
  <2>3. QED
    BY <2>1, <2>2
<1>5. CASE Corte
  <2>1. UNCHANGED <<paso, ordenes, resultado, aceptado>>
    BY <1>5 DEF Corte
  <2>2. /\ Len(Cadena') \in 0 .. Len(Cadena) /\ Len(Cadena) \in Nat
        /\ \A j \in 1 .. Len(Cadena') : Cadena'[j] = Cadena[j]
    BY <1>5, <1>t, CorteAcorta, CadenaTipo
  <2>3. \A j \in 1 .. Len(Cadena') : j \in 1 .. Len(Cadena)
    BY <2>2
  <2>4. EInv'
    BY <1>t, <2>1, <2>2, <2>3 DEF EInv
  <2>5. QED
    BY <2>1, <2>4
<1>6. CASE UNCHANGED varsCorreo
  <2>1. UNCHANGED <<paso, ordenes, resultado, aceptado, red, buf>>
    BY <1>6 DEF varsCorreo
  <2>2. UNCHANGED Cadena
    BY <2>1 DEF Cadena
  <2>3. EInv'
    BY <1>t, <2>1, <2>2 DEF EInv
  <2>4. QED
    BY <2>1, <2>3
<1>7. QED
  BY <1>1, <1>2, <1>3, <1>4, <1>5, <1>6 DEF NextCorreo, PasoCorreo, Entorno

\* send() returns true only for a message that the server has taken, and the
\* server takes it once at most: every step of the dialogue is a step of
\* MailDelivery, or changes nothing that it promises.
THEOREM CorreoImplementaEntrega == SpecCorreo => CumpleEntrega
<1>1. InitCorreo => Entrega!MDInit
  BY DEF InitCorreo, Entrega!MDInit
<1>2. EInv /\ [NextCorreo]_varsCorreo => EInv' /\ [Entrega!MDNext]_<<resultado, aceptado>>
  BY EInvSigue
<1>3. QED
  BY <1>1, <1>2, EInvInicial, PTL DEF SpecCorreo, CumpleEntrega, Entrega!MDSpec
=============================================================================
