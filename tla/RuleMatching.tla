---------------------------- MODULE RuleMatching ----------------------------
(***************************************************************************)
(* What the rule list promises, as its headers tell it: every announcement *)
(* is judged against one state of the list, on one day; every RPC takes    *)
(* effect at once; a title accepted is not accepted again while it is      *)
(* among the last Ventana accepted ones.  SharedRules is the code, thread  *)
(* by thread; SerialRules says which of its executions keep this promise.  *)
(*                                                                         *)
(* There is no list of recent titles here: the promise is about the        *)
(* history `aceptados`, which never forgets.                               *)
(***************************************************************************)
EXTENDS RuleList

CONSTANTS
  MaxRecientes,     \* 30 in miraTitulo
  ListasIniciales,  \* the lists readSettings may load
  HoyInicial,       \* the day the program starts
  SinAnuncio        \* no announcement was just judged

VARIABLES
  lista,       \* the rules, in order
  hoy,         \* QDate::currentDate()
  aceptados,   \* every upload downloaded or notified, oldest first
  anuncio,     \* the announcement just judged, or SinAnuncio
  resultado    \* its MatchResult, or "Ninguno"

amVars == <<lista, hoy, aceptados, anuncio, resultado>>

\* recientes is cut to MaxRecientes before an append: it holds one more.
Ventana == MaxRecientes + 1

\* The titles of the last n entries of the history h.
UltimosTitulos(h, n) ==
  {h[k].titulo : k \in {j \in DOMAIN h : j > Len(h) - n}}

\* The rule k is the one that decides on a: no rule before it stops the
\* scan, and what has expired before it is gone from the list.
Decide(k, a) ==
  /\ Acierta(lista[k], a, hoy)
  /\ ~Caducada(lista[k], hoy)
  /\ \A j \in 1 .. k - 1 : ~Acierta(lista[j], a, hoy) /\ ~Caducada(lista[j], hoy)

Aceptado(a, k, valor) ==
  [titulo |-> a.titulo, uid |-> lista[k].uid, dia |-> hoy,
   dias |-> lista[k].dias, valor |-> valor]

-----------------------------------------------------------------------------
AMInit ==
  /\ lista \in ListasIniciales
  /\ hoy = HoyInicial
  /\ aceptados = <<>>
  /\ anuncio = SinAnuncio /\ resultado = "Ninguno"

Resuelve(a, valor) ==
  /\ resultado = "Ninguno"
  /\ anuncio' = a /\ resultado' = valor

\* The verdict on an announcement is given once, and done with.
AMVuelve ==
  /\ resultado # "Ninguno"
  /\ anuncio' = SinAnuncio /\ resultado' = "Ninguno"
  /\ UNCHANGED <<lista, hoy, aceptados>>

AMYaVisto(a) ==
  /\ a.titulo \in UltimosTitulos(aceptados, Ventana)
  /\ Resuelve(a, "NotMatched")
  /\ UNCHANGED <<lista, hoy, aceptados>>

AMSinAcierto(a) ==
  /\ a.titulo \notin UltimosTitulos(aceptados, Ventana)
  /\ \A k \in DOMAIN lista : ~Acierta(lista[k], a, hoy) /\ ~Caducada(lista[k], hoy)
  /\ Resuelve(a, "NotMatched")
  /\ UNCHANGED <<lista, hoy, aceptados>>

AMAvisa(a, k) ==
  /\ a.titulo \notin UltimosTitulos(aceptados, Ventana)
  /\ Decide(k, a) /\ lista[k].mail
  /\ \/ /\ Resuelve(a, "AlreadyNotified")
        /\ aceptados' = Append(aceptados, Aceptado(a, k, "AlreadyNotified"))
     \/ /\ Resuelve(a, "MailFailed")
        /\ UNCHANGED aceptados
  /\ UNCHANGED <<lista, hoy>>

AMDescarga(a, k) ==
  /\ a.titulo \notin UltimosTitulos(aceptados, Ventana)
  /\ Decide(k, a) /\ ~lista[k].mail
  /\ Resuelve(a, "Download")
  /\ aceptados' = Append(aceptados, Aceptado(a, k, "Download"))
  /\ lista' = [lista EXCEPT ![k].fecha = hoy]
  /\ UNCHANGED hoy

\* A rule past its expiry may leave the list at any time.
AMPoda(k) ==
  /\ Caducada(lista[k], hoy)
  /\ lista' = RemoveAt(lista, k)
  /\ UNCHANGED <<hoy, aceptados, anuncio, resultado>>

AMMedianoche ==
  hoy' = hoy + 1 /\ UNCHANGED <<lista, aceptados, anuncio, resultado>>

\* One RPC on the list.  A rule that is added is active and has never
\* downloaded.
AMAnade ==
  /\ lista' # <<>>
  /\ LET r == lista'[Len(lista')]
     IN  /\ lista' = Append(lista, r)
         /\ r \in Regla
         /\ r.uid \notin UidsDe(lista)
         /\ r.fecha = SinDescarga /\ r.activa

AMRpc ==
  /\ \/ AMAnade
     \/ \E k \in DOMAIN lista, n \in Nombres : lista' = Editada(lista, k, n)
     \/ \E k \in DOMAIN lista : lista' = Conmutada(lista, k)
     \/ \E de, a \in DOMAIN lista : lista' = Movida(lista, de, a)
     \/ \E k \in DOMAIN lista : lista' = RemoveAt(lista, k)
     \/ \E n \in Nombres : lista' = SinNombre(lista, n)
  /\ UNCHANGED <<hoy, aceptados, anuncio, resultado>>

AMNext ==
  \/ \E a \in Anuncio :
       \/ AMYaVisto(a) \/ AMSinAcierto(a)
       \/ \E k \in DOMAIN lista : AMAvisa(a, k) \/ AMDescarga(a, k)
  \/ AMVuelve
  \/ \E k \in DOMAIN lista : AMPoda(k)
  \/ AMMedianoche
  \/ AMRpc

AMSpec == AMInit /\ [][AMNext]_amVars
=============================================================================
