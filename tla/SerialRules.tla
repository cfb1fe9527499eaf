---------------------------- MODULE SerialRules ----------------------------
(***************************************************************************)
(* The executions of SharedRules in which no critical section of a handler *)
(* and no midnight falls inside a scan: the ones the program would have if *)
(* miraTitulo took the mutex, and the ones an operator who changes rules   *)
(* while nothing is announced sees.  In them the code keeps the promise of *)
(* RuleMatching, whatever the handlers do among themselves.                *)
(***************************************************************************)
EXTENDS SharedRules

SerialNext ==
  \/ cerrojo = Nadie /\ Llegada
  \/ PasoPrincipal
  \/ Llamada
  \/ fase = "libre" /\ Handler
  \/ fase = "libre" /\ Medianoche

SerialSpec == Init /\ [][SerialNext]_vars

-----------------------------------------------------------------------------
(* The list as RuleMatching sees it: the operation of the handler that     *)
(* holds the mutex takes effect at its first step.                         *)

ListaPrometida ==
  IF \E c \in Clientes : fasec[c] \in {"mete", "quita"}
  THEN LET c == CHOOSE d \in Clientes : fasec[d] \in {"mete", "quita"}
       IN  IF fasec[c] = "mete"
           THEN InsertAt(lista, pet[c].a, mano[c][1])
           ELSE SinNombre(lista, pet[c].nombre)
  ELSE lista

\* The announcement with a verdict that miraTitulo has not yet acted on.
AnuncioJuzgado == IF fase = "vuelto" THEN anuncio ELSE SinAnuncio

AM == INSTANCE RuleMatching WITH
        lista <- ListaPrometida,
        anuncio <- AnuncioJuzgado

\* The scan and the handlers implement the promise: one state of the list for
\* each announcement, the first rule that matches decides, what has expired
\* before it is removed, every RPC at once.
CumplePromesa == AM!AMSpec

\* The scan never reads past the end of the list, and moverRegexp never
\* inserts past it.
NuncaFueraDeRango == Vivo

\* A rule leaves the list (and the hand of moverRegexp) only because its
\* expiry has come or because a delete request names it.
SoloSeVaLoDebido ==
  [][\A k \in DOMAIN lista :
       \/ lista[k].uid \in UidsDe(lista')
       \/ \E c \in Clientes : mano'[c] # <<>> /\ mano'[c][1].uid = lista[k].uid
       \/ Caducada(lista[k], hoy)
       \/ \E c \in Clientes :
            /\ cerrojo = c
            /\ \/ pet[c].op = "BorrarRegexpI" /\ pet[c].pos = k
               \/ pet[c].op = "BorrarRegexpS" /\ pet[c].nombre = lista[k].nombre]_vars

\* At every point of the scan, each rule already passed was looked at and did
\* not decide: none of them is expired and none stops the scan, although the
\* removals have shifted the positions.
PrefijoDescartado ==
  fase \in EnBucle =>
    \A k \in DOMAIN lista :
      k < i => ~Caducada(lista[k], hoy) /\ ~Acierta(lista[k], anuncio, hoy)
=============================================================================
