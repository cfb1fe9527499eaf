---------------------------- MODULE SharedRules ----------------------------
(***************************************************************************)
(* The rule list as the program shares it.  Two kinds of threads use it:   *)
(*                                                                         *)
(*   - the Qt main thread, where an announcement (IRC line or feed item)   *)
(*     runs miraTitulo and parseTitle.  It walks the list WITHOUT the      *)
(*     mutex of rssani_lite;                                               *)
(*   - the gRPC handler threads (Clientes: one call in progress each),     *)
(*     which change the list under that mutex.  The handlers that take an  *)
(*     index look at the size in one critical section and act in another.  *)
(*                                                                         *)
(* A step is one visit to the list.  The several reads parseTitle makes of *)
(* one rule in one test are one step, so the model has fewer interleavings *)
(* than the program.  An index out of the list is undefined behaviour; the *)
(* model ends the process there (fase = "roto"), which is what a build     *)
(* with Qt assertions does, and nothing is claimed of what follows.        *)
(***************************************************************************)
EXTENDS RuleList

CONSTANTS
  MaxRecientes,     \* 30 in miraTitulo
  ListasIniciales,  \* the lists readSettings may load
  HoyInicial,       \* the day the program starts
  PrimerUid,        \* the first uid no loaded rule has
  Clientes,         \* gRPC handler threads
  Nadie,            \* no thread: the mutex is free
  Peticiones,       \* the requests the clients may send
  SinAnuncio,       \* no announcement is being judged
  MaxDia,           \* bound: the last day
  MaxAceptados,     \* bound: uploads accepted in one behaviour
  MaxLlamadas       \* bound: RPC calls in one behaviour

\* A request on the list, with the fields its handler reads.
Peticion ==
  [op : {"AnadirRegexp"}, nombre : Nombres, vencimiento : Int,
   tracker : Hosts \cup {SinTracker}, mail : BOOLEAN, dias : Int]
  \cup [op : {"EditarRegexp"}, nombre : Nombres, dest : Nombres]
  \cup [op : {"EditarRegexpI"}, pos : Int, dest : Nombres]
  \cup [op : {"ActivarRegexp"}, pos : Int]
  \cup [op : {"MoverRegexp"}, pos : Int, a : Int]
  \cup [op : {"BorrarRegexpI"}, pos : Int]
  \cup [op : {"BorrarRegexpS"}, nombre : Nombres]

PorPosicion == {"EditarRegexpI", "ActivarRegexp", "MoverRegexp", "BorrarRegexpI"}

ASSUME SharedRulesAssumption ==
  /\ MaxRecientes \in Nat
  /\ HoyInicial \in Nat \ {0}
  /\ PrimerUid \in Nat
  /\ MaxDia \in Nat /\ MaxAceptados \in Nat /\ MaxLlamadas \in Nat
  /\ Nadie \notin Clientes
  /\ SinAnuncio \notin Anuncio
  /\ \A p \in Peticiones : p \in Peticion
  /\ \A l \in ListasIniciales :
       /\ l \in Seq(Regla)
       /\ \A k \in DOMAIN l : l[k].uid < PrimerUid
       /\ \A j, k \in DOMAIN l : l[j].uid = l[k].uid => j = k

VARIABLES
  lista,      \* QList<regexp> lista
  hoy,        \* QDate::currentDate()
  recientes,  \* QStringList recientes of Rss_lite
  fase,       \* where the main thread is in parseTitle
  i,          \* its loop index
  anuncio,    \* the announcement it judges
  resultado,  \* the MatchResult parseTitle has just returned
  cerrojo,    \* the thread that holds the mutex of rssani_lite
  fasec,      \* where each handler is
  pet,        \* the request each handler serves
  resp,       \* the reply it has just sent
  mano,       \* the local `item` of moverRegexp
  indice,     \* the loop index of borrarRegexp(string)
  uidLibre,   \* history: the next rule's uid
  llamadas,   \* history: the calls made so far
  juez,       \* history: the rule (<<r>>) that has decided to download
  aceptados   \* history: the uploads downloaded or notified

hilo   == <<recientes, fase, i, anuncio, resultado, juez, aceptados>>
rpc    == <<cerrojo, fasec, pet, resp, mano, indice, uidLibre, llamadas>>
vars   == <<lista, hoy, hilo, rpc>>

Vivo == fase # "roto"

Ninguna == [op |-> "ninguna"]   \* no call in progress

Init ==
  /\ lista \in ListasIniciales
  /\ hoy = HoyInicial
  /\ recientes = <<>>
  /\ fase = "libre" /\ i = 1 /\ anuncio = SinAnuncio
  /\ resultado = "Ninguno"
  /\ cerrojo = Nadie
  /\ fasec = [c \in Clientes |-> "fuera"]
  /\ pet = [c \in Clientes |-> Ninguna]
  /\ resp = [c \in Clientes |-> "ninguna"]
  /\ mano = [c \in Clientes |-> <<>>]
  /\ indice = [c \in Clientes |-> 1]
  /\ uidLibre = PrimerUid
  /\ llamadas = 0
  /\ juez = <<>>
  /\ aceptados = <<>>

-----------------------------------------------------------------------------
(* The main thread: miraTitulo calls parseTitle, then keeps the title.     *)

\* parseTitle returns valor for the announcement a.
Devuelve(a, valor) ==
  fase' = "vuelto" /\ i' = 1 /\ anuncio' = a /\ resultado' = valor

\* miraTitulo goes back to the event loop.
Vuelve ==
  /\ fase = "vuelto"
  /\ fase' = "libre" /\ anuncio' = SinAnuncio /\ resultado' = "Ninguno"
  /\ UNCHANGED <<lista, hoy, recientes, i, juez, aceptados, rpc>>

\* Mutant of Recuerda: one more title is kept.
RecuerdaUnoMas(r, valor) ==
  /\ recientes' = Append(IF Len(recientes) > MaxRecientes + 1
                         THEN Tail(recientes) ELSE recientes, anuncio.titulo)
  /\ aceptados' = Append(aceptados,
                   [titulo |-> anuncio.titulo, uid |-> r.uid, dia |-> hoy,
                    dias |-> r.dias, valor |-> valor])

\* The switch of miraTitulo for Download and AlreadyNotified: one title is
\* dropped when there are more than MaxRecientes, and the new one appended.
\* The history names the rule r that decided.
Recuerda(r, valor) ==
  /\ recientes' = Append(IF Len(recientes) > MaxRecientes THEN Tail(recientes)
                         ELSE recientes, anuncio.titulo)
  /\ aceptados' = Append(aceptados,
                   [titulo |-> anuncio.titulo, uid |-> r.uid, dia |-> hoy,
                    dias |-> r.dias, valor |-> valor])

\* An announcement arrives and its title is among the recent ones.
YaVisto(a) ==
  /\ fase = "libre"
  /\ Contains(recientes, a.titulo)
  /\ Devuelve(a, "NotMatched")
  /\ UNCHANGED <<lista, hoy, recientes, juez, aceptados, rpc>>

\* Mutant of MiraTitulo: the recent titles are not looked at.
MiraCualquierTitulo(a) ==
  /\ fase = "libre" /\ Len(aceptados) < MaxAceptados
  /\ fase' = "bucle" /\ i' = 1 /\ anuncio' = a
  /\ UNCHANGED <<lista, hoy, recientes, resultado, juez, aceptados, rpc>>

\* An announcement arrives and parseTitle enters its loop.
MiraTitulo(a) ==
  /\ fase = "libre"
  /\ Len(aceptados) < MaxAceptados
  /\ ~Contains(recientes, a.titulo)
  /\ fase' = "bucle" /\ i' = 1 /\ anuncio' = a
  /\ UNCHANGED <<lista, hoy, recientes, resultado, juez, aceptados, rpc>>

\* Mutant of Bucle: the test is i <= lista->size().
BucleUnoMas ==
  /\ fase = "bucle"
  /\ IF i <= Len(lista) + 1
     THEN fase' = "vence" /\ UNCHANGED <<i, anuncio, resultado>>
     ELSE Devuelve(anuncio, "NotMatched")
  /\ UNCHANGED <<lista, hoy, recientes, juez, aceptados, rpc>>

\* The loop test, i < lista->size().
Bucle ==
  /\ fase = "bucle"
  /\ IF EnRango(lista, i)
     THEN fase' = "vence" /\ UNCHANGED <<i, anuncio, resultado>>
     ELSE Devuelve(anuncio, "NotMatched")
  /\ UNCHANGED <<lista, hoy, recientes, juez, aceptados, rpc>>

\* Each later visit to position i trusts that test: if the list has shrunk
\* since, the visit is out of the list.
FueraDeRango ==
  /\ fase \in {"vence", "borra", "casa", "modo", "sella"}
  /\ ~EnRango(lista, i)
  /\ fase' = "roto"
  /\ UNCHANGED <<lista, hoy, recientes, i, anuncio, resultado, juez, aceptados, rpc>>

\* Mutant of Vence: a rule expires one day early.
VenceLaVispera ==
  /\ fase = "vence" /\ EnRango(lista, i)
  /\ fase' = IF Caducada(lista[i], hoy + 1) THEN "borra" ELSE "casa"
  /\ UNCHANGED <<lista, hoy, recientes, i, anuncio, resultado, juez, aceptados, rpc>>

\* parseTitle reads the expiry of the rule i and today's date.
Vence ==
  /\ fase = "vence" /\ EnRango(lista, i)
  /\ fase' = IF Caducada(lista[i], hoy) THEN "borra" ELSE "casa"
  /\ UNCHANGED <<lista, hoy, recientes, i, anuncio, resultado, juez, aceptados, rpc>>

\* Mutants of Borra: without the i++ of the loop, and without the i--.
BorraYRetrocede ==
  /\ fase = "borra" /\ EnRango(lista, i)
  /\ lista' = RemoveAt(lista, i) /\ i' = i - 1
  /\ fase' = "bucle"
  /\ UNCHANGED <<hoy, recientes, anuncio, resultado, juez, aceptados, rpc>>

BorraYSalta ==
  /\ fase = "borra" /\ EnRango(lista, i)
  /\ lista' = RemoveAt(lista, i) /\ i' = i + 1
  /\ fase' = "bucle"
  /\ UNCHANGED <<hoy, recientes, anuncio, resultado, juez, aceptados, rpc>>

\* removeAt(i), i--, and the i++ of the loop.
Borra ==
  /\ fase = "borra" /\ EnRango(lista, i)
  /\ lista' = RemoveAt(lista, i)
  /\ fase' = "bucle"
  /\ UNCHANGED <<hoy, recientes, i, anuncio, resultado, juez, aceptados, rpc>>

\* Mutant of Siguiente: the same rule again.
Repite ==
  /\ fase' = "bucle" /\ UNCHANGED <<i, anuncio, resultado>>

\* The next iteration of the loop.
Siguiente ==
  /\ fase' = "bucle" /\ i' = i + 1
  /\ UNCHANGED <<anuncio, resultado>>

\* Is the rule active, does it match, is the link of its tracker?
MiraRegla ==
  /\ fase = "casa" /\ EnRango(lista, i)
  /\ IF Casa(lista[i], anuncio)
     THEN fase' = "modo" /\ UNCHANGED <<i, anuncio, resultado>>
     ELSE Siguiente
  /\ UNCHANGED <<lista, hoy, recientes, juez, aceptados, rpc>>

\* A mail-only rule: sendMail succeeds or fails.
Avisa ==
  /\ fase = "modo" /\ EnRango(lista, i) /\ lista[i].mail
  /\ \/ Devuelve(anuncio, "AlreadyNotified") /\ Recuerda(lista[i], "AlreadyNotified")
     \/ Devuelve(anuncio, "MailFailed") /\ UNCHANGED <<recientes, aceptados>>
  /\ UNCHANGED <<lista, hoy, juez, rpc>>

\* Mutant of MiraDias: a rule that downloaded too recently ends the scan.
MiraDiasYAcaba ==
  /\ fase = "modo" /\ EnRango(lista, i) /\ ~lista[i].mail
  /\ IF DemasiadoPronto(lista[i], hoy)
     THEN Devuelve(anuncio, "NotMatched") /\ UNCHANGED juez
     ELSE fase' = "sella" /\ juez' = <<lista[i]>> /\ UNCHANGED <<i, anuncio, resultado>>
  /\ UNCHANGED <<lista, hoy, recientes, aceptados, rpc>>

\* A download rule: have the minimum days passed since its last download?
MiraDias ==
  /\ fase = "modo" /\ EnRango(lista, i) /\ ~lista[i].mail
  /\ IF DemasiadoPronto(lista[i], hoy)
     THEN Siguiente /\ UNCHANGED juez
     ELSE fase' = "sella" /\ juez' = <<lista[i]>> /\ UNCHANGED <<i, anuncio, resultado>>
  /\ UNCHANGED <<lista, hoy, recientes, aceptados, rpc>>

\* Mutant of Sella: the date of the download is not kept.
SellaSinFecha ==
  /\ fase = "sella" /\ EnRango(lista, i)
  /\ Devuelve(anuncio, "Download")
  /\ Recuerda(juez[1], "Download")
  /\ juez' = <<>>
  /\ UNCHANGED <<lista, hoy, rpc>>

\* (*lista)[i].fechaDescarga = now, and the download is announced.
Sella ==
  /\ fase = "sella" /\ EnRango(lista, i)
  /\ lista' = [lista EXCEPT ![i].fecha = hoy]
  /\ Devuelve(anuncio, "Download")
  /\ Recuerda(juez[1], "Download")
  /\ juez' = <<>>
  /\ UNCHANGED <<hoy, rpc>>

PasoPrincipal ==
  \/ Bucle \/ Vence \/ Borra \/ MiraRegla \/ Avisa \/ MiraDias \/ Sella
  \/ FueraDeRango \/ Vuelve

-----------------------------------------------------------------------------
(* The gRPC handlers.                                                      *)

\* Handler c ends its call with the reply v, or goes on in phase f.
Responde(c, v) ==
  /\ fasec' = [fasec EXCEPT ![c] = "respondida"]
  /\ resp' = [resp EXCEPT ![c] = v]
  /\ UNCHANGED pet

Avanza(c, f) ==
  /\ fasec' = [fasec EXCEPT ![c] = f]
  /\ UNCHANGED <<pet, resp>>

\* A client calls.  The index handlers first ask for the size.
Pide(c, p) ==
  /\ Vivo
  /\ fasec[c] = "fuera"
  /\ llamadas < MaxLlamadas
  /\ llamadas' = llamadas + 1
  /\ pet' = [pet EXCEPT ![c] = p]
  /\ fasec' = [fasec EXCEPT ![c] = IF p.op \in PorPosicion THEN "mira" ELSE "espera"]
  /\ UNCHANGED <<lista, hoy, hilo, cerrojo, resp, mano, indice, uidLibre>>

\* The reply reaches the client.
Recoge(c) ==
  /\ Vivo
  /\ fasec[c] = "respondida"
  /\ fasec' = [fasec EXCEPT ![c] = "fuera"]
  /\ pet' = [pet EXCEPT ![c] = Ninguna]
  /\ resp' = [resp EXCEPT ![c] = "ninguna"]
  /\ UNCHANGED <<lista, hoy, hilo, cerrojo, mano, indice, uidLibre, llamadas>>

\* rss->listaRegexp().size(), a critical section of its own, and the test.
Comprueba(c) ==
  /\ Vivo
  /\ fasec[c] = "mira" /\ cerrojo = Nadie
  /\ IF /\ EnRango(lista, pet[c].pos)
        /\ pet[c].op = "MoverRegexp" => EnRango(lista, pet[c].a)
     THEN Avanza(c, "espera")
     ELSE Responde(c, "OUT_OF_RANGE")
  /\ UNCHANGED <<lista, hoy, hilo, cerrojo, mano, indice, uidLibre, llamadas>>

\* Mutant of Entra: no lock is taken into account.
EntraSinEsperar(c) ==
  /\ Vivo /\ fasec[c] = "espera"
  /\ cerrojo' = c /\ Avanza(c, "dentro")
  /\ UNCHANGED <<lista, hoy, hilo, mano, indice, uidLibre, llamadas>>

\* QMutexLocker locker(&mutex) at the head of the method.
Entra(c) ==
  /\ Vivo
  /\ fasec[c] = "espera" /\ cerrojo = Nadie
  /\ cerrojo' = c
  /\ Avanza(c, "dentro")
  /\ UNCHANGED <<lista, hoy, hilo, mano, indice, uidLibre, llamadas>>

\* The locker goes out of scope, and the handler replies.
Sale(c, v) == cerrojo' = Nadie /\ Responde(c, v)

\* Handler c holds the mutex and serves a request of kind op.
Dentro(c, op) ==
  Vivo /\ cerrojo = c /\ fasec[c] = "dentro" /\ pet[c].op = op

Anade(c) ==
  /\ Dentro(c, "AnadirRegexp")
  /\ lista' = Append(lista, NuevaRegla(uidLibre, pet[c].nombre, pet[c].vencimiento,
                                       pet[c].tracker, pet[c].mail, pet[c].dias))
  /\ uidLibre' = uidLibre + 1
  /\ Sale(c, "true")
  /\ UNCHANGED <<hoy, hilo, mano, indice, llamadas>>

\* By pattern: the first rule that has it.
Edita(c) ==
  /\ Dentro(c, "EditarRegexp")
  /\ \/ \E k \in DOMAIN lista :
          /\ EsPrimera(lista, pet[c].nombre, k)
          /\ lista' = Editada(lista, k, pet[c].dest)
          /\ Sale(c, "true")
     \/ /\ Posiciones(lista, pet[c].nombre) = {}
        /\ Sale(c, "false")
        /\ UNCHANGED lista
  /\ UNCHANGED <<hoy, hilo, mano, indice, uidLibre, llamadas>>

\* Mutant of EditaI: out of range is not an error.
EditaISinError(c) ==
  /\ Dentro(c, "EditarRegexpI")
  /\ lista' = IF EnRango(lista, pet[c].pos)
              THEN Editada(lista, pet[c].pos, pet[c].dest) ELSE lista
  /\ Sale(c, "true")
  /\ UNCHANGED <<hoy, hilo, mano, indice, uidLibre, llamadas>>

\* By index: the method tests the index again.
EditaI(c) ==
  /\ Dentro(c, "EditarRegexpI")
  /\ IF EnRango(lista, pet[c].pos)
     THEN lista' = Editada(lista, pet[c].pos, pet[c].dest) /\ Sale(c, "true")
     ELSE Sale(c, "false") /\ UNCHANGED lista
  /\ UNCHANGED <<hoy, hilo, mano, indice, uidLibre, llamadas>>

Activa(c) ==
  /\ Dentro(c, "ActivarRegexp")
  /\ IF EnRango(lista, pet[c].pos)
     THEN lista' = Conmutada(lista, pet[c].pos) /\ Sale(c, "true")
     ELSE Sale(c, "false") /\ UNCHANGED lista
  /\ UNCHANGED <<hoy, hilo, mano, indice, uidLibre, llamadas>>

\* Mutant of Saca: at(from) instead of takeAt(from).
SacaCopia(c) ==
  /\ Dentro(c, "MoverRegexp")
  /\ IF EnRango(lista, pet[c].pos) /\ EnRango(lista, pet[c].a)
     THEN /\ mano' = [mano EXCEPT ![c] = <<lista[pet[c].pos]>>]
          /\ Avanza(c, "mete") /\ UNCHANGED cerrojo
     ELSE Sale(c, "true") /\ UNCHANGED mano
  /\ UNCHANGED <<lista, hoy, hilo, indice, uidLibre, llamadas>>

\* moverRegexp: takeAt(from) into a local, then insert(to, item).  It returns
\* nothing and the handler replies true.
Saca(c) ==
  /\ Dentro(c, "MoverRegexp")
  /\ IF EnRango(lista, pet[c].pos) /\ EnRango(lista, pet[c].a)
     THEN /\ mano' = [mano EXCEPT ![c] = <<lista[pet[c].pos]>>]
          /\ lista' = RemoveAt(lista, pet[c].pos)
          /\ Avanza(c, "mete")
          /\ UNCHANGED cerrojo
     ELSE Sale(c, "true") /\ UNCHANGED <<lista, mano>>
  /\ UNCHANGED <<hoy, hilo, indice, uidLibre, llamadas>>

Mete(c) ==
  /\ Vivo /\ fasec[c] = "mete"
  /\ pet[c].a <= Len(lista) + 1
  /\ lista' = InsertAt(lista, pet[c].a, mano[c][1])
  /\ mano' = [mano EXCEPT ![c] = <<>>]
  /\ Sale(c, "true")
  /\ UNCHANGED <<hoy, hilo, indice, uidLibre, llamadas>>

\* insert past the end, when the scan has removed a rule in between.
MeteFuera(c) ==
  /\ Vivo /\ fasec[c] = "mete"
  /\ pet[c].a > Len(lista) + 1
  /\ fase' = "roto"
  /\ UNCHANGED <<lista, hoy, recientes, i, anuncio, resultado, juez, aceptados, rpc>>

\* borrarRegexp(int) returns nothing and the handler replies true.
BorraI(c) ==
  /\ Dentro(c, "BorrarRegexpI")
  /\ lista' = IF EnRango(lista, pet[c].pos) THEN RemoveAt(lista, pet[c].pos) ELSE lista
  /\ Sale(c, "true")
  /\ UNCHANGED <<hoy, hilo, mano, indice, uidLibre, llamadas>>

\* Mutant of BorraS: the rule that was found stays in the list.
BorraSSinQuitar(c) ==
  /\ Dentro(c, "BorrarRegexpS") \/ (Vivo /\ fasec[c] = "quita")
  /\ \/ \E k \in Desde(lista, pet[c].nombre, indice[c]) :
          /\ \A j \in Desde(lista, pet[c].nombre, indice[c]) : k <= j
          /\ indice' = [indice EXCEPT ![c] = k]
          /\ Avanza(c, "quita")
          /\ UNCHANGED cerrojo
     \/ /\ Desde(lista, pet[c].nombre, indice[c]) = {}
        /\ indice' = [indice EXCEPT ![c] = 1]
        /\ Sale(c, "true")
  /\ UNCHANGED <<lista, hoy, hilo, mano, uidLibre, llamadas>>

\* borrarRegexp(string) removes the rules with the pattern one by one, with an
\* index that the removals of the scan do not move.
BorraS(c) ==
  /\ Dentro(c, "BorrarRegexpS") \/ (Vivo /\ fasec[c] = "quita")
  /\ \/ \E k \in Desde(lista, pet[c].nombre, indice[c]) :
          /\ \A j \in Desde(lista, pet[c].nombre, indice[c]) : k <= j
          /\ lista' = RemoveAt(lista, k)
          /\ indice' = [indice EXCEPT ![c] = k]
          /\ Avanza(c, "quita")
          /\ UNCHANGED cerrojo
     \/ /\ Desde(lista, pet[c].nombre, indice[c]) = {}
        /\ indice' = [indice EXCEPT ![c] = 1]
        /\ Sale(c, "true")
        /\ UNCHANGED lista
  /\ UNCHANGED <<hoy, hilo, mano, uidLibre, llamadas>>

PasoRpc(c) ==
  \/ Comprueba(c) \/ Entra(c) \/ Anade(c) \/ Edita(c) \/ EditaI(c) \/ Activa(c)
  \/ Saca(c) \/ Mete(c) \/ MeteFuera(c) \/ BorraI(c) \/ BorraS(c) \/ Recoge(c)

-----------------------------------------------------------------------------
Medianoche ==
  /\ Vivo /\ hoy < MaxDia
  /\ hoy' = hoy + 1
  /\ UNCHANGED <<lista, hilo, rpc>>

Llegada == \E a \in Anuncio : YaVisto(a) \/ MiraTitulo(a)
Llamada == \E c \in Clientes, p \in Peticiones : Pide(c, p)
Handler == \E c \in Clientes : PasoRpc(c)

Next == Llegada \/ PasoPrincipal \/ Llamada \/ Handler \/ Medianoche

Spec == Init /\ [][Next]_vars

\* The operating system runs both kinds of threads.  QMutex promises no
\* order among waiters, so a handler has weak fairness only.
FairSpec ==
  /\ Spec
  /\ WF_vars(PasoPrincipal)
  /\ \A c \in Clientes : WF_vars(PasoRpc(c))

-----------------------------------------------------------------------------
\* The phases of the loop of parseTitle.
EnBucle == {"bucle", "vence", "borra", "casa", "modo", "sella"}

MatchResult == {"NotMatched", "Download", "AlreadyNotified", "MailFailed"}

Aceptacion ==
  [titulo : Titulos, uid : Nat, dia : Nat, dias : Int,
   valor : {"Download", "AlreadyNotified"}]

TipoLista == lista \in Seq(Regla) /\ hoy \in Nat \ {0}

TipoHilo ==
  /\ recientes \in Seq(Titulos)
  /\ fase \in {"libre", "vuelto", "roto"} \cup EnBucle
  /\ i \in Nat \ {0}
  /\ anuncio \in Anuncio \cup {SinAnuncio}
  /\ fase \in EnBucle => anuncio \in Anuncio
  /\ resultado \in MatchResult \cup {"Ninguno"}
  /\ juez \in Seq(Regla)
  /\ fase = "sella" => juez # <<>>
  /\ aceptados \in Seq(Aceptacion)

TipoRpc ==
  /\ cerrojo \in Clientes \cup {Nadie}
  /\ fasec \in [Clientes -> {"fuera", "mira", "espera", "dentro", "mete", "quita", "respondida"}]
  /\ pet \in [Clientes -> Peticion \cup {Ninguna}]
  /\ resp \in [Clientes -> {"ninguna", "true", "false", "OUT_OF_RANGE"}]
  /\ mano \in [Clientes -> Seq(Regla)]
  /\ \A c \in Clientes :
       fasec[c] = "mete" => /\ mano[c] # <<>>
                            /\ pet[c].op = "MoverRegexp" /\ pet[c].a >= 1
  /\ indice \in [Clientes -> Nat \ {0}]
  /\ uidLibre \in Nat /\ llamadas \in Nat

\* The variables hold what their types in the code can hold.
TypeOK == TipoLista /\ TipoHilo /\ TipoRpc

EnSeccion == {"dentro", "mete", "quita"}

\* A handler is in the middle of a method exactly while it holds the mutex of
\* rssani_lite: two methods never interleave (class comment of rssani_lite).
ExclusionMutua == \A c \in Clientes : fasec[c] \in EnSeccion <=> cerrojo = c

\* recientes is a window on the past: the titles of the last accepted uploads,
\* in order, MaxRecientes + 1 of them once there have been that many.
\* miraTitulo keeps it so whatever the handlers do to the rules meanwhile.
RecientesEsVentana ==
  /\ Len(recientes) <= MaxRecientes + 1
  /\ Len(recientes) <= Len(aceptados)
  /\ Len(aceptados) > Len(recientes) => Len(recientes) = MaxRecientes + 1
  /\ \A k \in DOMAIN recientes :
       recientes[k] = aceptados[Len(aceptados) - Len(recientes) + k].titulo

\* The same title is downloaded or notified again only after more than
\* MaxRecientes other uploads were: the list of recent titles does what it
\* is for, through every interleaving with the RPCs.
SinRepetidosCercanos ==
  \A j, k \in DOMAIN aceptados :
    j < k /\ aceptados[j].titulo = aceptados[k].titulo => k - j > MaxRecientes + 1

\* A rule is in one place: no two positions of the list, and no position and
\* the hand of a moverRegexp, hold the same rule.
ReglasUnicas ==
  /\ \A j, k \in DOMAIN lista : lista[j].uid = lista[k].uid => j = k
  /\ \A c \in Clientes, k \in DOMAIN lista :
       mano[c] # <<>> => mano[c][1].uid # lista[k].uid

\* The methods that return bool tell the truth even when the list changed
\* after the handler had checked the index: true comes with the change.
ConfirmaLoHecho ==
  [][\A c \in Clientes :
       /\ resp[c] = "ninguna" /\ resp'[c] = "true"
       /\ pet[c].op \in {"EditarRegexpI", "ActivarRegexp"}
       => /\ EnRango(lista, pet[c].pos)
          /\ lista'[pet[c].pos] =
               IF pet[c].op = "ActivarRegexp"
               THEN [lista[pet[c].pos] EXCEPT !.activa = ~@]
               ELSE [lista[pet[c].pos] EXCEPT !.nombre = pet[c].dest]]_vars

\* IMPROVEMENTS.md says BorrarRegexpI validates the index and returns
\* OUT_OF_RANGE if it is not one of the list: true comes with a deletion.
BorradoConfirmado ==
  [][\A c \in Clientes :
       /\ resp[c] = "ninguna" /\ resp'[c] = "true"
       /\ pet[c].op = "BorrarRegexpI"
       => Len(lista') < Len(lista)]_vars

\* Two downloads by one rule are at least diasDescarga days apart (field
\* comment of struct regexp: minimum days between downloads).
DiasMinimos ==
  \A j, k \in DOMAIN aceptados :
    /\ j < k /\ aceptados[j].uid = aceptados[k].uid
    /\ aceptados[j].valor = "Download" /\ aceptados[k].valor = "Download"
    => aceptados[k].dia - aceptados[j].dia >= aceptados[k].dias

\* A scan ends: parseTitle does not walk for ever a list that others change.
EscaneoTermina == fase = "bucle" ~> fase \in {"vuelto", "roto"}

\* No handler keeps the mutex: whoever waits for it can go on.
CerrojoSeLibera == \A c \in Clientes : cerrojo = c ~> cerrojo = Nadie \/ ~Vivo
=============================================================================
