-------------------------- MODULE SharedRulesProofs --------------------------
(***************************************************************************)
(* Proofs about SharedRules, for any rules, announcements, requests and    *)
(* number of handlers, with every interleaving of the scan and the         *)
(* handlers: types, exclusion under the mutex, and the list of recent      *)
(* titles.                                                                 *)
(***************************************************************************)
EXTENDS SharedRules, ListProofs

-----------------------------------------------------------------------------
(* Types.                                                                  *)

\* The edits of one field: a rule stays a rule, and keeps its uid.
LEMMA FieldEdits ==
  ASSUME NEW r \in Regla, NEW n \in Nombres, NEW d \in Nat
  PROVE  /\ [r EXCEPT !.nombre = n] \in Regla
         /\ [r EXCEPT !.activa = ~@] \in Regla
         /\ [r EXCEPT !.fecha = d] \in Regla
  BY DEF Regla

\* A request, by the handler it is for.
LEMMA PeticionDe ==
  ASSUME NEW p \in Peticion \cup {Ninguna}
  PROVE  /\ p.op = "AnadirRegexp" =>
              /\ p.nombre \in Nombres /\ p.vencimiento \in Int
              /\ p.tracker \in Hosts \cup {SinTracker}
              /\ p.mail \in BOOLEAN /\ p.dias \in Int
         /\ p.op = "EditarRegexp" => p.nombre \in Nombres /\ p.dest \in Nombres
         /\ p.op = "EditarRegexpI" => p.pos \in Int /\ p.dest \in Nombres
         /\ p.op = "ActivarRegexp" => p.pos \in Int
         /\ p.op = "MoverRegexp" => p.pos \in Int /\ p.a \in Int
         /\ p.op = "BorrarRegexpI" => p.pos \in Int
         /\ p.op = "BorrarRegexpS" => p.nombre \in Nombres
  BY DEF Peticion, Ninguna

\* What the edits of a list by the scan and the handlers leave.
LEMMA ListEdits ==
  ASSUME NEW l \in Seq(Regla), NEW k \in 1 .. Len(l)
  PROVE  /\ \A n \in Nombres : Editada(l, k, n) \in Seq(Regla)
         /\ Conmutada(l, k) \in Seq(Regla)
         /\ \A d \in Nat : [l EXCEPT ![k].fecha = d] \in Seq(Regla)
<1>1. l[k] \in Regla
  BY ElementOfSeq
<1>2. \A n \in Nombres : [l[k] EXCEPT !.nombre = n] \in Regla
  BY <1>1 DEF Regla
<1>3. [l[k] EXCEPT !.activa = ~@] \in Regla
  BY <1>1 DEF Regla
<1>4. \A d \in Nat : [l[k] EXCEPT !.fecha = d] \in Regla
  BY <1>1 DEF Regla
<1>5. \A n \in Nombres : Editada(l, k, n) \in Seq(Regla)
  BY <1>2, ReplacePositions DEF Editada
<1>6. Conmutada(l, k) \in Seq(Regla)
  BY <1>3, ReplacePositions DEF Conmutada
<1>7. \A d \in Nat : [l EXCEPT ![k].fecha = d] \in Seq(Regla)
  BY <1>4, ReplacePositions
<1>8. QED
  BY <1>5, <1>6, <1>7

\* The lists of titles after an upload is accepted.
LEMMA RecuerdaTipo ==
  ASSUME TypeOK, fase \in EnBucle, NEW r \in Regla,
         NEW valor \in {"Download", "AlreadyNotified"}, Recuerda(r, valor)
  PROVE  recientes' \in Seq(Titulos) /\ aceptados' \in Seq(Aceptacion)
<1>1. anuncio.titulo \in Titulos
  BY DEF TypeOK, TipoHilo, Anuncio
<1>2. Len(recientes) > MaxRecientes => Tail(recientes) \in Seq(Titulos)
  BY SharedRulesAssumption, EmptySeq, HeadTailProperties DEF TypeOK, TipoHilo
<1>3. recientes' \in Seq(Titulos)
  BY <1>1, <1>2 DEF Recuerda, TypeOK, TipoHilo
<1>4. [titulo |-> anuncio.titulo, uid |-> r.uid, dia |-> hoy, dias |-> r.dias,
       valor |-> valor] \in Aceptacion
  BY <1>1 DEF Aceptacion, Regla, TypeOK, TipoLista
<1>5. QED
  BY <1>3, <1>4 DEF Recuerda, TypeOK, TipoHilo

LEMMA PrincipalTipo ==
  ASSUME TypeOK, PasoPrincipal
  PROVE  TypeOK'
<1> USE DEF TypeOK, TipoLista, TipoHilo, EnBucle, EnRango, hilo
<1>0. EnRango(lista, i) => lista[i] \in Regla
  BY ElementOfSeq
<1>r. TipoRpc /\ UNCHANGED rpc => TipoRpc'
  BY DEF TipoRpc, rpc
<1>1. CASE Bucle
  BY <1>1, <1>r DEF Bucle, Devuelve, MatchResult
<1>2. CASE Vence
  BY <1>2, <1>r DEF Vence
<1>3. CASE Borra
  BY <1>3, <1>r, RemoveAtPositions DEF Borra
<1>4. CASE MiraRegla
  BY <1>4, <1>r DEF MiraRegla, Siguiente
<1>5. CASE Avisa
  <2>1. CASE Recuerda(lista[i], "AlreadyNotified")
    <3>1. recientes' \in Seq(Titulos) /\ aceptados' \in Seq(Aceptacion)
      BY <1>5, <2>1, <1>0, RecuerdaTipo DEF Avisa
    <3>2. QED
      BY <1>5, <1>r, <3>1 DEF Avisa, Devuelve, MatchResult
  <2>2. CASE UNCHANGED <<recientes, aceptados>>
    BY <1>5, <1>r, <2>2 DEF Avisa, Devuelve, MatchResult
  <2>3. QED
    BY <1>5, <2>1, <2>2 DEF Avisa
<1>6. CASE MiraDias
  <2>1. juez' \in Seq(Regla) /\ (fase' = "sella" => juez' # <<>>)
    <3>1. <<lista[i]>> \in Seq(Regla) /\ <<lista[i]>> # <<>>
      BY <1>6, <1>0 DEF MiraDias
    <3>2. QED
      BY <1>6, <3>1 DEF MiraDias, Siguiente
  <2>2. QED
    BY <1>6, <1>r, <2>1 DEF MiraDias, Siguiente
<1>7. CASE Sella
  <2>1. juez[1] \in Regla
    BY <1>7, EmptySeq, ElementOfSeq DEF Sella
  <2>2. recientes' \in Seq(Titulos) /\ aceptados' \in Seq(Aceptacion)
    BY <1>7, <2>1, RecuerdaTipo DEF Sella
  <2>3. lista' \in Seq(Regla)
    BY <1>7, ListEdits DEF Sella
  <2>4. juez' \in Seq(Regla)
    BY <1>7 DEF Sella
  <2>5. QED
    BY <1>7, <1>r, <2>2, <2>3, <2>4 DEF Sella, Devuelve, MatchResult
<1>8. CASE FueraDeRango
  BY <1>8, <1>r DEF FueraDeRango
<1>9. CASE Vuelve
  BY <1>9, <1>r DEF Vuelve
<1>10. QED
  BY <1>1, <1>2, <1>3, <1>4, <1>5, <1>6, <1>7, <1>8, <1>9 DEF PasoPrincipal

LEMMA RpcTipo ==
  ASSUME TypeOK, NEW c \in Clientes, PasoRpc(c)
  PROVE  TypeOK'
<1> USE DEF TypeOK, TipoLista, EnRango
<1>h. TipoHilo /\ UNCHANGED hilo => TipoHilo'
  BY DEF TipoHilo, hilo
<1>p. pet[c] \in Peticion \cup {Ninguna}
  BY DEF TipoRpc
<1>m. fase' = "roto" /\ UNCHANGED <<recientes, i, anuncio, resultado, juez, aceptados>>
        /\ TipoHilo => TipoHilo'
  BY DEF TipoHilo, EnBucle
<1> HIDE DEF TypeOK
<1>t. TipoLista /\ TipoHilo /\ TipoRpc
  BY DEF TypeOK
<1>1. CASE Comprueba(c)
  BY <1>1, <1>t, <1>h DEF TypeOK, Comprueba, Avanza, Responde, TipoRpc
<1>2. CASE Entra(c)
  BY <1>2, <1>t, <1>h DEF TypeOK, Entra, Avanza, TipoRpc
<1>3. CASE Anade(c)
  <2>1. NuevaRegla(uidLibre, pet[c].nombre, pet[c].vencimiento, pet[c].tracker,
                   pet[c].mail, pet[c].dias) \in Regla
    BY <1>3, <1>t, <1>p, PeticionDe DEF Anade, Dentro, NuevaRegla, Regla, SinDescarga, TipoRpc
  <2>2. lista' \in Seq(Regla)
    BY <1>3, <1>t, <2>1 DEF Anade
  <2>3. QED
    BY <1>3, <1>t, <1>h, <2>2 DEF TypeOK, Anade, Sale, Responde, TipoRpc
<1>4. CASE Edita(c)
  <2>1. lista' \in Seq(Regla)
    <3>1. ASSUME NEW k \in DOMAIN lista, EsPrimera(lista, pet[c].nombre, k),
                 lista' = Editada(lista, k, pet[c].dest)
          PROVE  lista' \in Seq(Regla)
      <4>1. pet[c].dest \in Nombres
        BY <1>4, <1>p, PeticionDe DEF Edita, Dentro
      <4>2. k \in 1 .. Len(lista)
        BY <1>t
      <4>3. QED
        BY <1>t, <3>1, <4>1, <4>2, ListEdits
    <3>2. QED
      BY <1>4, <1>t, <3>1 DEF Edita
  <2>2. QED
    BY <1>4, <1>t, <1>h, <2>1 DEF TypeOK, Edita, Sale, Responde, TipoRpc
<1>5. CASE EditaI(c)
  <2>1. lista' \in Seq(Regla)
    BY <1>5, <1>t, <1>p, PeticionDe, ListEdits DEF EditaI, Dentro
  <2>2. QED
    BY <1>5, <1>t, <1>h, <2>1 DEF TypeOK, EditaI, Sale, Responde, TipoRpc
<1>6. CASE Activa(c)
  <2>1. lista' \in Seq(Regla)
    BY <1>6, <1>t, ListEdits DEF Activa
  <2>2. QED
    BY <1>6, <1>t, <1>h, <2>1 DEF TypeOK, Activa, Sale, Responde, TipoRpc
<1>7. CASE Saca(c)
  <2>1. CASE pet[c].pos \in 1 .. Len(lista) /\ pet[c].a \in 1 .. Len(lista)
    <3>1. lista[pet[c].pos] \in Regla /\ RemoveAt(lista, pet[c].pos) \in Seq(Regla)
      BY <2>1, <1>t, ElementOfSeq, RemoveAtPositions
    <3>2. <<lista[pet[c].pos]>> \in Seq(Regla) /\ <<lista[pet[c].pos]>> # <<>>
      BY <3>1
    <3>3. lista' \in Seq(Regla) /\ UNCHANGED hoy /\ TipoHilo'
      BY <1>7, <2>1, <1>t, <1>h, <3>1 DEF Saca
    <3>4. TipoRpc'
      <4>1. mano' = [mano EXCEPT ![c] = <<lista[pet[c].pos]>>]
        BY <1>7, <2>1 DEF Saca
      <4>2. mano' \in [Clientes -> Seq(Regla)] /\ mano'[c] # <<>>
            /\ \A d \in Clientes \ {c} : mano'[d] = mano[d]
        BY <1>t, <3>2, <4>1 DEF TipoRpc
      <4>3. /\ fasec' = [fasec EXCEPT ![c] = "mete"]
            /\ UNCHANGED <<pet, resp, cerrojo, indice, uidLibre, llamadas>>
            /\ pet[c].op = "MoverRegexp"
        BY <1>7, <2>1 DEF Saca, Dentro, Avanza
      <4>4. QED
        BY <2>1, <1>t, <4>2, <4>3 DEF TipoRpc
    <3>5. QED
      BY <3>3, <3>4, <1>t DEF TypeOK
  <2>2. CASE ~(pet[c].pos \in 1 .. Len(lista) /\ pet[c].a \in 1 .. Len(lista))
    BY <1>7, <2>2, <1>t, <1>h DEF TypeOK, Saca, Sale, Responde, TipoRpc
  <2>3. QED
    BY <2>1, <2>2
<1>8. CASE Mete(c)
  <2>1. mano[c][1] \in Regla
    BY <1>8, <1>t, EmptySeq, ElementOfSeq DEF Mete, TipoRpc
  <2>2. pet[c].a \in 1 .. Len(lista) + 1
    BY <1>8, <1>t, <1>p, PeticionDe DEF Mete, TipoRpc
  <2>3. lista' \in Seq(Regla)
    BY <1>8, <1>t, <2>1, <2>2, InsertAtPositions DEF Mete
  <2>4. QED
    BY <1>8, <1>t, <1>h, <2>3 DEF TypeOK, Mete, Sale, Responde, TipoRpc
<1>9. CASE MeteFuera(c)
  BY <1>9, <1>t, <1>m DEF TypeOK, MeteFuera, rpc, TipoRpc
<1>10. CASE BorraI(c)
  <2>1. lista' \in Seq(Regla)
    BY <1>10, <1>t, RemoveAtPositions DEF BorraI
  <2>2. QED
    BY <1>10, <1>t, <1>h, <2>1 DEF TypeOK, BorraI, Sale, Responde, TipoRpc
<1>11. CASE BorraS(c)
  <2>1. ASSUME NEW k \in Desde(lista, pet[c].nombre, indice[c]),
               lista' = RemoveAt(lista, k), indice' = [indice EXCEPT ![c] = k],
               Avanza(c, "quita"), UNCHANGED cerrojo,
               UNCHANGED <<hoy, hilo, mano, uidLibre, llamadas>>
        PROVE  TypeOK'
    <3>1. k \in 1 .. Len(lista)
      BY <2>1, <1>t DEF Desde
    <3>2. lista' \in Seq(Regla)
      BY <2>1, <1>t, <3>1, RemoveAtPositions
    <3>3. indice' \in [Clientes -> Nat \ {0}]
      BY <2>1, <3>1, <1>t DEF TipoRpc
    <3>4. QED
      BY <2>1, <1>t, <1>h, <3>2, <3>3 DEF TypeOK, Avanza, TipoRpc
  <2>2. CASE /\ UNCHANGED lista /\ indice' = [indice EXCEPT ![c] = 1] /\ Sale(c, "true")
             /\ UNCHANGED <<hoy, hilo, mano, uidLibre, llamadas>>
    BY <2>2, <1>t, <1>h DEF TypeOK, Sale, Responde, TipoRpc
  <2>3. QED
    BY <1>11, <2>1, <2>2 DEF BorraS
<1>12. CASE Recoge(c)
  BY <1>12, <1>t, <1>h DEF TypeOK, Recoge, TipoRpc
<1>13. QED
  BY <1>1, <1>2, <1>3, <1>4, <1>5, <1>6, <1>7, <1>8, <1>9, <1>10, <1>11, <1>12
     DEF PasoRpc

\* Every variable keeps to the values its type in the code allows.
THEOREM TypeCorrect == Spec => []TypeOK
<1>1. ASSUME Init PROVE TypeOK
  BY <1>1, SharedRulesAssumption DEF Init, TypeOK, TipoLista, TipoHilo, TipoRpc, EnBucle
<1>2. TypeOK /\ [Next]_vars => TypeOK'
  <2> SUFFICES ASSUME TypeOK, [Next]_vars PROVE TypeOK'
    OBVIOUS
  <2>1. CASE Llegada
    <3>r. TipoRpc /\ UNCHANGED rpc => TipoRpc'
      BY DEF TipoRpc, rpc
    <3>1. ASSUME NEW a \in Anuncio, YaVisto(a) PROVE TypeOK'
      BY <3>1, <3>r DEF YaVisto, Devuelve, TypeOK, TipoLista, TipoHilo, MatchResult, EnBucle
    <3>2. ASSUME NEW a \in Anuncio, MiraTitulo(a) PROVE TypeOK'
      BY <3>2, <3>r DEF MiraTitulo, TypeOK, TipoLista, TipoHilo, EnBucle
    <3>3. QED
      BY <2>1, <3>1, <3>2 DEF Llegada
  <2>2. CASE PasoPrincipal
    BY <2>2, PrincipalTipo
  <2>3. ASSUME NEW c \in Clientes, NEW p \in Peticiones, Pide(c, p) PROVE TypeOK'
    <3>1. p \in Peticion
      BY SharedRulesAssumption
    <3>2. TipoHilo /\ UNCHANGED hilo => TipoHilo'
      BY DEF TipoHilo, hilo
    <3>3. QED
      BY <2>3, <3>1, <3>2 DEF Pide, TypeOK, TipoLista, TipoRpc
  <2>4. CASE Handler
    BY <2>4, RpcTipo DEF Handler
  <2>5. CASE Medianoche
    BY <2>5 DEF Medianoche, TypeOK, TipoLista, TipoHilo, TipoRpc, hilo, rpc
  <2>6. CASE UNCHANGED vars
    BY <2>6 DEF vars, TypeOK, TipoLista, TipoHilo, TipoRpc, hilo, rpc
  <2>7. QED
    BY <2>1, <2>2, <2>3, <2>4, <2>5, <2>6 DEF Next, Llamada
<1>3. QED
  BY <1>1, <1>2, PTL DEF Spec

-----------------------------------------------------------------------------
(* The mutex.                                                              *)

\* A handler is inside a method of rssani_lite exactly while it holds the
\* mutex, so no two of them are, however many there are.
THEOREM MutexExcludes == Spec => []ExclusionMutua
<1>1. Init => ExclusionMutua
  BY SharedRulesAssumption DEF Init, ExclusionMutua, EnSeccion
<1>2. TypeOK /\ ExclusionMutua /\ [Next]_vars => ExclusionMutua'
  <2> SUFFICES ASSUME TypeOK, ExclusionMutua, [Next]_vars PROVE ExclusionMutua'
    OBVIOUS
  <2> USE SharedRulesAssumption DEF ExclusionMutua, EnSeccion
  <2>1. CASE UNCHANGED rpc
    BY <2>1 DEF rpc
  <2>2. ASSUME NEW c \in Clientes, NEW p \in Peticiones, Pide(c, p)
        PROVE  ExclusionMutua'
    BY <2>2 DEF Pide, TypeOK, TipoRpc
  <2>3. ASSUME NEW c \in Clientes, PasoRpc(c) PROVE ExclusionMutua'
    <3> USE DEF TypeOK, TipoRpc
    <3>1. CASE Comprueba(c)
      BY <3>1 DEF Comprueba, Avanza, Responde
    <3>2. CASE Entra(c)
      BY <3>2 DEF Entra, Avanza
    <3>3. CASE Anade(c) \/ Edita(c) \/ EditaI(c) \/ Activa(c) \/ BorraI(c)
      <4>1. fasec[c] = "dentro" /\ \E v : Sale(c, v)
        BY <3>3 DEF Anade, Edita, EditaI, Activa, BorraI, Dentro
      <4>2. QED
        BY <4>1 DEF Sale, Responde
    <3>4. CASE Saca(c)
      BY <3>4 DEF Saca, Dentro, Avanza, Sale, Responde
    <3>5. CASE Mete(c)
      BY <3>5 DEF Mete, Sale, Responde
    <3>6. CASE MeteFuera(c)
      BY <3>6, <2>1 DEF MeteFuera
    <3>7. CASE BorraS(c)
      BY <3>7 DEF BorraS, Dentro, Avanza, Sale, Responde
    <3>8. CASE Recoge(c)
      BY <3>8 DEF Recoge
    <3>9. QED
      BY <2>3, <3>1, <3>2, <3>3, <3>4, <3>5, <3>6, <3>7, <3>8 DEF PasoRpc
  <2>4. CASE Llegada \/ PasoPrincipal \/ Medianoche \/ UNCHANGED vars
    <3>1. UNCHANGED rpc
      BY <2>4 DEF Llegada, YaVisto, MiraTitulo, PasoPrincipal, Bucle, Vence, Borra,
                  MiraRegla, Avisa, MiraDias, Sella, FueraDeRango, Vuelve,
                  Medianoche, vars
    <3>2. QED
      BY <2>1, <3>1
  <2>5. QED
    BY <2>2, <2>3, <2>4 DEF Next, Llamada, Handler
<1>3. QED
  BY <1>1, <1>2, TypeCorrect, PTL DEF Spec

-----------------------------------------------------------------------------
(* The list of recent titles.  Only the main thread touches it, and it is  *)
(* a window on the history whatever happens to the rules.  The strength-   *)
(* ening for SinRepetidosCercanos: parseTitle walks the list only for a    *)
(* title that is not in the window.                                        *)

TituloNuevo == fase \in EnBucle => ~Contains(recientes, anuncio.titulo)

VInv == RecientesEsVentana /\ TituloNuevo /\ SinRepetidosCercanos

\* What miraTitulo leaves of the window when it keeps a title.
LEMMA RecuerdaVentana ==
  ASSUME TypeOK, VInv, fase \in EnBucle, NEW r \in Regla, NEW valor, Recuerda(r, valor)
  PROVE  RecientesEsVentana' /\ SinRepetidosCercanos'
<1> DEFINE n == Len(aceptados)
           m == Len(recientes)
           e == [titulo |-> anuncio.titulo, uid |-> r.uid, dia |-> hoy,
                 dias |-> r.dias, valor |-> valor]
           base == IF m > MaxRecientes THEN Tail(recientes) ELSE recientes
<1>1. n \in Nat /\ m \in Nat /\ MaxRecientes \in Nat /\ m <= MaxRecientes + 1 /\ m <= n
  BY SharedRulesAssumption DEF TypeOK, TipoHilo, VInv, RecientesEsVentana
<1>2. /\ Len(aceptados') = n + 1
      /\ \A k \in 1 .. n : aceptados'[k] = aceptados[k]
      /\ aceptados'[n + 1] = e
      /\ DOMAIN aceptados = 1 .. n /\ DOMAIN aceptados' = 1 .. n + 1
  <2>1. aceptados' = Append(aceptados, e)
    BY DEF Recuerda
  <2>2. QED
    BY <2>1 DEF TypeOK, TipoHilo
<1>3. /\ base \in Seq(Titulos)
      /\ Len(base) = IF m > MaxRecientes THEN MaxRecientes ELSE m
      /\ \A k \in 1 .. Len(base) : base[k] = recientes[m - Len(base) + k]
  <2>1. CASE m > MaxRecientes
    <3>1. recientes # <<>> /\ recientes \in Seq(Titulos) /\ m = MaxRecientes + 1
      BY <1>1, <2>1 DEF TypeOK, TipoHilo
    <3>2. /\ Tail(recientes) \in Seq(Titulos) /\ Len(Tail(recientes)) = m - 1
          /\ \A k \in 1 .. Len(Tail(recientes)) : Tail(recientes)[k] = recientes[k + 1]
      BY <3>1, HeadTailProperties
    <3>3. QED
      BY <1>1, <2>1, <3>1, <3>2
  <2>2. CASE ~(m > MaxRecientes)
    BY <1>1, <2>2 DEF TypeOK, TipoHilo
  <2>3. QED
    BY <2>1, <2>2
<1>4. /\ Len(recientes') = Len(base) + 1
      /\ \A k \in 1 .. Len(base) : recientes'[k] = base[k]
      /\ recientes'[Len(base) + 1] = anuncio.titulo
      /\ DOMAIN recientes' = 1 .. Len(base) + 1
  <2>1. recientes' = Append(base, anuncio.titulo) /\ anuncio.titulo \in Titulos
    BY DEF Recuerda, TypeOK, TipoHilo, Anuncio
  <2> HIDE DEF base
  <2>2. QED
    BY <2>1, <1>3
<1>5. \A k \in 1 .. m : recientes[k] = aceptados[n - m + k].titulo
  BY DEF TypeOK, TipoHilo, VInv, RecientesEsVentana
<1>6. m < MaxRecientes + 1 => m = n
  BY <1>1 DEF VInv, RecientesEsVentana
<1>7. \A k \in 1 .. m : recientes[k] # anuncio.titulo
  BY DEF VInv, TituloNuevo, Contains
<1> HIDE DEF n, m, base
<1>8. RecientesEsVentana'
  <2>1. \A k \in 1 .. Len(base) + 1 :
          recientes'[k] = aceptados'[(n + 1) - (Len(base) + 1) + k].titulo
    <3> SUFFICES ASSUME NEW k \in 1 .. Len(base) + 1
                 PROVE  recientes'[k] = aceptados'[(n + 1) - (Len(base) + 1) + k].titulo
      OBVIOUS
    <3> Len(base) \in Nat
      BY <1>1, <1>3
    <3>1. CASE k = Len(base) + 1
      <4>1. (n + 1) - (Len(base) + 1) + k = n + 1
        BY <3>1, <1>1
      <4>2. aceptados'[n + 1].titulo = anuncio.titulo
        BY <1>2
      <4>3. QED
        BY <3>1, <4>1, <4>2, <1>4
    <3>2. CASE k \in 1 .. Len(base)
      <4>1. recientes'[k] = recientes[m - Len(base) + k] /\ m - Len(base) + k \in 1 .. m
        BY <3>2, <1>1, <1>3, <1>4
      <4>2. recientes'[k] = aceptados[n - Len(base) + k].titulo
        BY <4>1, <1>5, <1>1, <1>3, n - m + (m - Len(base) + k) = n - Len(base) + k
      <4>3. n - Len(base) + k \in 1 .. n
        BY <3>2, <1>1, <1>3
      <4>4. aceptados'[n - Len(base) + k] = aceptados[n - Len(base) + k]
        BY <4>3, <1>2
      <4>5. (n + 1) - (Len(base) + 1) + k = n - Len(base) + k
        BY <1>1
      <4>6. QED
        BY <4>2, <4>4, <4>5
    <3>3. QED
      BY <3>1, <3>2, <1>1, <1>3
  <2>2. QED
    BY <2>1, <1>1, <1>2, <1>3, <1>4, <1>6 DEF RecientesEsVentana
<1>9. SinRepetidosCercanos'
  <2> SUFFICES ASSUME NEW j \in 1 .. n + 1, NEW k \in 1 .. n + 1, j < k,
                      aceptados'[j].titulo = aceptados'[k].titulo
               PROVE  k - j > MaxRecientes + 1
    BY <1>2 DEF SinRepetidosCercanos
  <2>1. CASE k \in 1 .. n
    <3>1. j \in 1 .. n /\ aceptados[j].titulo = aceptados[k].titulo
      BY <2>1, <1>1, <1>2
    <3>2. QED
      BY <2>1, <3>1, <1>2 DEF VInv, SinRepetidosCercanos
  <2>2. CASE k = n + 1
    <3>1. aceptados[j].titulo = anuncio.titulo /\ j \in 1 .. n
      BY <2>2, <1>1, <1>2
    <3>2. ~(j > n - m)
      <4> SUFFICES ASSUME j > n - m PROVE FALSE
        OBVIOUS
      <4>1. j - (n - m) \in 1 .. m /\ n - m + (j - (n - m)) = j
        BY <3>1, <1>1
      <4>2. recientes[j - (n - m)] = aceptados[j].titulo
        BY <4>1, <1>5
      <4>3. QED
        BY <4>1, <4>2, <3>1, <1>7
    <3>3. QED
      BY <2>2, <3>1, <3>2, <1>1, <1>6
  <2>3. QED
    BY <2>1, <2>2, <1>1
<1>10. QED
  BY <1>8, <1>9

\* Every step of the program keeps the three parts together.
LEMMA VentanaPaso ==
  ASSUME TypeOK, VInv, [Next]_vars
  PROVE  VInv'
<1> USE DEF VInv
<1>q. ASSUME UNCHANGED <<recientes, aceptados>>
      PROVE  RecientesEsVentana' /\ SinRepetidosCercanos'
  BY <1>q DEF RecientesEsVentana, SinRepetidosCercanos
<1>b. ASSUME fase \in EnBucle, UNCHANGED <<recientes, anuncio>>
      PROVE  TituloNuevo'
  BY <1>b DEF TituloNuevo, Contains
<1>l. ASSUME UNCHANGED <<recientes, aceptados, anuncio, fase>>
      PROVE  VInv'
  BY <1>l, <1>q DEF TituloNuevo, Contains
<1>f. ASSUME fase' \notin EnBucle
      PROVE  TituloNuevo'
  BY <1>f DEF TituloNuevo
<1>1. ASSUME NEW a \in Anuncio, YaVisto(a) PROVE VInv'
  BY <1>1, <1>q, <1>f DEF YaVisto, Devuelve, EnBucle
<1>2. ASSUME NEW a \in Anuncio, MiraTitulo(a) PROVE VInv'
  <2>1. TituloNuevo'
    BY <1>2 DEF MiraTitulo, TituloNuevo, Contains
  <2>2. QED
    BY <1>2, <1>q, <2>1 DEF MiraTitulo
<1>3. CASE Bucle \/ Vence \/ Borra \/ MiraRegla \/ MiraDias
  <2>1. UNCHANGED <<recientes, aceptados>> /\ fase \in EnBucle /\ anuncio' = anuncio
    BY <1>3 DEF Bucle, Vence, Borra, MiraRegla, MiraDias, Siguiente, Devuelve, EnBucle
  <2>2. QED
    BY <2>1, <1>q, <1>b
<1>4. CASE Avisa
  <2>1. fase \in EnBucle /\ fase' \notin EnBucle
    BY <1>4 DEF Avisa, Devuelve, EnBucle
  <2>2. lista[i] \in Regla
    BY <1>4 DEF Avisa, EnRango, TypeOK, TipoLista
  <2>3. ASSUME Recuerda(lista[i], "AlreadyNotified")
        PROVE  RecientesEsVentana' /\ SinRepetidosCercanos'
    BY <2>1, <2>2, <2>3, RecuerdaVentana
  <2>4. QED
    BY <1>4, <1>q, <1>f, <2>1, <2>3 DEF Avisa
<1>5. CASE Sella
  <2>1. fase \in EnBucle /\ fase' \notin EnBucle
    BY <1>5 DEF Sella, Devuelve, EnBucle
  <2>2. juez[1] \in Regla
    BY <1>5 DEF Sella, TypeOK, TipoHilo
  <2>3. Recuerda(juez[1], "Download")
    BY <1>5 DEF Sella
  <2>4. QED
    BY <1>f, <2>1, <2>2, <2>3, RecuerdaVentana
<1>6. CASE FueraDeRango \/ Vuelve
  BY <1>6, <1>q, <1>f DEF FueraDeRango, Vuelve, EnBucle
<1>7. ASSUME NEW c \in Clientes, MeteFuera(c) PROVE VInv'
  BY <1>7, <1>q, <1>f DEF MeteFuera, EnBucle
<1>8. ASSUME NEW c \in Clientes, PasoRpc(c) PROVE VInv'
  <2>1. CASE MeteFuera(c)
    BY <2>1, <1>7
  <2>2. CASE ~MeteFuera(c)
    <3>1. UNCHANGED hilo
      BY <1>8, <2>2 DEF PasoRpc, Comprueba, Entra, Anade, Edita, EditaI, Activa, Saca,
                        Mete, BorraI, BorraS, Recoge
    <3>2. QED
      BY <3>1, <1>l DEF hilo
  <2>3. QED
    BY <2>1, <2>2
<1>9. CASE Llamada \/ Medianoche \/ UNCHANGED vars
  BY <1>9, <1>l DEF Llamada, Pide, Medianoche, vars, hilo
<1>10. QED
  BY <1>1, <1>2, <1>3, <1>4, <1>5, <1>6, <1>8, <1>9
     DEF Next, Llegada, PasoPrincipal, Handler

LEMMA VentanaSiempre == Spec => []VInv
<1>1. Init => VInv
  BY SharedRulesAssumption
     DEF Init, VInv, RecientesEsVentana, TituloNuevo, SinRepetidosCercanos, EnBucle
<1>2. TypeOK /\ VInv /\ [Next]_vars => VInv'
  BY VentanaPaso
<1>3. QED
  BY <1>1, <1>2, TypeCorrect, PTL DEF Spec

\* recientes is the window on the last accepted uploads, for every bound, any
\* number of clients and every interleaving with their requests.
THEOREM VentanaDeRecientes == Spec => []RecientesEsVentana
<1>1. VInv => RecientesEsVentana
  BY DEF VInv
<1>2. QED
  BY <1>1, VentanaSiempre, PTL

\* No title is downloaded or notified again before MaxRecientes + 1 others
\* were: requests that add, move or delete rules cannot cause a repetition.
THEOREM SinRepeticiones == Spec => []SinRepetidosCercanos
<1>1. VInv => SinRepetidosCercanos
  BY DEF VInv
<1>2. QED
  BY <1>1, VentanaSiempre, PTL

-----------------------------------------------------------------------------
(* A rule is in one place.  The strengthening: every uid was given out     *)
(* before, and only the handler between takeAt and insert holds a rule.    *)

Distintas(l) == \A j, k \in 1 .. Len(l) : l[j].uid = l[k].uid => j = k

\* Every rule of l is one of m, perhaps with other fields.
DeEntre(l, m) == \A j \in 1 .. Len(l) : \E k \in 1 .. Len(m) : l[j].uid = m[k].uid

UInv ==
  /\ Distintas(lista)
  /\ \A k \in 1 .. Len(lista) : lista[k].uid < uidLibre
  /\ \A c \in Clientes : mano[c] # <<>> =>
       /\ fasec[c] = "mete" /\ mano[c][1].uid < uidLibre
       /\ \A k \in 1 .. Len(lista) : lista[k].uid # mano[c][1].uid

\* A removal leaves distinct rules of the list, and not the removed one.
LEMMA UidsAlBorrar ==
  ASSUME NEW l \in Seq(Regla), NEW k \in 1 .. Len(l), Distintas(l)
  PROVE  /\ Distintas(RemoveAt(l, k)) /\ DeEntre(RemoveAt(l, k), l)
         /\ \A j \in 1 .. Len(RemoveAt(l, k)) : RemoveAt(l, k)[j].uid # l[k].uid
<1> DEFINE m == RemoveAt(l, k)
<1>1. /\ m \in Seq(Regla) /\ Len(m) = Len(l) - 1
      /\ \A j \in 1 .. Len(l) - 1 : m[j] = IF j < k THEN l[j] ELSE l[j + 1]
  BY RemoveAtPositions
<1> HIDE DEF m
<1>2. \A j \in 1 .. Len(m) : \E d \in 1 .. Len(l) :
        m[j] = l[d] /\ d = IF j < k THEN j ELSE j + 1
  BY <1>1
<1>3. DeEntre(m, l)
  BY <1>2 DEF DeEntre
<1>4. \A j \in 1 .. Len(m) : m[j].uid # l[k].uid
  BY <1>2 DEF Distintas
<1>5. Distintas(m)
  <2> SUFFICES ASSUME NEW j \in 1 .. Len(m), NEW h \in 1 .. Len(m), m[j].uid = m[h].uid
               PROVE  j = h
    BY DEF Distintas
  <2>1. PICK d \in 1 .. Len(l) : m[j] = l[d] /\ d = IF j < k THEN j ELSE j + 1
    BY <1>2
  <2>2. PICK e \in 1 .. Len(l) : m[h] = l[e] /\ e = IF h < k THEN h ELSE h + 1
    BY <1>2
  <2>3. d = e
    BY <2>1, <2>2 DEF Distintas
  <2>4. QED
    BY <1>1, <2>1, <2>2, <2>3
<1>6. QED
  BY <1>3, <1>4, <1>5 DEF m

\* The edits of a field touch no uid.
LEMMA UidsAlEditar ==
  ASSUME NEW l \in Seq(Regla), NEW k \in 1 .. Len(l), Distintas(l), NEW m,
         \/ \E n \in Nombres : m = Editada(l, k, n)
         \/ m = Conmutada(l, k)
         \/ \E d \in Nat : m = [l EXCEPT ![k].fecha = d]
  PROVE  Distintas(m) /\ DeEntre(m, l) /\ DeEntre(l, m)
<1>1. Len(m) = Len(l) /\ \A j \in 1 .. Len(l) : m[j].uid = l[j].uid
  <2>1. \A j \in 1 .. Len(l) : l[j] \in Regla
    BY ElementOfSeq
  <2>2. ASSUME NEW n \in Nombres, m = Editada(l, k, n)
        PROVE  Len(m) = Len(l) /\ \A j \in 1 .. Len(l) : m[j].uid = l[j].uid
    BY <2>1, <2>2, SMTT(30) DEF Editada, Regla
  <2>3. CASE m = Conmutada(l, k)
    BY <2>1, <2>3 DEF Conmutada, Regla
  <2>4. ASSUME NEW d \in Nat, m = [l EXCEPT ![k].fecha = d]
        PROVE  Len(m) = Len(l) /\ \A j \in 1 .. Len(l) : m[j].uid = l[j].uid
    BY <2>1, <2>4, SMTT(30) DEF Regla
  <2>5. QED
    BY <2>2, <2>3, <2>4
<1>2. QED
  BY <1>1 DEF Distintas, DeEntre

\* A step that adds no rule and leaves alone the handlers that hold one.
LEMMA UidsMenos ==
  ASSUME TypeOK, UInv, Distintas(lista'), DeEntre(lista', lista),
         uidLibre' = uidLibre, mano' = mano,
         \A c \in Clientes : mano[c] # <<>> => fasec'[c] = fasec[c]
  PROVE  UInv'
<1>1. \A k \in 1 .. Len(lista') : lista'[k].uid < uidLibre'
  BY DEF UInv, DeEntre
<1>2. ASSUME NEW c \in Clientes, mano[c] # <<>>
      PROVE  /\ fasec'[c] = "mete" /\ mano'[c][1].uid < uidLibre'
             /\ \A k \in 1 .. Len(lista') : lista'[k].uid # mano'[c][1].uid
  BY <1>2 DEF UInv, DeEntre
<1>3. QED
  BY <1>1, <1>2 DEF UInv

LEMMA UidsPrincipal ==
  ASSUME TypeOK, UInv, PasoPrincipal
  PROVE  UInv'
<1>1. UNCHANGED rpc
  BY DEF PasoPrincipal, Bucle, Vence, Borra, MiraRegla, Avisa, MiraDias, Sella,
         FueraDeRango, Vuelve
<1>2. Distintas(lista') /\ DeEntre(lista', lista)
  <2>1. CASE Borra
    BY <2>1, UidsAlBorrar DEF Borra, EnRango, TypeOK, TipoLista, UInv
  <2>2. CASE Sella
    BY <2>2, UidsAlEditar DEF Sella, EnRango, TypeOK, TipoLista, UInv
  <2>3. CASE Bucle \/ Vence \/ MiraRegla \/ Avisa \/ MiraDias \/ FueraDeRango \/ Vuelve
    BY <2>3 DEF Bucle, Vence, MiraRegla, Avisa, MiraDias, FueraDeRango, Vuelve, UInv, DeEntre
  <2>4. QED
    BY <2>1, <2>2, <2>3 DEF PasoPrincipal
<1>3. QED
  BY <1>1, <1>2, UidsMenos DEF rpc

LEMMA UidsRpc ==
  ASSUME TypeOK, ExclusionMutua, UInv, NEW c \in Clientes, PasoRpc(c)
  PROVE  UInv'
<1>t. /\ lista \in Seq(Regla) /\ fasec = [d \in Clientes |-> fasec[d]]
      /\ mano \in [Clientes -> Seq(Regla)] /\ uidLibre \in Nat
      /\ pet[c] \in Peticion \cup {Ninguna}
  BY DEF TypeOK, TipoLista, TipoRpc
<1>u. Distintas(lista) /\ DeEntre(lista, lista)
  BY DEF UInv, DeEntre
<1>s. ASSUME fasec[c] # "mete", uidLibre' = uidLibre, mano' = mano,
             \A d \in Clientes \ {c} : fasec'[d] = fasec[d],
             Distintas(lista'), DeEntre(lista', lista)
      PROVE  UInv'
  <2>1. \A d \in Clientes : mano[d] # <<>> => fasec'[d] = fasec[d]
    BY <1>s, <1>t DEF UInv
  <2>2. QED
    BY <1>s, <2>1, UidsMenos
<1>1. CASE Comprueba(c) \/ Entra(c) \/ Recoge(c)
  BY <1>1, <1>t, <1>s, <1>u DEF Comprueba, Entra, Recoge, Avanza, Responde
<1>2. CASE Edita(c)
  <2>1. Distintas(lista') /\ DeEntre(lista', lista)
    BY <1>2, <1>t, <1>u, UidsAlEditar, PeticionDe, SMTT(30)
    DEF Edita, Dentro, EsPrimera, Posiciones
  <2>2. QED
    BY <1>2, <1>t, <1>s, <2>1 DEF Edita, Dentro, Sale, Responde
<1>3. CASE EditaI(c)
  <2>1. Distintas(lista') /\ DeEntre(lista', lista)
    BY <1>3, <1>t, <1>u, UidsAlEditar, PeticionDe DEF EditaI, Dentro, EnRango
  <2>2. QED
    BY <1>3, <1>t, <1>s, <2>1 DEF EditaI, Dentro, Sale, Responde
<1>4. CASE Activa(c)
  <2>1. Distintas(lista') /\ DeEntre(lista', lista)
    BY <1>4, <1>t, <1>u, UidsAlEditar DEF Activa, EnRango
  <2>2. QED
    BY <1>4, <1>t, <1>s, <2>1 DEF Activa, Dentro, Sale, Responde
<1>5. CASE BorraI(c)
  <2>1. Distintas(lista') /\ DeEntre(lista', lista)
    BY <1>5, <1>t, <1>u, UidsAlBorrar DEF BorraI, EnRango
  <2>2. QED
    BY <1>5, <1>t, <1>s, <2>1 DEF BorraI, Dentro, Sale, Responde
<1>6. CASE BorraS(c)
  <2>1. UNCHANGED lista \/ \E k \in 1 .. Len(lista) : lista' = RemoveAt(lista, k)
    BY <1>6, <1>t DEF BorraS, Desde
  <2>2. Distintas(lista') /\ DeEntre(lista', lista)
    BY <1>t, <1>u, <2>1, UidsAlBorrar
  <2>3. QED
    BY <1>6, <1>t, <1>s, <2>2 DEF BorraS, Dentro, Avanza, Sale, Responde
<1>7. CASE Anade(c)
  <2>1. \A d \in Clientes : mano[d] = <<>> /\ mano'[d] = <<>>
    BY <1>7 DEF Anade, Dentro, UInv, ExclusionMutua, EnSeccion, TypeOK, TipoRpc
  <2> DEFINE r == NuevaRegla(uidLibre, pet[c].nombre, pet[c].vencimiento,
                             pet[c].tracker, pet[c].mail, pet[c].dias)
  <2>2. r.uid = uidLibre
    BY DEF NuevaRegla
  <2>3. lista' = Append(lista, r) /\ uidLibre' = uidLibre + 1
    BY <1>7 DEF Anade
  <2>4. /\ Len(lista') = Len(lista) + 1
        /\ \A k \in 1 .. Len(lista) : lista'[k] = lista[k]
        /\ lista'[Len(lista) + 1] = r
    BY <2>3, <1>t
  <2>5. \A k \in 1 .. Len(lista) : lista[k].uid \in Nat
    <3>1. \A k \in 1 .. Len(lista) : lista[k] \in Regla
      BY <1>t, ElementOfSeq
    <3>2. QED
      BY <3>1 DEF Regla
  <2> HIDE DEF r
  <2>6. QED
    BY <1>t, <2>1, <2>2, <2>3, <2>4, <2>5 DEF UInv, Distintas
<1>8. CASE Saca(c)
  <2>1. CASE ~(EnRango(lista, pet[c].pos) /\ EnRango(lista, pet[c].a))
    BY <1>8, <1>t, <2>1, <1>s, <1>u DEF Saca, Dentro, Sale, Responde
  <2>2. CASE EnRango(lista, pet[c].pos) /\ EnRango(lista, pet[c].a)
    <3>s. /\ pet[c].pos \in 1 .. Len(lista)
          /\ mano' = [mano EXCEPT ![c] = <<lista[pet[c].pos]>>]
          /\ lista' = RemoveAt(lista, pet[c].pos)
          /\ fasec' = [fasec EXCEPT ![c] = "mete"]
          /\ uidLibre' = uidLibre
      BY <1>8, <2>2 DEF Saca, Avanza, EnRango
    <3>1. \A d \in Clientes : d # c => mano'[d] = <<>>
      BY <1>8, <1>t, <3>s
         DEF Saca, Dentro, UInv, ExclusionMutua, EnSeccion, TypeOK, TipoRpc
    <3>2. /\ Distintas(lista') /\ DeEntre(lista', lista)
          /\ \A j \in 1 .. Len(lista') : lista'[j].uid # lista[pet[c].pos].uid
      BY <1>t, <1>u, <3>s, UidsAlBorrar
    <3>3. mano'[c][1] = lista[pet[c].pos] /\ fasec'[c] = "mete"
      BY <1>t, <3>s
    <3>4. QED
      BY <3>s, <3>1, <3>2, <3>3 DEF UInv, DeEntre
  <2>3. QED
    BY <2>1, <2>2
<1>9. CASE Mete(c)
  <2>1. \A d \in Clientes : mano'[d] = <<>>
    BY <1>9, <1>t DEF Mete, UInv, ExclusionMutua, EnSeccion, TypeOK, TipoRpc
  <2>2. /\ mano[c] # <<>> /\ mano[c][1] \in Regla
        /\ mano[c][1].uid < uidLibre
        /\ \A k \in 1 .. Len(lista) : lista[k].uid # mano[c][1].uid
    BY <1>9, <1>t DEF Mete, UInv, TypeOK, TipoRpc
  <2>3. pet[c].a \in 1 .. Len(lista) + 1
    BY <1>9, <1>t, PeticionDe DEF Mete, TypeOK, TipoRpc
  <2> DEFINE a == pet[c].a
             r == mano[c][1]
  <2>4. /\ Len(lista') = Len(lista) + 1
        /\ \A j \in 1 .. Len(lista) + 1 :
             lista'[j] = IF j < a THEN lista[j] ELSE IF j = a THEN r ELSE lista[j - 1]
    <3>1. lista' = InsertAt(lista, a, r)
      BY <1>9 DEF Mete
    <3>2. lista \in Seq(Regla) /\ a \in 1 .. Len(lista) + 1 /\ r \in Regla
      BY <1>t, <2>2, <2>3
    <3> HIDE DEF a, r
    <3>3. /\ InsertAt(lista, a, r) \in Seq(Regla)
          /\ Len(InsertAt(lista, a, r)) = Len(lista) + 1
          /\ \A j \in 1 .. Len(lista) + 1 :
               InsertAt(lista, a, r)[j] =
                 IF j < a THEN lista[j] ELSE IF j = a THEN r ELSE lista[j - 1]
      BY <3>2, InsertAtPositions
    <3>4. QED
      BY <3>1, <3>3
  <2> HIDE DEF a, r
  <2>5. \A j \in 1 .. Len(lista) + 1 :
          \/ j = a /\ lista'[j] = r
          \/ \E d \in 1 .. Len(lista) :
               d = (IF j < a THEN j ELSE j - 1) /\ j # a /\ lista'[j] = lista[d]
    BY <1>t, <2>3, <2>4 DEF a
  <2>6. Distintas(lista')
    <3> SUFFICES ASSUME NEW j \in 1 .. Len(lista) + 1, NEW k \in 1 .. Len(lista) + 1,
                        lista'[j].uid = lista'[k].uid
                 PROVE  j = k
      BY <2>4 DEF Distintas
    <3>1. a \in Int
      BY <2>3 DEF a
    <3>2. \A d \in 1 .. Len(lista) : lista[d].uid # r.uid
      BY <2>2 DEF r
    <3>3. CASE j = a \/ k = a
      BY <2>5, <3>2, <3>3
    <3>4. CASE j # a /\ k # a
      <4>1. PICK d \in 1 .. Len(lista) :
              d = (IF j < a THEN j ELSE j - 1) /\ lista'[j] = lista[d]
        BY <2>5, <3>4
      <4>2. PICK e \in 1 .. Len(lista) :
              e = (IF k < a THEN k ELSE k - 1) /\ lista'[k] = lista[e]
        BY <2>5, <3>4
      <4>3. d = e
        BY <1>u, <4>1, <4>2 DEF Distintas
      <4>4. QED
        BY <3>1, <3>4, <4>1, <4>2, <4>3
    <3>5. QED
      BY <3>3, <3>4
  <2>7. \A k \in 1 .. Len(lista') : lista'[k].uid < uidLibre
    BY <2>2, <2>4, <2>5 DEF UInv, r
  <2>8. QED
    BY <1>9, <2>1, <2>6, <2>7 DEF Mete, UInv
<1>10. CASE MeteFuera(c)
  BY <1>10, <1>u, UidsMenos DEF MeteFuera, rpc
<1>11. QED
  BY <1>1, <1>2, <1>3, <1>4, <1>5, <1>6, <1>7, <1>8, <1>9, <1>10 DEF PasoRpc

LEMMA UidsSiempre == Spec => []UInv
<1>1. ASSUME Init PROVE UInv
  BY <1>1, SharedRulesAssumption DEF Init, UInv, Distintas
<1>2. TypeOK /\ ExclusionMutua /\ UInv /\ [Next]_vars => UInv'
  <2> SUFFICES ASSUME TypeOK, ExclusionMutua, UInv, [Next]_vars PROVE UInv'
    OBVIOUS
  <2>1. CASE PasoPrincipal
    BY <2>1, UidsPrincipal
  <2>2. CASE Handler
    BY <2>2, UidsRpc DEF Handler
  <2>3. CASE Llegada \/ Medianoche \/ UNCHANGED vars
    <3>1. UNCHANGED <<lista, mano, fasec, uidLibre>>
      BY <2>3 DEF Llegada, YaVisto, MiraTitulo, Medianoche, vars, rpc
    <3>2. QED
      BY <3>1 DEF UInv, Distintas
  <2>4. ASSUME NEW c \in Clientes, NEW p \in Peticiones, Pide(c, p) PROVE UInv'
    <3>1. Distintas(lista') /\ DeEntre(lista', lista)
      BY <2>4 DEF Pide, UInv, DeEntre
    <3>2. \A d \in Clientes : mano[d] # <<>> => fasec'[d] = fasec[d]
      BY <2>4 DEF Pide, UInv, TypeOK, TipoRpc
    <3>3. QED
      BY <2>4, <3>1, <3>2, UidsMenos DEF Pide
  <2>5. QED
    BY <2>1, <2>2, <2>3, <2>4 DEF Next, Llamada
<1>3. QED
  BY <1>1, <1>2, TypeCorrect, MutexExcludes, PTL DEF Spec

\* No rule is ever in two places: the moves, the removals of the scan and the
\* edits of any number of handlers, interleaved, duplicate none.
THEOREM CadaReglaUna == Spec => []ReglasUnicas
<1>1. TypeOK /\ UInv => ReglasUnicas
  BY DEF UInv, Distintas, ReglasUnicas, TypeOK, TipoLista
<1>2. QED
  BY <1>1, UidsSiempre, TypeCorrect, PTL
-----------------------------------------------------------------------------
(* The replies.  A reply that says true comes out of the method its request *)
(* is for: only borrarRegexp(string) goes on from turn to turn of a loop.   *)

QInv == \A c \in Clientes : fasec[c] = "quita" => pet[c].op = "BorrarRegexpS"

LEMMA QInvSiempre == Spec => []QInv
<1>1. Init => QInv
  BY DEF Init, QInv
<1>2. TypeOK /\ QInv /\ [Next]_vars => QInv'
  <2> SUFFICES ASSUME TypeOK, QInv, [Next]_vars PROVE QInv'
    OBVIOUS
  <2>t. /\ fasec \in [Clientes -> {"fuera", "mira", "espera", "dentro", "mete", "quita",
                                   "respondida"}]
        /\ pet \in [Clientes -> Peticion \cup {Ninguna}]
    BY DEF TypeOK, TipoRpc
  <2>1. CASE UNCHANGED rpc
    BY <2>1 DEF QInv, rpc
  <2>2. ASSUME NEW c \in Clientes, NEW p \in Peticiones, Pide(c, p) PROVE QInv'
    BY <2>2, <2>t DEF Pide, QInv
  <2>3. ASSUME NEW c \in Clientes, PasoRpc(c) PROVE QInv'
    <3>1. CASE BorraS(c)
      <4>1. pet[c].op = "BorrarRegexpS" /\ UNCHANGED pet
        BY <3>1 DEF BorraS, Dentro, QInv, Avanza, Sale, Responde
      <4>2. \A d \in Clientes : d # c => fasec'[d] = fasec[d]
        BY <2>t, <3>1 DEF BorraS, Avanza, Sale, Responde
      <4>3. QED
        BY <4>1, <4>2 DEF QInv
    <3>2. CASE Recoge(c)
      BY <2>t, <3>2 DEF Recoge, QInv
    <3>3. CASE MeteFuera(c)
      BY <2>1, <3>3 DEF MeteFuera
    <3>4. CASE \/ Comprueba(c) \/ Entra(c) \/ Anade(c) \/ Edita(c) \/ EditaI(c)
               \/ Activa(c) \/ Saca(c) \/ Mete(c) \/ BorraI(c)
      <4>1. /\ UNCHANGED pet
            /\ \E f : f # "quita" /\ fasec' = [fasec EXCEPT ![c] = f]
        BY <3>4 DEF Comprueba, Entra, Anade, Edita, EditaI, Activa, Saca, Mete, BorraI,
                    Sale, Responde, Avanza
      <4>2. QED
        BY <2>t, <4>1 DEF QInv
    <3>5. QED
      BY <2>3, <3>1, <3>2, <3>3, <3>4 DEF PasoRpc
  <2>4. CASE Llegada \/ PasoPrincipal \/ Medianoche \/ UNCHANGED vars
    <3>1. UNCHANGED rpc
      BY <2>4 DEF Llegada, YaVisto, MiraTitulo, PasoPrincipal, Bucle, Vence, Borra,
                  MiraRegla, Avisa, MiraDias, Sella, FueraDeRango, Vuelve,
                  Medianoche, vars
    <3>2. QED
      BY <2>1, <3>1
  <2>5. QED
    BY <2>2, <2>3, <2>4 DEF Next, Llamada, Handler
<1>3. QED
  BY <1>1, <1>2, TypeCorrect, PTL DEF Spec

\* editarRegexp(int) and activarRegexp test the index again inside their
\* critical section: a reply of true comes with the change, at that index,
\* however the list has changed since the handler looked at its size.
THEOREM RespuestaCierta == Spec => ConfirmaLoHecho
<1> DEFINE A(c) ==
       /\ resp[c] = "ninguna" /\ resp'[c] = "true"
       /\ pet[c].op \in {"EditarRegexpI", "ActivarRegexp"}
       => /\ EnRango(lista, pet[c].pos)
          /\ lista'[pet[c].pos] =
               IF pet[c].op = "ActivarRegexp"
               THEN [lista[pet[c].pos] EXCEPT !.activa = ~@]
               ELSE [lista[pet[c].pos] EXCEPT !.nombre = pet[c].dest]
<1>1. ASSUME TypeOK, QInv, [Next]_vars, NEW c \in Clientes PROVE A(c)
  <2>t. /\ resp \in [Clientes -> {"ninguna", "true", "false", "OUT_OF_RANGE"}]
        /\ lista \in Seq(Regla)
    BY <1>1 DEF TypeOK, TipoRpc, TipoLista
  <2>1. CASE UNCHANGED resp
    BY <2>1
  <2>2. ASSUME NEW d \in Clientes, PasoRpc(d) PROVE A(c)
    <3>1. CASE d # c
      <4>1. UNCHANGED resp \/ \E v : resp' = [resp EXCEPT ![d] = v]
        BY <2>2 DEF PasoRpc, Comprueba, Entra, Anade, Edita, EditaI, Activa, Saca, Mete,
                    MeteFuera, BorraI, BorraS, Recoge, Sale, Responde, Avanza, rpc
      <4>2. QED
        BY <2>t, <3>1, <4>1
    <3>2. CASE EditaI(c)
      BY <2>t, <3>2 DEF EditaI, Dentro, Sale, Responde, EnRango, Editada
    <3>3. CASE Activa(c)
      BY <2>t, <3>3 DEF Activa, Dentro, Sale, Responde, EnRango, Conmutada
    <3>4. CASE Comprueba(c) \/ Entra(c) \/ Recoge(c) \/ MeteFuera(c)
      BY <2>t, <3>4 DEF Comprueba, Entra, Recoge, MeteFuera, Avanza, Responde, rpc
    <3>5. CASE Anade(c) \/ Edita(c) \/ Saca(c) \/ Mete(c) \/ BorraI(c) \/ BorraS(c)
      <4>1. pet[c].op \notin {"EditarRegexpI", "ActivarRegexp"}
        BY <1>1, <3>5 DEF Anade, Edita, Saca, Mete, BorraI, BorraS, Dentro, QInv,
                          TypeOK, TipoRpc
      <4>2. QED
        BY <4>1
    <3>6. QED
      BY <2>2, <3>1, <3>2, <3>3, <3>4, <3>5 DEF PasoRpc
  <2>3. CASE Llegada \/ PasoPrincipal \/ Llamada \/ Medianoche \/ UNCHANGED vars
    <3>1. UNCHANGED resp
      BY <2>3 DEF Llegada, YaVisto, MiraTitulo, PasoPrincipal, Bucle, Vence, Borra,
                  MiraRegla, Avisa, MiraDias, Sella, FueraDeRango, Vuelve,
                  Llamada, Pide, Medianoche, vars, rpc
    <3>2. QED
      BY <2>1, <3>1
  <2>4. QED
    BY <1>1, <2>2, <2>3 DEF Next, Handler
<1>2. TypeOK /\ QInv /\ [Next]_vars => [\A c \in Clientes : A(c)]_vars
  BY <1>1
<1>3. QED
  BY <1>2, TypeCorrect, QInvSiempre, PTL DEF Spec, ConfirmaLoHecho
=============================================================================
