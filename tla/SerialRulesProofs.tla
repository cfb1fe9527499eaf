-------------------------- MODULE SerialRulesProofs --------------------------
(***************************************************************************)
(* Proofs about SerialRules, for any rules, announcements, requests and    *)
(* number of handlers: while no critical section falls inside a scan the   *)
(* indexes stay in the list, the scan leaves behind only rules that do not *)
(* decide, a rule keeps its days between two downloads, and what is done   *)
(* is what RuleMatching promises.                                          *)
(***************************************************************************)
EXTENDS SerialRules, SharedRulesProofs

LEMMA SerialEsDeSpec == SerialSpec => Spec
<1>1. [SerialNext]_vars => [Next]_vars
  BY DEF SerialNext, Next
<1>2. QED
  BY <1>1, PTL DEF SerialSpec, Spec

\* What the theorems of SharedRules say at every state and the next one.
Base == TypeOK /\ ExclusionMutua /\ UInv

LEMMA BaseSiempre == SerialSpec => []Base
BY SerialEsDeSpec, TypeCorrect, MutexExcludes, UidsSiempre, PTL DEF Base

-----------------------------------------------------------------------------
(* Indexes.  No handler is inside a method while the scan walks the list,  *)
(* so the test of the loop still holds at each later visit to the rule i;  *)
(* and none but moverRegexp touches the list between its two halves.       *)

SInv ==
  /\ Vivo
  /\ fase # "libre" => cerrojo = Nadie
  /\ fase \in EnBucle \ {"bucle"} => i \in 1 .. Len(lista)
  /\ \A c \in Clientes : fasec[c] = "mete" => pet[c].a <= Len(lista) + 1

\* The step of a handler, between scans.
LEMMA SInvHandler ==
  ASSUME Base, SInv, fase = "libre", NEW c \in Clientes, PasoRpc(c)
  PROVE  SInv'
<1>t. /\ lista \in Seq(Regla) /\ Len(lista) \in Nat
      /\ fasec \in [Clientes -> {"fuera", "mira", "espera", "dentro", "mete", "quita",
                                 "respondida"}]
      /\ pet \in [Clientes -> Peticion \cup {Ninguna}]
  BY DEF Base, TypeOK, TipoLista, TipoRpc
<1>m. ~MeteFuera(c)
  <2>1. fasec[c] = "mete" => pet[c].a \in Int
    BY <1>t, PeticionDe DEF Base, TypeOK, TipoRpc
  <2>2. QED
    BY <1>t, <2>1 DEF MeteFuera, SInv
<1>1. UNCHANGED fase
  BY <1>m DEF PasoRpc, Comprueba, Entra, Anade, Edita, EditaI, Activa, Saca, Mete,
              BorraI, BorraS, Recoge, hilo
<1>2. \A d \in Clientes : fasec'[d] = "mete" => pet'[d].a <= Len(lista') + 1
  <2>1. CASE Saca(c) /\ EnRango(lista, pet[c].pos) /\ EnRango(lista, pet[c].a)
    <3>1. Len(lista') = Len(lista) - 1 /\ pet[c].a <= Len(lista) /\ pet[c].a \in Int
      BY <1>t, <2>1, RemoveAtPositions DEF Saca, EnRango
    <3>2. pet' = pet /\ fasec' = [fasec EXCEPT ![c] = "mete"]
      BY <2>1 DEF Saca, Avanza
    <3>3. \A d \in Clientes : d # c => fasec[d] # "mete"
      BY <2>1 DEF Saca, Dentro, Base, ExclusionMutua, EnSeccion
    <3>4. QED
      BY <1>t, <3>1, <3>2, <3>3
  <2>2. CASE Comprueba(c) \/ Entra(c) \/ Recoge(c)
    <3>1. UNCHANGED lista
      BY <2>2 DEF Comprueba, Entra, Recoge
    <3>2. \A d \in Clientes : fasec'[d] = "mete" => fasec[d] = "mete" /\ pet'[d] = pet[d]
      BY <1>t, <2>2 DEF Comprueba, Entra, Recoge, Avanza, Responde
    <3>3. QED
      BY <3>1, <3>2 DEF SInv
  <2>3. CASE \/ Anade(c) \/ Edita(c) \/ EditaI(c) \/ Activa(c) \/ Mete(c)
             \/ BorraI(c) \/ BorraS(c)
             \/ (Saca(c) /\ ~(EnRango(lista, pet[c].pos) /\ EnRango(lista, pet[c].a)))
    <3>1. cerrojo = c
      BY <1>t, <2>3 DEF Anade, Edita, EditaI, Activa, Mete, BorraI, BorraS, Saca, Dentro,
                        Base, ExclusionMutua, EnSeccion
    <3>2. \A d \in Clientes : d # c => fasec[d] # "mete"
      BY <3>1 DEF Base, ExclusionMutua, EnSeccion
    <3>3. fasec' = [fasec EXCEPT ![c] = "respondida"] \/ fasec' = [fasec EXCEPT ![c] = "quita"]
      BY <2>3 DEF Anade, Edita, EditaI, Activa, Mete, BorraI, BorraS, Saca, Sale, Responde,
                  Avanza
    <3>4. \A d \in Clientes : fasec'[d] # "mete"
      BY <1>t, <3>2, <3>3
    <3>5. QED
      BY <3>4
  <2>4. QED
    BY <1>m, <2>1, <2>2, <2>3 DEF PasoRpc
<1>3. QED
  BY <1>1, <1>2 DEF SInv, Vivo, EnBucle

LEMMA SInvSigue == Base /\ SInv /\ [SerialNext]_vars => SInv'
<1> SUFFICES ASSUME Base, SInv, [SerialNext]_vars PROVE SInv'
  OBVIOUS
<1>t. lista \in Seq(Regla) /\ Len(lista) \in Nat /\ i \in Nat \ {0}
  BY DEF Base, TypeOK, TipoLista, TipoHilo
<1>1. CASE cerrojo = Nadie /\ Llegada
  BY <1>1 DEF Llegada, YaVisto, MiraTitulo, Devuelve, rpc, SInv, Vivo, EnBucle
<1>2. CASE PasoPrincipal
  <2>0. cerrojo = Nadie /\ UNCHANGED rpc
    BY <1>2 DEF PasoPrincipal, Bucle, Vence, Borra, MiraRegla, Avisa, MiraDias, Sella,
                FueraDeRango, Vuelve, SInv
  <2>1. fase' # "roto" /\ (fase' \in EnBucle \ {"bucle"} => i' \in 1 .. Len(lista'))
    BY <1>2, <1>t DEF PasoPrincipal, Bucle, Vence, Borra, MiraRegla, Avisa, MiraDias, Sella,
                FueraDeRango, Vuelve, Siguiente, Devuelve, EnRango, SInv, EnBucle
  <2>2. \A c \in Clientes : fasec[c] # "mete"
    BY <2>0, SharedRulesAssumption DEF Base, ExclusionMutua, EnSeccion
  <2>3. QED
    BY <2>0, <2>1, <2>2 DEF SInv, Vivo, rpc
<1>3. ASSUME NEW c \in Clientes, NEW p \in Peticiones, Pide(c, p) PROVE SInv'
  <2>1. \A d \in Clientes : fasec'[d] = "mete" => fasec[d] = "mete" /\ pet'[d] = pet[d]
    BY <1>3 DEF Pide, Base, TypeOK, TipoRpc
  <2>2. QED
    BY <1>3, <2>1 DEF Pide, hilo, SInv, Vivo
<1>4. CASE fase = "libre" /\ Handler
  BY <1>4, SInvHandler DEF Handler
<1>5. CASE Medianoche \/ UNCHANGED vars
  BY <1>5 DEF Medianoche, vars, hilo, rpc, SInv, Vivo
<1>6. QED
  BY <1>1, <1>2, <1>3, <1>4, <1>5 DEF SerialNext, Llamada

LEMMA SInvSiempre == SerialSpec => []SInv
<1>1. Init => SInv
  BY DEF Init, SInv, Vivo, EnBucle
<1>2. QED
  BY <1>1, SInvSigue, BaseSiempre, PTL DEF SerialSpec

\* The scan never reads past the end of the list, and moverRegexp never
\* inserts past it, as long as no method runs inside a scan.
THEOREM SiempreEnRango == SerialSpec => []NuncaFueraDeRango
<1>1. SInv => NuncaFueraDeRango
  BY DEF SInv, NuncaFueraDeRango
<1>2. QED
  BY <1>1, SInvSiempre, PTL

-----------------------------------------------------------------------------
(* What the scan has left behind.  The tests of one rule are several       *)
(* steps: what the earlier ones found still holds at the later ones.       *)

PInv ==
  /\ fase \in EnBucle =>
       \A k \in 1 .. Len(lista) :
         k < i => ~Caducada(lista[k], hoy) /\ ~Acierta(lista[k], anuncio, hoy)
  /\ fase \in {"casa", "modo", "sella"} => ~Caducada(lista[i], hoy)
  /\ fase \in {"modo", "sella"} => Casa(lista[i], anuncio)

LEMMA PInvPrincipal ==
  ASSUME Base, SInv, PInv, PasoPrincipal
  PROVE  PInv'
<1>t. lista \in Seq(Regla) /\ Len(lista) \in Nat /\ i \in Nat \ {0}
  BY DEF Base, TypeOK, TipoLista, TipoHilo
<1>h. hoy' = hoy
  BY DEF PasoPrincipal, Bucle, Vence, Borra, MiraRegla, Avisa, MiraDias, Sella,
         FueraDeRango, Vuelve
<1>p. ASSUME fase \in EnBucle, lista' = lista, i' = i + 1, anuncio' = anuncio,
             fase' = "bucle",
             ~Caducada(lista[i], hoy) /\ ~Acierta(lista[i], anuncio, hoy)
      PROVE  PInv'
  <2>1. ASSUME NEW k \in 1 .. Len(lista), k < i + 1
        PROVE  ~Caducada(lista[k], hoy) /\ ~Acierta(lista[k], anuncio, hoy)
    <3>1. k < i \/ k = i
      BY <1>t, <2>1
    <3>2. QED
      BY <1>p, <3>1 DEF PInv
  <2>2. QED
    BY <1>h, <1>p, <2>1 DEF PInv
<1>v. ASSUME fase' \notin EnBucle PROVE PInv'
  BY <1>v DEF PInv, EnBucle
<1>1. CASE Bucle \/ Vence
  BY <1>1, <1>h, <1>v DEF Bucle, Vence, Devuelve, PInv, EnBucle
<1>2. CASE Borra
  <2>1. i \in 1 .. Len(lista) /\ lista' = RemoveAt(lista, i) /\ i' = i /\ fase' = "bucle"
        /\ anuncio' = anuncio /\ fase \in EnBucle
    BY <1>2 DEF Borra, EnRango, EnBucle
  <2>2. /\ Len(lista') = Len(lista) - 1
        /\ \A k \in 1 .. Len(lista') : lista'[k] = IF k < i THEN lista[k] ELSE lista[k + 1]
    BY <1>t, <2>1, RemoveAtPositions
  <2>3. \A k \in 1 .. Len(lista') : k < i => k \in 1 .. Len(lista) /\ lista'[k] = lista[k]
    BY <1>t, <2>2
  <2>4. QED
    BY <1>h, <2>1, <2>3 DEF PInv, EnBucle
<1>3. CASE MiraRegla
  <2>1. CASE Casa(lista[i], anuncio)
    BY <1>3, <1>h, <2>1 DEF MiraRegla, PInv, EnBucle
  <2>2. CASE ~Casa(lista[i], anuncio)
    <3>1. ~Caducada(lista[i], hoy) /\ ~Acierta(lista[i], anuncio, hoy)
      BY <1>3, <2>2 DEF MiraRegla, PInv, Acierta
    <3>2. QED
      BY <1>3, <1>p, <2>2, <3>1 DEF MiraRegla, Siguiente, EnBucle
  <2>3. QED
    BY <2>1, <2>2
<1>4. CASE MiraDias
  <2>1. CASE DemasiadoPronto(lista[i], hoy)
    <3>1. ~Caducada(lista[i], hoy) /\ ~Acierta(lista[i], anuncio, hoy)
      BY <1>4, <2>1 DEF MiraDias, PInv, Acierta
    <3>2. QED
      BY <1>4, <1>p, <2>1, <3>1 DEF MiraDias, Siguiente, EnBucle
  <2>2. CASE ~DemasiadoPronto(lista[i], hoy)
    BY <1>4, <1>h, <2>2 DEF MiraDias, PInv, EnBucle
  <2>3. QED
    BY <2>1, <2>2
<1>5. CASE Avisa \/ Sella \/ FueraDeRango \/ Vuelve
  BY <1>5, <1>v DEF Avisa, Sella, FueraDeRango, Vuelve, Devuelve, EnBucle
<1>6. QED
  BY <1>1, <1>2, <1>3, <1>4, <1>5 DEF PasoPrincipal

LEMMA PInvSigue == Base /\ SInv /\ PInv /\ [SerialNext]_vars => PInv'
<1> SUFFICES ASSUME Base, SInv, PInv, [SerialNext]_vars PROVE PInv'
  OBVIOUS
<1>1. CASE cerrojo = Nadie /\ Llegada
  BY <1>1 DEF Llegada, YaVisto, MiraTitulo, Devuelve, PInv, EnBucle
<1>2. CASE PasoPrincipal
  BY <1>2, PInvPrincipal
<1>3. CASE Llamada
  BY <1>3 DEF Llamada, Pide, hilo, PInv, EnBucle
<1>4. CASE fase = "libre" /\ (Handler \/ Medianoche)
  <2>1. fase' \notin EnBucle
    BY <1>4 DEF Handler, PasoRpc, Comprueba, Entra, Anade, Edita, EditaI, Activa, Saca,
                Mete, MeteFuera, BorraI, BorraS, Recoge, Medianoche, hilo, EnBucle
  <2>2. QED
    BY <2>1 DEF PInv, EnBucle
<1>5. CASE UNCHANGED vars
  BY <1>5 DEF vars, hilo, PInv, EnBucle
<1>6. QED
  BY <1>1, <1>2, <1>3, <1>4, <1>5 DEF SerialNext

LEMMA PInvSiempre == SerialSpec => []PInv
<1>1. Init => PInv
  BY DEF Init, PInv, EnBucle
<1>2. QED
  BY <1>1, PInvSigue, SInvSiempre, BaseSiempre, PTL DEF SerialSpec

\* Each rule the scan has passed was not expired and did not decide, although
\* removals have shifted the positions under the index.
THEOREM LoPasadoNoDecide == SerialSpec => []PrefijoDescartado
<1>1. Base /\ PInv => PrefijoDescartado
  BY DEF Base, TypeOK, TipoLista, PInv, PrefijoDescartado
<1>2. QED
  BY <1>1, PInvSiempre, BaseSiempre, PTL

-----------------------------------------------------------------------------
(* The days between downloads.  A rule carries, wherever it is, a date no  *)
(* earlier than its last download, and at the stamp the rule that decided  *)
(* is still the one at the index.                                          *)

AlDia(u, f) ==
  \A j \in 1 .. Len(aceptados) :
    aceptados[j].valor = "Download" /\ aceptados[j].uid = u => aceptados[j].dia <= f

FInv ==
  /\ \A j \in 1 .. Len(aceptados) :
       aceptados[j].uid < uidLibre /\ aceptados[j].dia >= 1 /\ aceptados[j].dia <= hoy
  /\ \A k \in 1 .. Len(lista) : AlDia(lista[k].uid, lista[k].fecha)
  /\ \A c \in Clientes : mano[c] # <<>> => AlDia(mano[c][1].uid, mano[c][1].fecha)
  /\ fase = "sella" => juez[1] = lista[i] /\ ~DemasiadoPronto(lista[i], hoy)
  /\ DiasMinimos

\* A rule of the list or of a hand has this uid and this date, or the uid is
\* still to be given out.
Conocida(u, f) ==
  \/ \E m \in 1 .. Len(lista) : lista[m].uid = u /\ lista[m].fecha = f
  \/ \E d \in Clientes : mano[d] # <<>> /\ mano[d][1].uid = u /\ mano[d][1].fecha = f
  \/ u >= uidLibre

Conocidas(l) == \A k \in 1 .. Len(l) : Conocida(l[k].uid, l[k].fecha)

LEMMA EditaConoce ==
  ASSUME Base, NEW k \in 1 .. Len(lista), NEW m,
         \/ \E n \in Nombres : m = Editada(lista, k, n)
         \/ m = Conmutada(lista, k)
         \/ m = RemoveAt(lista, k)
  PROVE  Conocidas(m)
<1>t. lista \in Seq(Regla) /\ Len(lista) \in Nat /\ \A j \in 1 .. Len(lista) : lista[j] \in Regla
  BY ElementOfSeq DEF Base, TypeOK, TipoLista
<1>1. CASE m = RemoveAt(lista, k)
  <2>1. /\ Len(m) = Len(lista) - 1
        /\ \A j \in 1 .. Len(m) : m[j] = IF j < k THEN lista[j] ELSE lista[j + 1]
    BY <1>t, <1>1, RemoveAtPositions
  <2>2. ASSUME NEW j \in 1 .. Len(m)
        PROVE  \E d \in 1 .. Len(lista) : m[j] = lista[d]
    <3>1. j \in 1 .. Len(lista) /\ j + 1 \in 1 .. Len(lista)
      BY <1>t, <2>1
    <3>2. m[j] = lista[j] \/ m[j] = lista[j + 1]
      BY <2>1
    <3>3. QED
      BY <3>1, <3>2
  <2>3. QED
    BY <2>2 DEF Conocidas, Conocida
<1>2. ASSUME NEW e \in Regla, m = [lista EXCEPT ![k] = e],
             e.uid = lista[k].uid, e.fecha = lista[k].fecha
      PROVE  Conocidas(m)
  <2>1. Len(m) = Len(lista) /\ \A j \in 1 .. Len(lista) : m[j] = IF j = k THEN e ELSE lista[j]
    BY <1>t, <1>2, ReplacePositions
  <2>2. QED
    BY <1>2, <2>1 DEF Conocidas, Conocida
<1>3. ASSUME NEW n \in Nombres, m = Editada(lista, k, n) PROVE Conocidas(m)
  <2> DEFINE e == [lista[k] EXCEPT !.nombre = n]
  <2>1. e \in Regla /\ e.uid = lista[k].uid /\ e.fecha = lista[k].fecha
    BY <1>t DEF Regla
  <2>2. m = [lista EXCEPT ![k] = e]
    BY <1>3 DEF Editada
  <2>3. QED
    BY <1>2, <2>1, <2>2
<1>4. ASSUME m = Conmutada(lista, k) PROVE Conocidas(m)
  <2> DEFINE e == [lista[k] EXCEPT !.activa = ~@]
  <2>1. e \in Regla /\ e.uid = lista[k].uid /\ e.fecha = lista[k].fecha
    BY <1>t DEF Regla
  <2>2. m = [lista EXCEPT ![k] = e]
    BY <1>4 DEF Conmutada
  <2>3. QED
    BY <1>2, <2>1, <2>2
<1>5. QED
  BY <1>1, <1>3, <1>4

\* No method makes up a date: what it leaves in the list and in its hand is
\* known, or is a new rule.
LEMMA HandlerConoce ==
  ASSUME Base, NEW c \in Clientes, PasoRpc(c)
  PROVE  /\ Conocidas(lista')
         /\ \A d \in Clientes : mano'[d] # <<>> => Conocida(mano'[d][1].uid, mano'[d][1].fecha)
         /\ UNCHANGED <<hoy, aceptados>> /\ uidLibre' >= uidLibre
<1>t. /\ lista \in Seq(Regla) /\ Len(lista) \in Nat /\ uidLibre \in Nat
      /\ mano \in [Clientes -> Seq(Regla)] /\ pet[c] \in Peticion \cup {Ninguna}
      /\ \A j \in 1 .. Len(lista) : lista[j] \in Regla
  BY ElementOfSeq DEF Base, TypeOK, TipoLista, TipoRpc
<1>u. UNCHANGED <<hoy, aceptados>> /\ uidLibre' >= uidLibre
  BY <1>t DEF PasoRpc, Comprueba, Entra, Anade, Edita, EditaI, Activa, Saca, Mete, MeteFuera,
              BorraI, BorraS, Recoge, hilo, rpc
<1>l. Conocidas(lista)
  BY DEF Conocidas, Conocida
<1>m. \A d \in Clientes : mano[d] # <<>> => Conocida(mano[d][1].uid, mano[d][1].fecha)
  BY DEF Conocida
<1>1. CASE Comprueba(c) \/ Entra(c) \/ Recoge(c) \/ MeteFuera(c)
  BY <1>1, <1>u, <1>l, <1>m DEF Comprueba, Entra, Recoge, MeteFuera, rpc
<1>2. CASE Edita(c) \/ EditaI(c) \/ Activa(c) \/ BorraI(c) \/ BorraS(c)
  <2>1. mano' = mano
    BY <1>2 DEF Edita, EditaI, Activa, BorraI, BorraS
  <2>2. \/ lista' = lista
        \/ \E k \in 1 .. Len(lista) :
             \/ \E n \in Nombres : lista' = Editada(lista, k, n)
             \/ lista' = Conmutada(lista, k)
             \/ lista' = RemoveAt(lista, k)
    BY <1>2, <1>t, PeticionDe
       DEF Edita, EditaI, Activa, BorraI, BorraS, Dentro, EnRango, EsPrimera, Posiciones, Desde
  <2>3. Conocidas(lista')
    BY <1>l, <2>2, EditaConoce
  <2>4. QED
    BY <1>u, <1>m, <2>1, <2>3
<1>3. CASE Anade(c)
  <2> DEFINE r == NuevaRegla(uidLibre, pet[c].nombre, pet[c].vencimiento,
                             pet[c].tracker, pet[c].mail, pet[c].dias)
  <2>1. r.uid = uidLibre
    BY DEF NuevaRegla
  <2>2. lista' = Append(lista, r) /\ mano' = mano
    BY <1>3 DEF Anade
  <2> HIDE DEF r
  <2>3. /\ Len(lista') = Len(lista) + 1 /\ lista'[Len(lista) + 1] = r
        /\ \A k \in 1 .. Len(lista) : lista'[k] = lista[k]
    BY <1>t, <2>2
  <2>4. ASSUME NEW k \in 1 .. Len(lista')
        PROVE  Conocida(lista'[k].uid, lista'[k].fecha)
    <3>1. CASE k \in 1 .. Len(lista)
      BY <2>3, <3>1 DEF Conocida
    <3>2. CASE k = Len(lista) + 1
      BY <1>t, <2>1, <2>3, <3>2 DEF Conocida
    <3>3. QED
      BY <1>t, <2>3, <3>1, <3>2
  <2>5. QED
    BY <1>u, <1>m, <2>2, <2>4 DEF Conocidas
<1>4. CASE Saca(c)
  <2>1. CASE EnRango(lista, pet[c].pos) /\ EnRango(lista, pet[c].a)
    <3>1. /\ pet[c].pos \in 1 .. Len(lista) /\ lista' = RemoveAt(lista, pet[c].pos)
          /\ mano' = [mano EXCEPT ![c] = <<lista[pet[c].pos]>>]
      BY <1>4, <2>1 DEF Saca, EnRango
    <3>2. Conocidas(lista')
      BY <3>1, EditaConoce
    <3>3. mano'[c][1] = lista[pet[c].pos] /\ \A d \in Clientes \ {c} : mano'[d] = mano[d]
      BY <1>t, <3>1
    <3>4. Conocida(mano'[c][1].uid, mano'[c][1].fecha)
      BY <3>1, <3>3 DEF Conocida
    <3>5. QED
      BY <1>u, <1>m, <3>2, <3>3, <3>4
  <2>2. CASE ~(EnRango(lista, pet[c].pos) /\ EnRango(lista, pet[c].a))
    BY <1>4, <1>u, <1>l, <1>m, <2>2 DEF Saca
  <2>3. QED
    BY <2>1, <2>2
<1>5. CASE Mete(c)
  <2>1. fasec[c] = "mete" /\ mano[c] # <<>> /\ mano[c][1] \in Regla
    BY <1>5, <1>t DEF Mete, Base, TypeOK, TipoRpc
  <2>2. pet[c].a \in 1 .. Len(lista) + 1
    BY <1>5, <1>t, PeticionDe DEF Mete, Base, TypeOK, TipoRpc
  <2> DEFINE a == pet[c].a
             r == mano[c][1]
  <2>3. lista' = InsertAt(lista, a, r) /\ mano' = [mano EXCEPT ![c] = <<>>]
    BY <1>5 DEF Mete
  <2>4. a \in 1 .. Len(lista) + 1 /\ r \in Regla /\ Conocida(r.uid, r.fecha)
    BY <2>1, <2>2 DEF Conocida
  <2> HIDE DEF a, r
  <2>5. /\ Len(lista') = Len(lista) + 1
        /\ \A j \in 1 .. Len(lista) + 1 :
             lista'[j] = IF j < a THEN lista[j] ELSE IF j = a THEN r ELSE lista[j - 1]
    <3>1. lista \in Seq(Regla)
      BY <1>t
    <3>2. /\ InsertAt(lista, a, r) \in Seq(Regla)
          /\ Len(InsertAt(lista, a, r)) = Len(lista) + 1
          /\ \A j \in 1 .. Len(lista) + 1 :
               InsertAt(lista, a, r)[j] =
                 IF j < a THEN lista[j] ELSE IF j = a THEN r ELSE lista[j - 1]
      BY <2>4, <3>1, InsertAtPositions
    <3>3. QED
      BY <2>3, <3>2
  <2>6. \A j \in 1 .. Len(lista') : lista'[j] = r \/ \E d \in 1 .. Len(lista) : lista'[j] = lista[d]
    BY <1>t, <2>4, <2>5
  <2>7. Conocidas(lista')
    BY <2>4, <2>6, <1>l DEF Conocidas
  <2>8. \A d \in Clientes : mano'[d] # <<>> => mano'[d] = mano[d]
    BY <1>t, <2>3
  <2>9. QED
    BY <1>u, <1>m, <2>7, <2>8
<1>6. QED
  BY <1>1, <1>2, <1>3, <1>4, <1>5 DEF PasoRpc

\* A step that accepts nothing and leaves only known rules, out of "sella".
LEMMA FInvSinAceptar ==
  ASSUME Base, FInv, Conocidas(lista'),
         \A d \in Clientes : mano'[d] # <<>> => Conocida(mano'[d][1].uid, mano'[d][1].fecha),
         aceptados' = aceptados, hoy' \in Nat, hoy' >= hoy, uidLibre' \in Nat,
         uidLibre' >= uidLibre,
         fase' = "sella" => juez'[1] = lista'[i'] /\ ~DemasiadoPronto(lista'[i'], hoy')
  PROVE  FInv'
<1>t. /\ hoy \in Nat /\ uidLibre \in Nat
      /\ \A j \in 1 .. Len(aceptados) : aceptados[j] \in Aceptacion
  BY ElementOfSeq DEF Base, TypeOK, TipoLista, TipoHilo, TipoRpc
<1>1. \A j \in 1 .. Len(aceptados) :
        aceptados[j].uid < uidLibre' /\ aceptados[j].dia >= 1 /\ aceptados[j].dia <= hoy'
  BY <1>t DEF FInv, Aceptacion
<1>2. ASSUME NEW u, NEW f, Conocida(u, f) PROVE AlDia(u, f)
  <2>1. CASE u >= uidLibre
    BY <1>t, <2>1 DEF FInv, AlDia, Aceptacion
  <2>2. QED
    BY <1>2, <2>1 DEF Conocida, FInv
<1>3. ASSUME NEW u, NEW f, AlDia(u, f) PROVE AlDia(u, f)'
  BY <1>3 DEF AlDia
<1>4. /\ \A k \in 1 .. Len(lista') : AlDia(lista'[k].uid, lista'[k].fecha)
      /\ \A d \in Clientes : mano'[d] # <<>> => AlDia(mano'[d][1].uid, mano'[d][1].fecha)
  BY <1>2 DEF Conocidas
<1>5. /\ \A k \in 1 .. Len(lista') : AlDia(lista[k].uid, lista[k].fecha)'
      /\ \A d \in Clientes : mano'[d] # <<>> => AlDia(mano[d][1].uid, mano[d][1].fecha)'
  BY <1>4 DEF AlDia
<1>6. DiasMinimos'
  BY DEF FInv, DiasMinimos
<1>7. QED
  BY <1>1, <1>5, <1>6 DEF FInv

\* miraTitulo keeps a title: one more upload accepted, by the rule r.
LEMMA Aceptada ==
  ASSUME Base, NEW r \in Regla, NEW v, Recuerda(r, v), v \in {"Download", "AlreadyNotified"}
  PROVE  /\ Len(aceptados) \in Nat /\ Len(aceptados') = Len(aceptados) + 1
         /\ \A j \in 1 .. Len(aceptados) : aceptados'[j] = aceptados[j]
         /\ aceptados'[Len(aceptados) + 1].uid = r.uid
         /\ aceptados'[Len(aceptados) + 1].dia = hoy
         /\ aceptados'[Len(aceptados) + 1].dias = r.dias
         /\ aceptados'[Len(aceptados) + 1].valor = v
<1> DEFINE e == [titulo |-> anuncio.titulo, uid |-> r.uid, dia |-> hoy,
                 dias |-> r.dias, valor |-> v]
<1>1. aceptados' = Append(aceptados, e) /\ aceptados \in Seq(Aceptacion)
  BY DEF Recuerda, Base, TypeOK, TipoHilo
<1>2. e.uid = r.uid /\ e.dia = hoy /\ e.dias = r.dias /\ e.valor = v
  OBVIOUS
<1> HIDE DEF e
<1>3. QED
  BY <1>1, <1>2

LEMMA FInvAvisa ==
  ASSUME Base, SInv, FInv, Avisa, aceptados' # aceptados
  PROVE  FInv'
<1>t. /\ lista[i] \in Regla /\ i \in 1 .. Len(lista) /\ hoy \in Nat /\ hoy >= 1
      /\ lista[i].uid < uidLibre
  BY ElementOfSeq DEF Avisa, EnRango, Base, UInv, TypeOK, TipoLista
<1>1. Recuerda(lista[i], "AlreadyNotified") /\ UNCHANGED <<lista, hoy, mano, uidLibre>>
      /\ fase' = "vuelto"
  BY DEF Avisa, Devuelve, rpc
<1> DEFINE q == Len(aceptados)
<1>2. /\ q \in Nat /\ Len(aceptados') = q + 1
      /\ \A j \in 1 .. q : aceptados'[j] = aceptados[j]
      /\ aceptados'[q + 1].uid = lista[i].uid /\ aceptados'[q + 1].dia = hoy
      /\ aceptados'[q + 1].valor = "AlreadyNotified"
  BY <1>t, <1>1, Aceptada
<1> HIDE DEF q
<1>3. \A j \in 1 .. Len(aceptados') :
        aceptados'[j].valor = "Download" => j \in 1 .. q /\ aceptados'[j] = aceptados[j]
  BY <1>2
<1>4. \A j \in 1 .. Len(aceptados') :
        aceptados'[j].uid < uidLibre /\ aceptados'[j].dia >= 1 /\ aceptados'[j].dia <= hoy
  <2>1. ASSUME NEW j \in 1 .. Len(aceptados')
        PROVE  aceptados'[j].uid < uidLibre /\ aceptados'[j].dia >= 1 /\ aceptados'[j].dia <= hoy
    <3>1. CASE j \in 1 .. q
      BY <1>2, <3>1 DEF FInv, q
    <3>2. CASE j = q + 1
      BY <1>t, <1>2, <3>2
    <3>3. QED
      BY <1>2, <3>1, <3>2
  <2>2. QED
    BY <2>1
<1>5. ASSUME NEW u, NEW f, AlDia(u, f)
      PROVE  \A j \in 1 .. Len(aceptados') :
               aceptados'[j].valor = "Download" /\ aceptados'[j].uid = u
               => aceptados'[j].dia <= f
  BY <1>3, <1>5 DEF AlDia, q
<1>6. /\ \A k \in 1 .. Len(lista') : AlDia(lista[k].uid, lista[k].fecha)'
      /\ \A d \in Clientes : mano'[d] # <<>> => AlDia(mano[d][1].uid, mano[d][1].fecha)'
  <2>1. ASSUME NEW k \in 1 .. Len(lista') PROVE AlDia(lista[k].uid, lista[k].fecha)'
    <3>1. lista' = lista /\ AlDia(lista[k].uid, lista[k].fecha)
      BY <1>1, <2>1 DEF FInv
    <3>2. QED
      BY <1>5, <3>1 DEF AlDia
  <2>2. ASSUME NEW d \in Clientes, mano'[d] # <<>>
        PROVE  AlDia(mano[d][1].uid, mano[d][1].fecha)'
    <3>1. mano' = mano /\ AlDia(mano[d][1].uid, mano[d][1].fecha)
      BY <1>1, <2>2 DEF FInv
    <3>2. QED
      BY <1>5, <3>1 DEF AlDia
  <2>3. QED
    BY <2>1, <2>2
<1>7. DiasMinimos'
  <2>1. aceptados \in Seq(Aceptacion) /\ DOMAIN aceptados = 1 .. q
    BY DEF Base, TypeOK, TipoHilo, q
  <2>2. DOMAIN aceptados' = 1 .. Len(aceptados')
    BY <1>1, <2>1 DEF Recuerda
  <2>3. QED
    BY <1>3, <2>1, <2>2 DEF FInv, DiasMinimos
<1>8. QED
  BY <1>1, <1>4, <1>6, <1>7 DEF FInv

LEMMA FInvSella ==
  ASSUME Base, SInv, FInv, Sella
  PROVE  FInv'
<1> DEFINE q == Len(aceptados)
<1>t. /\ lista[i] \in Regla /\ i \in 1 .. Len(lista) /\ hoy \in Nat /\ hoy >= 1
      /\ lista[i].uid < uidLibre /\ juez[1] = lista[i] /\ ~DemasiadoPronto(lista[i], hoy)
      /\ lista \in Seq(Regla) /\ \A k \in 1 .. Len(lista) : lista[k] \in Regla
      /\ \A j \in 1 .. q : aceptados[j] \in Aceptacion
  BY ElementOfSeq DEF Sella, EnRango, Base, UInv, TypeOK, TipoLista, TipoHilo, FInv
<1>1. /\ Recuerda(lista[i], "Download") /\ lista' = [lista EXCEPT ![i].fecha = hoy]
      /\ UNCHANGED <<hoy, mano, uidLibre>> /\ fase' = "vuelto"
  BY <1>t DEF Sella, Devuelve, rpc
<1>2. /\ q \in Nat /\ Len(aceptados') = q + 1
      /\ \A j \in 1 .. q : aceptados'[j] = aceptados[j]
      /\ aceptados'[q + 1].uid = lista[i].uid /\ aceptados'[q + 1].dia = hoy
      /\ aceptados'[q + 1].dias = lista[i].dias
  BY <1>t, <1>1, Aceptada
<1> HIDE DEF q
<1>3. /\ Len(lista') = Len(lista) /\ lista'[i].uid = lista[i].uid /\ lista'[i].fecha = hoy
      /\ \A k \in 1 .. Len(lista) : k # i => lista'[k] = lista[k]
  <2>1. /\ lista \in Seq(Regla) /\ i \in 1 .. Len(lista) /\ lista[i] \in Regla
        /\ [lista[i] EXCEPT !.fecha = hoy] \in Regla
    <3>1. lista[i] \in Regla /\ lista[i].nombre \in Nombres /\ hoy \in Nat
      BY <1>t DEF Regla
    <3>2. QED
      BY <1>t, <3>1, FieldEdits
  <2>2. lista' = [lista EXCEPT ![i] = [lista[i] EXCEPT !.fecha = hoy]]
    BY <1>1
  <2>3. /\ [lista[i] EXCEPT !.fecha = hoy].uid = lista[i].uid
        /\ [lista[i] EXCEPT !.fecha = hoy].fecha = hoy
    BY <2>1 DEF Regla
  <2>4. QED
    BY <2>1, <2>2, <2>3, ReplacePositions
<1>4. ASSUME NEW j \in 1 .. Len(aceptados')
      PROVE  /\ aceptados'[j].uid < uidLibre
             /\ aceptados'[j].dia \in Nat /\ aceptados'[j].dia >= 1 /\ aceptados'[j].dia <= hoy
  <2>1. CASE j \in 1 .. q
    BY <1>t, <1>2, <2>1 DEF FInv, Aceptacion, q
  <2>2. CASE j = q + 1
    BY <1>t, <1>2, <2>2
  <2>3. QED
    BY <1>2, <2>1, <2>2
<1>5. ASSUME NEW k \in 1 .. Len(lista'), NEW j \in 1 .. Len(aceptados'),
             aceptados'[j].valor = "Download", aceptados'[j].uid = lista'[k].uid
      PROVE  aceptados'[j].dia <= lista'[k].fecha
  <2>1. CASE k = i
    BY <1>3, <1>4, <2>1
  <2>2. CASE k # i
    <3>1. k \in 1 .. Len(lista) /\ lista'[k] = lista[k] /\ lista[k].uid # lista[i].uid
      BY <1>t, <1>3, <2>2 DEF Base, UInv, Distintas
    <3>2. j \in 1 .. q /\ aceptados'[j] = aceptados[j]
      BY <1>2, <1>5, <3>1
    <3>3. QED
      BY <1>5, <3>1, <3>2 DEF FInv, AlDia, q
  <2>3. QED
    BY <2>1, <2>2
<1>6. \A d \in Clientes : mano[d] = <<>>
  <2>1. cerrojo = Nadie
    BY DEF Sella, SInv
  <2>2. QED
    BY <2>1, SharedRulesAssumption DEF Base, UInv, ExclusionMutua, EnSeccion
<1>7. ASSUME NEW j \in 1 .. Len(aceptados'), NEW k \in 1 .. Len(aceptados'), j < k,
             aceptados'[j].uid = aceptados'[k].uid,
             aceptados'[j].valor = "Download", aceptados'[k].valor = "Download"
      PROVE  aceptados'[k].dia - aceptados'[j].dia >= aceptados'[k].dias
  <2>d. DOMAIN aceptados = 1 .. q
    BY DEF Base, TypeOK, TipoHilo, q
  <2>1. CASE k \in 1 .. q
    <3>1. /\ j \in 1 .. q
          /\ aceptados'[j] = aceptados[j] /\ aceptados'[k] = aceptados[k]
      BY <1>2, <1>7, <2>1
    <3>2. DiasMinimos
      BY DEF FInv
    <3>3. aceptados[k].dia - aceptados[j].dia >= aceptados[k].dias
      BY <1>7, <2>1, <2>d, <3>1, <3>2 DEF DiasMinimos
    <3>4. QED
      BY <3>1, <3>3
  <2>2. CASE k = q + 1
    <3>1. j \in 1 .. q /\ aceptados'[j] = aceptados[j] /\ aceptados[j].uid = lista[i].uid
      BY <1>2, <1>7, <2>2
    <3>2. aceptados[j].dia <= lista[i].fecha
      BY <1>t, <1>7, <3>1 DEF FInv, AlDia, q
    <3>3. aceptados[j].dia \in Nat /\ aceptados[j].dia >= 1 /\ lista[i].fecha \in Nat
          /\ lista[i].dias \in Int
      BY <1>t, <1>4, <3>1 DEF Regla
    <3>4. hoy - lista[i].fecha >= lista[i].dias
      <4>1. hoy \in Nat /\ ~DemasiadoPronto(lista[i], hoy)
        BY <1>t
      <4>2. QED
        BY <4>1, <3>2, <3>3 DEF DemasiadoPronto, SinDescarga
    <3>5. QED
      BY <1>t, <1>2, <2>2, <3>1, <3>2, <3>3, <3>4
  <2>3. QED
    BY <1>2, <2>1, <2>2
<1>8. DiasMinimos'
  <2>1. DOMAIN aceptados' = 1 .. Len(aceptados')
    BY <1>1 DEF Recuerda, Base, TypeOK, TipoHilo
  <2>2. QED
    BY <1>7, <2>1 DEF DiasMinimos
<1>9. /\ \A k \in 1 .. Len(lista') : AlDia(lista[k].uid, lista[k].fecha)'
      /\ \A d \in Clientes : mano'[d] = <<>>
  BY <1>1, <1>5, <1>6 DEF AlDia
<1>10. QED
  BY <1>1, <1>4, <1>8, <1>9 DEF FInv

LEMMA FInvSigue == Base /\ SInv /\ FInv /\ [SerialNext]_vars => FInv'
<1> SUFFICES ASSUME Base, SInv, FInv, [SerialNext]_vars PROVE FInv'
  OBVIOUS
<1>t. hoy \in Nat /\ uidLibre \in Nat /\ lista \in Seq(Regla)
  BY DEF Base, TypeOK, TipoLista, TipoRpc
<1>l. Conocidas(lista)
  BY DEF Conocidas, Conocida
<1>m. \A d \in Clientes : mano[d] # <<>> => Conocida(mano[d][1].uid, mano[d][1].fecha)
  BY DEF Conocida
<1>q. ASSUME UNCHANGED <<lista, mano, aceptados, uidLibre>>, hoy' \in Nat, hoy' >= hoy,
             fase' = "sella" => juez'[1] = lista[i'] /\ ~DemasiadoPronto(lista[i'], hoy')
      PROVE  FInv'
  BY <1>q, <1>t, <1>l, <1>m, FInvSinAceptar
<1>1. CASE cerrojo = Nadie /\ Llegada
  BY <1>1, <1>t, <1>q DEF Llegada, YaVisto, MiraTitulo, Devuelve, rpc
<1>2. CASE Bucle \/ Vence \/ MiraRegla \/ FueraDeRango \/ Vuelve
  BY <1>2, <1>t, <1>q DEF Bucle, Vence, MiraRegla, FueraDeRango, Vuelve, Siguiente, Devuelve, rpc
<1>3. CASE Borra
  <2>1. Conocidas(lista')
    BY <1>3, EditaConoce DEF Borra, EnRango
  <2>2. UNCHANGED <<mano, aceptados, uidLibre, hoy>> /\ fase' = "bucle"
    BY <1>3 DEF Borra, rpc
  <2>3. QED
    BY <1>t, <1>m, <2>1, <2>2, FInvSinAceptar
<1>4. CASE MiraDias
  <2>1. fase' = "sella" => juez' = <<lista[i]>> /\ i' = i /\ ~DemasiadoPronto(lista[i], hoy)
    BY <1>4 DEF MiraDias, Siguiente
  <2>2. QED
    BY <1>4, <1>t, <1>q, <2>1 DEF MiraDias, rpc
<1>5. CASE Avisa
  <2>1. CASE aceptados' = aceptados
    BY <1>5, <1>t, <1>q, <2>1 DEF Avisa, Devuelve, rpc
  <2>2. QED
    BY <1>5, <2>1, FInvAvisa
<1>6. CASE Sella
  BY <1>6, FInvSella
<1>7. CASE Llamada
  BY <1>7, <1>t, <1>q DEF Llamada, Pide, hilo, FInv
<1>8. CASE fase = "libre" /\ Handler
  <2>1. PICK c \in Clientes : PasoRpc(c)
    BY <1>8 DEF Handler
  <2>2. fase' # "sella"
    BY <1>8, <2>1 DEF PasoRpc, Comprueba, Entra, Anade, Edita, EditaI, Activa, Saca, Mete,
                      MeteFuera, BorraI, BorraS, Recoge, hilo
  <2>3. uidLibre' \in Nat
    BY <2>1, <1>t DEF PasoRpc, Comprueba, Entra, Anade, Edita, EditaI, Activa, Saca, Mete,
                      MeteFuera, BorraI, BorraS, Recoge, rpc
  <2>4. QED
    BY <1>t, <2>1, <2>2, <2>3, HandlerConoce, FInvSinAceptar
<1>9. CASE fase = "libre" /\ Medianoche
  BY <1>9, <1>t, <1>q DEF Medianoche, hilo, rpc
<1>10. CASE UNCHANGED vars
  BY <1>10, <1>t, <1>q DEF vars, hilo, rpc, FInv
<1>11. QED
  BY <1>1, <1>2, <1>3, <1>4, <1>5, <1>6, <1>7, <1>8, <1>9, <1>10
     DEF SerialNext, PasoPrincipal

LEMMA FInvSiempre == SerialSpec => []FInv
<1>1. Init => FInv
  <2> SUFFICES ASSUME Init PROVE FInv
    OBVIOUS
  <2>1. aceptados = <<>> /\ Len(aceptados) = 0 /\ DOMAIN aceptados = {}
        /\ fase # "sella" /\ \A c \in Clientes : mano[c] = <<>>
    BY DEF Init
  <2>2. QED
    BY <2>1 DEF FInv, AlDia, DiasMinimos
<1>2. QED
  BY <1>1, FInvSigue, SInvSiempre, BaseSiempre, PTL DEF SerialSpec

\* Two downloads by one rule are its days apart, whatever the handlers do to
\* the rules between scans: edits, moves and removals carry the date along.
THEOREM DiasEntreDescargas == SerialSpec => []DiasMinimos
<1>1. FInv => DiasMinimos
  BY DEF FInv
<1>2. QED
  BY <1>1, FInvSiempre, PTL

-----------------------------------------------------------------------------
(* What leaves the list.  The rule the scan removes is still the one whose *)
(* expiry it has read.                                                     *)

VenceInv == fase = "borra" => Caducada(lista[i], hoy)

LEMMA VenceInvSiempre == SerialSpec => []VenceInv
<1>1. Init => VenceInv
  BY DEF Init, VenceInv
<1>2. VenceInv /\ [SerialNext]_vars => VenceInv'
  <2> SUFFICES ASSUME VenceInv, [SerialNext]_vars PROVE VenceInv'
    OBVIOUS
  <2>1. CASE PasoPrincipal
    BY <2>1 DEF PasoPrincipal, Bucle, Vence, Borra, MiraRegla, Avisa, MiraDias, Sella,
                FueraDeRango, Vuelve, Siguiente, Devuelve, VenceInv
  <2>2. CASE cerrojo = Nadie /\ Llegada
    BY <2>2 DEF Llegada, YaVisto, MiraTitulo, Devuelve, VenceInv
  <2>3. CASE fase = "libre" /\ Handler
    <3>1. fase' # "borra"
      BY <2>3 DEF Handler, PasoRpc, Comprueba, Entra, Anade, Edita, EditaI, Activa, Saca,
                  Mete, MeteFuera, BorraI, BorraS, Recoge, hilo
    <3>2. QED
      BY <3>1 DEF VenceInv
  <2>4. CASE Llamada \/ (fase = "libre" /\ Medianoche) \/ UNCHANGED vars
    BY <2>4 DEF Llamada, Pide, Medianoche, vars, hilo, VenceInv
  <2>5. QED
    BY <2>1, <2>2, <2>3, <2>4 DEF SerialNext
<1>3. QED
  BY <1>1, <1>2, PTL DEF SerialSpec

\* A removal takes one rule and no other.
LEMMA BorraUna ==
  ASSUME NEW l \in Seq(Regla), NEW p \in 1 .. Len(l), NEW k \in 1 .. Len(l), k # p
  PROVE  \E j \in 1 .. Len(RemoveAt(l, p)) : RemoveAt(l, p)[j] = l[k]
<1> DEFINE m == RemoveAt(l, p)
<1>1. /\ Len(m) = Len(l) - 1
      /\ \A j \in 1 .. Len(l) - 1 : m[j] = IF j < p THEN l[j] ELSE l[j + 1]
  BY RemoveAtPositions
<1> HIDE DEF m
<1>2. CASE k < p
  BY <1>1, <1>2 DEF m
<1>3. CASE k > p
  <2>1. k - 1 \in 1 .. Len(m) /\ m[k - 1] = l[k]
    BY <1>1, <1>3
  <2>2. QED
    BY <2>1 DEF m
<1>4. QED
  BY <1>2, <1>3

\* What may become of the rule k of the list in a step.
Queda(k) == \E j \in 1 .. Len(lista') : lista'[j].uid = lista[k].uid

Destino(k) ==
  \/ lista[k].uid \in UidsDe(lista')
  \/ \E c \in Clientes : mano'[c] # <<>> /\ mano'[c][1].uid = lista[k].uid
  \/ Caducada(lista[k], hoy)
  \/ \E c \in Clientes :
       /\ cerrojo = c
       /\ \/ pet[c].op = "BorrarRegexpI" /\ pet[c].pos = k
          \/ pet[c].op = "BorrarRegexpS" /\ pet[c].nombre = lista[k].nombre

LEMMA QuedaBasta ==
  ASSUME NEW k, Queda(k), DOMAIN lista' = 1 .. Len(lista')
  PROVE  Destino(k)
BY DEF Queda, Destino, UidsDe

\* The list that a removal or a change of fields leaves, rule by rule.
LEMMA QuedaAlBorrar ==
  ASSUME Base, NEW p \in 1 .. Len(lista), lista' = RemoveAt(lista, p),
         NEW k \in 1 .. Len(lista), k # p
  PROVE  Queda(k)
<1>1. lista \in Seq(Regla)
  BY DEF Base, TypeOK, TipoLista
<1>2. PICK j \in 1 .. Len(RemoveAt(lista, p)) : RemoveAt(lista, p)[j] = lista[k]
  BY <1>1, BorraUna
<1>3. QED
  BY <1>2 DEF Queda

LEMMA QuedaAlEditar ==
  ASSUME Base, NEW p \in 1 .. Len(lista),
         \/ \E n \in Nombres : lista' = Editada(lista, p, n)
         \/ lista' = Conmutada(lista, p)
         \/ \E d \in Nat : lista' = [lista EXCEPT ![p].fecha = d],
         NEW k \in 1 .. Len(lista)
  PROVE  Queda(k)
<1>1. lista \in Seq(Regla) /\ Distintas(lista)
  BY DEF Base, TypeOK, TipoLista, UInv
<1>2. DeEntre(lista, lista')
  BY <1>1, UidsAlEditar
<1>3. QED
  BY <1>2 DEF DeEntre, Queda

LEMMA DestinoPrincipal ==
  ASSUME Base, VenceInv, PasoPrincipal, NEW k \in 1 .. Len(lista)
  PROVE  Queda(k) \/ Destino(k)
<1>1. CASE Borra
  <2>1. i \in 1 .. Len(lista) /\ lista' = RemoveAt(lista, i) /\ Caducada(lista[i], hoy)
    BY <1>1 DEF Borra, EnRango, VenceInv
  <2>2. CASE k = i
    BY <2>1, <2>2 DEF Destino
  <2>3. CASE k # i
    BY <2>1, <2>3, QuedaAlBorrar
  <2>4. QED
    BY <2>2, <2>3
<1>2. CASE Sella
  <2>1. i \in 1 .. Len(lista) /\ hoy \in Nat /\ lista' = [lista EXCEPT ![i].fecha = hoy]
    BY <1>2 DEF Sella, EnRango, Base, TypeOK, TipoLista
  <2>2. QED
    BY <2>1, QuedaAlEditar
<1>3. CASE UNCHANGED lista
  BY <1>3 DEF Queda
<1>4. QED
  BY <1>1, <1>2, <1>3 DEF PasoPrincipal, Bucle, Vence, MiraRegla, Avisa, MiraDias,
                          FueraDeRango, Vuelve

LEMMA DestinoHandler ==
  ASSUME Base, QInv, NEW c \in Clientes, PasoRpc(c), NEW k \in 1 .. Len(lista)
  PROVE  Queda(k) \/ Destino(k)
<1>t. /\ lista \in Seq(Regla) /\ mano \in [Clientes -> Seq(Regla)]
      /\ pet[c] \in Peticion \cup {Ninguna}
  BY DEF Base, TypeOK, TipoLista, TipoRpc
<1>1. CASE UNCHANGED lista
  BY <1>1 DEF Queda
<1>2. CASE Edita(c) \/ EditaI(c) \/ Activa(c)
  <2>1. \/ UNCHANGED lista
        \/ \E p \in 1 .. Len(lista) :
             \/ \E n \in Nombres : lista' = Editada(lista, p, n)
             \/ lista' = Conmutada(lista, p)
    <3>1. CASE Edita(c)
      <4>1. pet[c].dest \in Nombres
        BY <1>t, <3>1, PeticionDe DEF Edita, Dentro
      <4>2. QED
        BY <1>t, <3>1, <4>1 DEF Edita, EsPrimera, Posiciones
    <3>2. CASE EditaI(c)
      <4>1. pet[c].dest \in Nombres
        BY <1>t, <3>2, PeticionDe DEF EditaI, Dentro
      <4>2. QED
        BY <3>2, <4>1 DEF EditaI, EnRango
    <3>3. CASE Activa(c)
      BY <3>3 DEF Activa, EnRango
    <3>4. QED
      BY <1>2, <3>1, <3>2, <3>3
  <2>2. QED
    BY <1>1, <2>1, QuedaAlEditar
<1>3. CASE Anade(c)
  <2> DEFINE r == NuevaRegla(uidLibre, pet[c].nombre, pet[c].vencimiento,
                             pet[c].tracker, pet[c].mail, pet[c].dias)
  <2>1. lista' = Append(lista, r)
    BY <1>3 DEF Anade
  <2> HIDE DEF r
  <2>2. k \in 1 .. Len(lista') /\ lista'[k] = lista[k]
    BY <1>t, <2>1
  <2>3. QED
    BY <2>2 DEF Queda
<1>4. CASE Saca(c)
  <2>1. CASE EnRango(lista, pet[c].pos) /\ EnRango(lista, pet[c].a)
    <3>1. /\ pet[c].pos \in 1 .. Len(lista) /\ lista' = RemoveAt(lista, pet[c].pos)
          /\ mano' = [mano EXCEPT ![c] = <<lista[pet[c].pos]>>]
      BY <1>4, <2>1 DEF Saca, EnRango
    <3>2. CASE k = pet[c].pos
      <4>1. mano'[c] = <<lista[k]>>
        BY <1>t, <3>1, <3>2
      <4>2. mano'[c] # <<>> /\ mano'[c][1].uid = lista[k].uid
        BY <4>1
      <4>3. QED
        BY <4>2 DEF Destino
    <3>3. CASE k # pet[c].pos
      BY <3>1, <3>3, QuedaAlBorrar
    <3>4. QED
      BY <3>2, <3>3
  <2>2. QED
    BY <1>1, <1>4, <2>1 DEF Saca
<1>5. CASE Mete(c)
  <2>1. mano[c] # <<>> /\ mano[c][1] \in Regla
    BY <1>5, <1>t DEF Mete, Base, TypeOK, TipoRpc
  <2>2. pet[c].a \in 1 .. Len(lista) + 1
    BY <1>5, <1>t, PeticionDe DEF Mete, Base, TypeOK, TipoRpc
  <2> DEFINE a == pet[c].a
             r == mano[c][1]
  <2>3. lista' = InsertAt(lista, a, r)
    BY <1>5 DEF Mete
  <2>4. a \in 1 .. Len(lista) + 1 /\ r \in Regla /\ lista \in Seq(Regla)
    BY <1>t, <2>1, <2>2
  <2> HIDE DEF a, r
  <2>5. /\ Len(lista') = Len(lista) + 1
        /\ \A j \in 1 .. Len(lista) + 1 :
             lista'[j] = IF j < a THEN lista[j] ELSE IF j = a THEN r ELSE lista[j - 1]
    <3>1. /\ InsertAt(lista, a, r) \in Seq(Regla)
          /\ Len(InsertAt(lista, a, r)) = Len(lista) + 1
          /\ \A j \in 1 .. Len(lista) + 1 :
               InsertAt(lista, a, r)[j] =
                 IF j < a THEN lista[j] ELSE IF j = a THEN r ELSE lista[j - 1]
      BY <2>4, InsertAtPositions
    <3>2. QED
      BY <2>3, <3>1
  <2>6. CASE k < a
    BY <2>4, <2>5, <2>6 DEF Queda
  <2>7. CASE k >= a
    <3>1. k + 1 \in 1 .. Len(lista') /\ lista'[k + 1] = lista[k]
      BY <2>4, <2>5, <2>7
    <3>2. QED
      BY <3>1 DEF Queda
  <2>8. QED
    BY <2>4, <2>6, <2>7
<1>6. CASE BorraI(c)
  <2>1. /\ cerrojo = c /\ pet[c].op = "BorrarRegexpI"
        /\ \/ UNCHANGED lista
           \/ pet[c].pos \in 1 .. Len(lista) /\ lista' = RemoveAt(lista, pet[c].pos)
    BY <1>6 DEF BorraI, Dentro, EnRango
  <2>2. CASE k = pet[c].pos
    BY <2>1, <2>2 DEF Destino
  <2>3. CASE k # pet[c].pos
    BY <1>1, <2>1, <2>3, QuedaAlBorrar
  <2>4. QED
    BY <2>2, <2>3
<1>7. CASE BorraS(c)
  <2>1. cerrojo = c /\ pet[c].op = "BorrarRegexpS"
    BY <1>7 DEF BorraS, Dentro, QInv, Base, ExclusionMutua, EnSeccion
  <2>2. \/ UNCHANGED lista
        \/ \E p \in 1 .. Len(lista) :
             lista' = RemoveAt(lista, p) /\ lista[p].nombre = pet[c].nombre
    BY <1>7, <1>t DEF BorraS, Desde
  <2>3. ASSUME NEW p \in 1 .. Len(lista), lista' = RemoveAt(lista, p),
               lista[p].nombre = pet[c].nombre
        PROVE  Queda(k) \/ Destino(k)
    <3>1. CASE k = p
      BY <2>1, <2>3, <3>1 DEF Destino
    <3>2. CASE k # p
      BY <2>3, <3>2, QuedaAlBorrar
    <3>3. QED
      BY <3>1, <3>2
  <2>4. QED
    BY <1>1, <2>2, <2>3
<1>8. QED
  BY <1>1, <1>2, <1>3, <1>4, <1>5, <1>6, <1>7
     DEF PasoRpc, Comprueba, Entra, MeteFuera, Recoge

\* A rule leaves the list only when its expiry has come or a delete request
\* names it: no step of the scan, of a move or of another removal loses one.
THEOREM NadaSePierde == SerialSpec => SoloSeVaLoDebido
<1>1. ASSUME Base, Base', QInv, VenceInv, [SerialNext]_vars
      PROVE  \A k \in DOMAIN lista : Destino(k)
  <2>1. DOMAIN lista = 1 .. Len(lista) /\ DOMAIN lista' = 1 .. Len(lista')
    BY <1>1 DEF Base, TypeOK, TipoLista
  <2>2. ASSUME NEW k \in 1 .. Len(lista) PROVE Queda(k) \/ Destino(k)
    <3>1. CASE PasoPrincipal
      BY <1>1, <3>1, DestinoPrincipal
    <3>2. CASE Handler
      BY <1>1, <3>2, DestinoHandler DEF Handler
    <3>3. CASE Llegada \/ Llamada \/ Medianoche \/ UNCHANGED vars
      <4>1. UNCHANGED lista
        BY <3>3 DEF Llegada, YaVisto, MiraTitulo, Llamada, Pide, Medianoche, vars
      <4>2. QED
        BY <4>1 DEF Queda
    <3>4. QED
      BY <1>1, <3>1, <3>2, <3>3 DEF SerialNext
  <2>3. QED
    BY <2>1, <2>2, QuedaBasta
<1>2. Base /\ Base' /\ QInv /\ VenceInv /\ [SerialNext]_vars
      => [\A k \in DOMAIN lista :
            \/ lista[k].uid \in UidsDe(lista')
            \/ \E c \in Clientes : mano'[c] # <<>> /\ mano'[c][1].uid = lista[k].uid
            \/ Caducada(lista[k], hoy)
            \/ \E c \in Clientes :
                 /\ cerrojo = c
                 /\ \/ pet[c].op = "BorrarRegexpI" /\ pet[c].pos = k
                    \/ pet[c].op = "BorrarRegexpS" /\ pet[c].nombre = lista[k].nombre]_vars
  BY <1>1 DEF Destino
<1>3. QED
  BY <1>2, BaseSiempre, VenceInvSiempre, SerialEsDeSpec, QInvSiempre, PTL
     DEF SerialSpec, SoloSeVaLoDebido

-----------------------------------------------------------------------------
(* The promise of RuleMatching.  RuleMatching's operators are RuleList's.  *)

LEMMA MismasPruebas ==
  /\ AM!Anuncio = Anuncio /\ AM!Regla = Regla
  /\ \A r, h : AM!Caducada(r, h) = Caducada(r, h)
  /\ \A r, a, h : AM!Acierta(r, a, h) = Acierta(r, a, h)
<1>1. AM!Anuncio = Anuncio /\ AM!Regla = Regla
  BY DEF AM!Anuncio, Anuncio, AM!Regla, Regla
<1>2. \A r, h : AM!Caducada(r, h) = Caducada(r, h)
  BY DEF AM!Caducada, Caducada, AM!SinVencimiento, SinVencimiento
<1>3. \A r, a, h : AM!Acierta(r, a, h) = Acierta(r, a, h)
  BY DEF AM!Acierta, Acierta, AM!Casa, Casa, AM!DemasiadoPronto, DemasiadoPronto,
         AM!SinDescarga, SinDescarga
<1>4. QED
  BY <1>1, <1>2, <1>3

LEMMA MismasListas ==
  /\ \A l, k : AM!RemoveAt(l, k) = RemoveAt(l, k)
  /\ \A l, k, e : AM!InsertAt(l, k, e) = InsertAt(l, k, e)
  /\ \A l, k, n : AM!Editada(l, k, n) = Editada(l, k, n)
  /\ \A l, k : AM!Conmutada(l, k) = Conmutada(l, k)
  /\ \A l, de, a : AM!Movida(l, de, a) = Movida(l, de, a)
  /\ \A l, n : AM!SinNombre(l, n) = SinNombre(l, n)
  /\ \A l : AM!UidsDe(l) = UidsDe(l)
<1>1. \A l, k : AM!RemoveAt(l, k) = RemoveAt(l, k)
  BY DEF AM!RemoveAt, RemoveAt
<1>2. \A l, k, e : AM!InsertAt(l, k, e) = InsertAt(l, k, e)
  BY DEF AM!InsertAt, InsertAt
<1>3. \A l, k, n : AM!Editada(l, k, n) = Editada(l, k, n)
  BY DEF AM!Editada, Editada
<1>4. \A l, k : AM!Conmutada(l, k) = Conmutada(l, k)
  BY DEF AM!Conmutada, Conmutada
<1>5. \A l, n : AM!SinNombre(l, n) = SinNombre(l, n)
  <2>1. \A l, n : AM!Posiciones(l, n) = Posiciones(l, n)
    BY DEF AM!Posiciones, Posiciones
  <2>2. \A s, P : AM!EnOrden(s, P) = EnOrden(s, P)
    BY DEF AM!EnOrden, EnOrden, AM!Orden, Orden, AM!Cardinality, Cardinality
  <2>3. QED
    BY <2>1, <2>2 DEF AM!SinNombre, SinNombre
<1>6. \A l : AM!UidsDe(l) = UidsDe(l)
  BY DEF AM!UidsDe, UidsDe
<1>7. \A l, de, a : AM!Movida(l, de, a) = Movida(l, de, a)
  BY <1>1, <1>2 DEF AM!Movida, Movida
<1>8. QED
  BY <1>1, <1>2, <1>3, <1>4, <1>5, <1>6, <1>7

\* No handler is between the steps of its operation; only c is.
Fuera(f) == \A d \in Clientes : f[d] \notin {"mete", "quita"}
Solo(f, c) ==
  /\ c \in Clientes /\ f[c] \in {"mete", "quita"}
  /\ \A d \in Clientes : f[d] \in {"mete", "quita"} => d = c

\* ListaPrometida, of any state.
Prometida(l, f, p, m) ==
  IF \E c \in Clientes : f[c] \in {"mete", "quita"}
  THEN LET c == CHOOSE d \in Clientes : f[d] \in {"mete", "quita"}
       IN  IF f[c] = "mete" THEN InsertAt(l, p[c].a, m[c][1]) ELSE SinNombre(l, p[c].nombre)
  ELSE l

LEMMA PrometidaDe ==
  ASSUME NEW l, NEW f, NEW p, NEW m
  PROVE  /\ Fuera(f) => Prometida(l, f, p, m) = l
         /\ \A c : Solo(f, c) =>
              Prometida(l, f, p, m) =
                IF f[c] = "mete" THEN InsertAt(l, p[c].a, m[c][1]) ELSE SinNombre(l, p[c].nombre)
<1>1. Fuera(f) => Prometida(l, f, p, m) = l
  BY DEF Fuera, Prometida
<1>2. ASSUME NEW c, Solo(f, c)
      PROVE  Prometida(l, f, p, m) =
               IF f[c] = "mete" THEN InsertAt(l, p[c].a, m[c][1]) ELSE SinNombre(l, p[c].nombre)
  <2>1. c = CHOOSE d \in Clientes : f[d] \in {"mete", "quita"}
    BY <1>2 DEF Solo
  <2>2. \E d \in Clientes : f[d] \in {"mete", "quita"}
    BY <1>2 DEF Solo
  <2>3. QED
    BY <2>1, <2>2 DEF Prometida
<1>3. QED
  BY <1>1, <1>2

\* The list as RuleMatching sees it, before a step and after it.
LEMMA ListasPrometidas ==
  /\ Fuera(fasec) => ListaPrometida = lista
  /\ Fuera(fasec') => ListaPrometida' = lista'
  /\ \A c : Solo(fasec, c) =>
       ListaPrometida = IF fasec[c] = "mete" THEN InsertAt(lista, pet[c].a, mano[c][1])
                        ELSE SinNombre(lista, pet[c].nombre)
  /\ \A c : Solo(fasec', c) =>
       ListaPrometida' = IF fasec'[c] = "mete" THEN InsertAt(lista', pet'[c].a, mano'[c][1])
                         ELSE SinNombre(lista', pet'[c].nombre)
<1>1. /\ ListaPrometida = Prometida(lista, fasec, pet, mano)
      /\ ListaPrometida' = Prometida(lista', fasec', pet', mano')
  BY DEF ListaPrometida, Prometida
<1>2. QED
  BY <1>1, PrometidaDe

\* The window of recent titles is the end of the history.
LEMMA RecientesUltimos ==
  ASSUME TypeOK, RecientesEsVentana, NEW t
  PROVE  Contains(recientes, t) <=> t \in AM!UltimosTitulos(aceptados, AM!Ventana)
<1> DEFINE n == Len(aceptados)
           m == Len(recientes)
<1>1. /\ n \in Nat /\ m \in Nat /\ MaxRecientes \in Nat /\ m <= MaxRecientes + 1 /\ m <= n
      /\ n > m => m = MaxRecientes + 1
      /\ DOMAIN aceptados = 1 .. n /\ DOMAIN recientes = 1 .. m
  BY SharedRulesAssumption DEF TypeOK, TipoHilo, RecientesEsVentana
<1>2. \A k \in 1 .. m : recientes[k] = aceptados[n - m + k].titulo
  BY <1>1 DEF RecientesEsVentana
<1> HIDE DEF n, m
<1>3. \A j \in 1 .. n : j > n - (MaxRecientes + 1) <=> j > n - m
  BY <1>1
<1>4. t \in AM!UltimosTitulos(aceptados, AM!Ventana)
      <=> \E j \in 1 .. n : j > n - m /\ aceptados[j].titulo = t
  BY <1>1, <1>3 DEF AM!UltimosTitulos, AM!Ventana, n
<1>5. Contains(recientes, t) <=> \E k \in 1 .. m : recientes[k] = t
  BY DEF Contains, m
<1>6. ASSUME NEW j \in 1 .. n, j > n - m, aceptados[j].titulo = t
      PROVE  \E k \in 1 .. m : recientes[k] = t
  <2>1. j - (n - m) \in 1 .. m /\ n - m + (j - (n - m)) = j
    BY <1>1, <1>6
  <2>2. recientes[j - (n - m)] = t
    BY <1>2, <1>6, <2>1
  <2>3. QED
    BY <2>1, <2>2
<1>7. ASSUME NEW k \in 1 .. m, recientes[k] = t
      PROVE  \E j \in 1 .. n : j > n - m /\ aceptados[j].titulo = t
  <2>1. n - m + k \in 1 .. n /\ n - m + k > n - m
    BY <1>1
  <2>2. aceptados[n - m + k].titulo = t
    BY <1>2, <1>7
  <2>3. QED
    BY <2>1, <2>2
<1>8. QED
  BY <1>4, <1>5, <1>6, <1>7

-----------------------------------------------------------------------------
\* A verdict is there exactly while miraTitulo has it; the index of a deletion
\* by pattern has passed no rule that has the pattern; the rule to be stamped
\* is not one that mails.
EInv ==
  /\ fase = "vuelto" <=> resultado # "Ninguno"
  /\ fase = "sella" => ~lista[i].mail
  /\ \A c \in Clientes :
       IF fasec[c] = "quita"
       THEN \A k \in 1 .. Len(lista) : k < indice[c] => lista[k].nombre # pet[c].nombre
       ELSE indice[c] = 1

\* The part of EInv about the deletions by pattern.
IndiceInv ==
  \A c \in Clientes :
    IF fasec[c] = "quita"
    THEN \A k \in 1 .. Len(lista) : k < indice[c] => lista[k].nombre # pet[c].nombre
    ELSE indice[c] = 1

LEMMA IndiceBorraS ==
  ASSUME Base, IndiceInv, NEW c \in Clientes, BorraS(c)
  PROVE  IndiceInv'
<1>t. /\ lista \in Seq(Regla) /\ DOMAIN lista = 1 .. Len(lista) /\ Len(lista) \in Nat
      /\ indice \in [Clientes -> Nat \ {0}]
      /\ fasec \in [Clientes -> {"fuera", "mira", "espera", "dentro", "mete", "quita",
                                 "respondida"}]
  BY DEF Base, TypeOK, TipoLista, TipoRpc
<1>1. fasec[c] \in {"dentro", "quita"} /\ UNCHANGED pet
  BY DEF BorraS, Dentro, Avanza, Sale, Responde
<1>2. \A d \in Clientes : d # c => /\ fasec[d] # "quita" /\ fasec'[d] = fasec[d]
                                   /\ indice'[d] = indice[d]
  <2>1. \A d \in Clientes : d # c => fasec[d] # "quita"
    BY <1>1 DEF Base, ExclusionMutua, EnSeccion
  <2>2. /\ \E f : fasec' = [fasec EXCEPT ![c] = f]
        /\ \E k : indice' = [indice EXCEPT ![c] = k]
    BY DEF BorraS, Avanza, Sale, Responde
  <2>3. QED
    BY <1>t, <2>1, <2>2
<1>3. \A j \in 1 .. Len(lista) : j < indice[c] => lista[j].nombre # pet[c].nombre
  BY <1>1, <1>t DEF IndiceInv
<1>4. ASSUME NEW k \in Desde(lista, pet[c].nombre, indice[c]),
             \A j \in Desde(lista, pet[c].nombre, indice[c]) : k <= j,
             lista' = RemoveAt(lista, k), indice' = [indice EXCEPT ![c] = k],
             Avanza(c, "quita")
      PROVE  IndiceInv'
  <2>1. k \in 1 .. Len(lista)
    BY <1>t DEF Desde
  <2>2. fasec'[c] = "quita" /\ indice'[c] = k
    BY <1>t, <1>4 DEF Avanza
  <2>3. /\ Len(lista') = Len(lista) - 1
        /\ \A j \in 1 .. Len(lista) - 1 : lista'[j] = IF j < k THEN lista[j] ELSE lista[j + 1]
    BY <1>t, <1>4, <2>1, RemoveAtPositions
  <2>4. ASSUME NEW j \in 1 .. Len(lista'), j < k PROVE lista'[j].nombre # pet[c].nombre
    <3>1. j \in 1 .. Len(lista) /\ lista'[j] = lista[j]
      BY <1>t, <2>1, <2>3, <2>4
    <3>2. CASE j < indice[c]
      BY <1>3, <3>1, <3>2
    <3>3. CASE indice[c] <= j
      <4>1. j \notin Desde(lista, pet[c].nombre, indice[c])
        BY <1>4, <2>1, <2>4
      <4>2. QED
        BY <1>t, <3>1, <3>3, <4>1 DEF Desde
    <3>4. QED
      BY <1>t, <3>2, <3>3
  <2>5. QED
    BY <1>1, <1>2, <2>2, <2>4 DEF IndiceInv
<1>5. CASE indice' = [indice EXCEPT ![c] = 1] /\ Sale(c, "true")
  <2>1. fasec'[c] = "respondida" /\ indice'[c] = 1
    BY <1>t, <1>5 DEF Sale, Responde
  <2>2. QED
    BY <1>1, <1>2, <2>1 DEF IndiceInv
<1>6. QED
  BY <1>4, <1>5 DEF BorraS

LEMMA IndiceHandler ==
  ASSUME Base, IndiceInv, NEW c \in Clientes, PasoRpc(c)
  PROVE  IndiceInv'
<1>t. /\ indice \in [Clientes -> Nat \ {0}] /\ pet \in [Clientes -> Peticion \cup {Ninguna}]
      /\ fasec \in [Clientes -> {"fuera", "mira", "espera", "dentro", "mete", "quita",
                                 "respondida"}]
  BY DEF Base, TypeOK, TipoRpc
<1>1. CASE BorraS(c)
  BY <1>1, IndiceBorraS
<1>2. CASE Comprueba(c) \/ Entra(c) \/ Recoge(c)
  <2>1. /\ UNCHANGED <<lista, indice>> /\ fasec[c] # "quita" /\ fasec'[c] # "quita"
        /\ \A d \in Clientes : d # c => fasec'[d] = fasec[d] /\ pet'[d] = pet[d]
    BY <1>t, <1>2 DEF Comprueba, Entra, Recoge, Avanza, Responde
  <2>2. QED
    BY <2>1 DEF IndiceInv
<1>3. CASE \/ Anade(c) \/ Edita(c) \/ EditaI(c) \/ Activa(c) \/ Saca(c) \/ Mete(c)
           \/ BorraI(c)
  <2>1. /\ fasec[c] \in {"dentro", "mete"} /\ UNCHANGED indice
        /\ \E f \in {"respondida", "mete"} : fasec' = [fasec EXCEPT ![c] = f]
    BY <1>3 DEF Anade, Edita, EditaI, Activa, Saca, Mete, BorraI, Dentro, Sale, Responde,
                Avanza
  <2>2. \A d \in Clientes : d # c => fasec[d] # "quita"
    BY <2>1 DEF Base, ExclusionMutua, EnSeccion
  <2>3. \A d \in Clientes : fasec[d] # "quita" /\ fasec'[d] # "quita"
    BY <1>t, <2>1, <2>2
  <2>4. QED
    BY <2>1, <2>3 DEF IndiceInv
<1>4. CASE MeteFuera(c)
  BY <1>4 DEF MeteFuera, rpc, IndiceInv
<1>5. QED
  BY <1>1, <1>2, <1>3, <1>4 DEF PasoRpc

LEMMA EInvSigue == Base /\ SInv /\ SInv' /\ EInv /\ [SerialNext]_vars => EInv'
<1> SUFFICES ASSUME Base, SInv, SInv', EInv, [SerialNext]_vars PROVE EInv'
  OBVIOUS
<1>i. IndiceInv
  BY DEF EInv, IndiceInv
<1>e. ASSUME fase' = "vuelto" <=> resultado' # "Ninguno",
             fase' = "sella" => ~lista'[i'].mail, IndiceInv'
      PROVE  EInv'
  BY <1>e DEF EInv, IndiceInv
<1>v. fase' # "roto"
  BY DEF SInv, Vivo
<1>q. ASSUME cerrojo = Nadie, UNCHANGED rpc PROVE IndiceInv'
  <2>1. \A c \in Clientes : fasec[c] # "quita"
    BY <1>q, SharedRulesAssumption DEF Base, ExclusionMutua, EnSeccion
  <2>2. QED
    BY <1>i, <1>q, <2>1 DEF IndiceInv, rpc
<1>1. CASE cerrojo = Nadie /\ Llegada
  <2>1. IndiceInv'
    BY <1>1, <1>q DEF Llegada, YaVisto, MiraTitulo
  <2>2. QED
    BY <1>1, <1>e, <2>1 DEF Llegada, YaVisto, MiraTitulo, Devuelve, EInv
<1>2. CASE PasoPrincipal
  <2>1. IndiceInv'
    BY <1>2, <1>q DEF PasoPrincipal, Bucle, Vence, Borra, MiraRegla, Avisa, MiraDias,
                      Sella, FueraDeRango, Vuelve, SInv
  <2>2. fase' = "vuelto" <=> resultado' # "Ninguno"
    BY <1>2, <1>v DEF PasoPrincipal, Bucle, Vence, Borra, MiraRegla, Avisa, MiraDias,
                      Sella, FueraDeRango, Vuelve, Siguiente, Devuelve, EInv
  <2>3. fase' = "sella" => ~lista'[i'].mail
    BY <1>2 DEF PasoPrincipal, Bucle, Vence, Borra, MiraRegla, Avisa, MiraDias,
                Sella, FueraDeRango, Vuelve, Siguiente, Devuelve
  <2>4. QED
    BY <1>e, <2>1, <2>2, <2>3
<1>3. ASSUME NEW c \in Clientes, NEW p \in Peticiones, Pide(c, p) PROVE EInv'
  <2>1. \A d \in Clientes : /\ fasec'[d] = "quita" <=> fasec[d] = "quita"
                            /\ fasec[d] = "quita" => pet'[d] = pet[d]
    BY <1>3 DEF Pide, Base, TypeOK, TipoRpc
  <2>2. QED
    BY <1>3, <2>1 DEF Pide, hilo, EInv
<1>4. CASE fase = "libre" /\ Handler
  <2>1. PICK c \in Clientes : PasoRpc(c)
    BY <1>4 DEF Handler
  <2>2. ~MeteFuera(c)
    BY <1>v DEF MeteFuera
  <2>3. UNCHANGED <<fase, resultado>>
    BY <2>1, <2>2 DEF PasoRpc, Comprueba, Entra, Anade, Edita, EditaI, Activa, Saca, Mete,
                      BorraI, BorraS, Recoge, hilo
  <2>4. IndiceInv'
    BY <1>i, <2>1, IndiceHandler
  <2>5. QED
    BY <1>4, <1>e, <2>3, <2>4 DEF EInv
<1>5. CASE (fase = "libre" /\ Medianoche) \/ UNCHANGED vars
  BY <1>5 DEF Medianoche, vars, hilo, rpc, EInv
<1>6. QED
  BY <1>1, <1>2, <1>3, <1>4, <1>5 DEF SerialNext, Llamada

LEMMA EInvSiempre == SerialSpec => []EInv
<1>1. Init => EInv
  BY DEF Init, EInv
<1>2. QED
  BY <1>1, EInvSigue, SInvSiempre, BaseSiempre, PTL DEF SerialSpec

\* Everything the promise of RuleMatching rests on.
CInv == Base /\ SInv /\ PInv /\ VenceInv /\ FInv /\ QInv /\ VInv /\ EInv

\* While nobody holds the mutex RuleMatching sees the list itself.
LEMMA ListaLibre ==
  ASSUME Base, cerrojo = Nadie
  PROVE  Fuera(fasec)
  BY SharedRulesAssumption DEF Base, ExclusionMutua, EnSeccion, Fuera

LEMMA LlegadaCumple ==
  ASSUME CInv, cerrojo = Nadie, Llegada
  PROVE  AM!AMNext \/ UNCHANGED AM!amVars
<1>0. UNCHANGED <<lista, hoy, aceptados, rpc>> /\ fase = "libre"
  BY DEF Llegada, YaVisto, MiraTitulo
<1>1. ListaPrometida = lista /\ ListaPrometida' = lista
  <2>1. Fuera(fasec) /\ Fuera(fasec')
    BY <1>0, ListaLibre DEF CInv, rpc
  <2>2. QED
    BY <1>0, <2>1, ListasPrometidas
<1>2. ASSUME NEW a \in Anuncio, YaVisto(a) PROVE AM!AMNext
  <2>1. a \in AM!Anuncio /\ a.titulo \in AM!UltimosTitulos(aceptados, AM!Ventana)
    BY <1>2, RecientesUltimos, MismasPruebas DEF YaVisto, CInv, Base, VInv
  <2>2. resultado = "Ninguno" /\ AnuncioJuzgado' = a /\ resultado' = "NotMatched"
    BY <1>0, <1>2 DEF YaVisto, Devuelve, AnuncioJuzgado, CInv, EInv
  <2>3. AM!AMYaVisto(a)
    BY <1>0, <1>1, <2>1, <2>2 DEF AM!AMYaVisto, AM!Resuelve
  <2>4. QED
    BY <2>1, <2>3 DEF AM!AMNext
<1>3. ASSUME NEW a \in Anuncio, MiraTitulo(a) PROVE UNCHANGED AM!amVars
  <2>1. AnuncioJuzgado' = AnuncioJuzgado /\ resultado' = resultado
    BY <1>0, <1>3 DEF MiraTitulo, AnuncioJuzgado
  <2>2. QED
    BY <1>0, <1>1, <2>1 DEF AM!amVars
<1>4. QED
  BY <1>2, <1>3 DEF Llegada

LEMMA AcabaCumple ==
  ASSUME CInv, ListaPrometida = lista, ListaPrometida' = lista, Bucle, ~EnRango(lista, i)
  PROVE  AM!AMNext
<1>t. lista \in Seq(Regla) /\ Len(lista) \in Nat /\ i \in Nat \ {0} /\ anuncio \in Anuncio
      /\ DOMAIN lista = 1 .. Len(lista)
  BY DEF Bucle, CInv, Base, TypeOK, TipoLista, TipoHilo, EnBucle
<1>1. \A k \in 1 .. Len(lista) : ~Acierta(lista[k], anuncio, hoy) /\ ~Caducada(lista[k], hoy)
  BY <1>t DEF Bucle, CInv, PInv, EnRango, EnBucle
<1>2. anuncio.titulo \notin AM!UltimosTitulos(aceptados, AM!Ventana)
  BY RecientesUltimos DEF Bucle, CInv, Base, VInv, TituloNuevo, EnBucle
<1>3. /\ resultado = "Ninguno" /\ AnuncioJuzgado' = anuncio /\ resultado' = "NotMatched"
      /\ UNCHANGED <<hoy, aceptados>>
  BY DEF Bucle, Devuelve, AnuncioJuzgado, CInv, EInv
<1>4. AM!AMSinAcierto(anuncio)
  BY <1>t, <1>1, <1>2, <1>3, MismasPruebas DEF AM!AMSinAcierto, AM!Resuelve
<1>5. anuncio \in AM!Anuncio
  BY <1>t, MismasPruebas
<1>6. QED
  BY <1>4, <1>5 DEF AM!AMNext

LEMMA BorraCumple ==
  ASSUME CInv, ListaPrometida = lista, ListaPrometida' = lista', Borra
  PROVE  AM!AMNext
<1>1. /\ i \in DOMAIN lista /\ Caducada(lista[i], hoy)
      /\ UNCHANGED <<hoy, aceptados, AnuncioJuzgado, resultado>> /\ lista' = RemoveAt(lista, i)
  BY DEF Borra, EnRango, AnuncioJuzgado, CInv, VenceInv, Base, TypeOK, TipoLista
<1>2. AM!AMPoda(i)
  BY <1>1, MismasPruebas, MismasListas DEF AM!AMPoda
<1>3. QED
  BY <1>1, <1>2 DEF AM!AMNext

\* The rule at the index decides: none before it does.
LEMMA Decidida ==
  ASSUME CInv, ListaPrometida = lista, EnRango(lista, i), fase \in {"modo", "sella"},
         Acierta(lista[i], anuncio, hoy)
  PROVE  /\ anuncio \in AM!Anuncio /\ i \in DOMAIN lista
         /\ anuncio.titulo \notin AM!UltimosTitulos(aceptados, AM!Ventana)
         /\ AM!Decide(i, anuncio)
<1>t. lista \in Seq(Regla) /\ Len(lista) \in Nat /\ i \in Nat \ {0} /\ anuncio \in Anuncio
      /\ DOMAIN lista = 1 .. Len(lista) /\ i \in 1 .. Len(lista)
  BY DEF EnRango, CInv, Base, TypeOK, TipoLista, TipoHilo, EnBucle
<1>1. anuncio.titulo \notin AM!UltimosTitulos(aceptados, AM!Ventana)
  BY RecientesUltimos DEF CInv, Base, VInv, TituloNuevo, EnBucle
<1>2. \A j \in 1 .. i - 1 : ~Acierta(lista[j], anuncio, hoy) /\ ~Caducada(lista[j], hoy)
  BY <1>t DEF CInv, PInv, EnBucle
<1>3. ~Caducada(lista[i], hoy)
  BY DEF CInv, PInv
<1>4. AM!Decide(i, anuncio)
  BY <1>2, <1>3, MismasPruebas DEF AM!Decide
<1>5. QED
  BY <1>t, <1>1, <1>4, MismasPruebas

LEMMA AvisaCumple ==
  ASSUME CInv, ListaPrometida = lista, ListaPrometida' = lista, Avisa
  PROVE  AM!AMNext
<1>1. Acierta(lista[i], anuncio, hoy)
  BY DEF Avisa, Acierta, CInv, PInv
<1>2. /\ anuncio \in AM!Anuncio /\ i \in DOMAIN lista
      /\ anuncio.titulo \notin AM!UltimosTitulos(aceptados, AM!Ventana)
      /\ AM!Decide(i, anuncio)
  BY <1>1, Decidida DEF Avisa
<1>3. /\ resultado = "Ninguno" /\ hoy' = hoy /\ lista[i].mail /\ AnuncioJuzgado' = anuncio
      /\ \/ /\ resultado' = "AlreadyNotified"
            /\ aceptados' = Append(aceptados,
                 [titulo |-> anuncio.titulo, uid |-> lista[i].uid, dia |-> hoy,
                  dias |-> lista[i].dias, valor |-> "AlreadyNotified"])
         \/ resultado' = "MailFailed" /\ aceptados' = aceptados
  BY DEF Avisa, Devuelve, Recuerda, AnuncioJuzgado, CInv, EInv
<1>4. AM!AMAvisa(anuncio, i)
  BY <1>2, <1>3 DEF AM!AMAvisa, AM!Resuelve, AM!Aceptado
<1>5. QED
  BY <1>2, <1>4 DEF AM!AMNext

LEMMA SellaCumple ==
  ASSUME CInv, ListaPrometida = lista, ListaPrometida' = lista', Sella
  PROVE  AM!AMNext
<1>0. juez[1] = lista[i] /\ ~DemasiadoPronto(lista[i], hoy) /\ ~lista[i].mail
  BY DEF Sella, CInv, FInv, EInv
<1>1. Acierta(lista[i], anuncio, hoy)
  BY <1>0 DEF Sella, Acierta, CInv, PInv
<1>2. /\ anuncio \in AM!Anuncio /\ i \in DOMAIN lista
      /\ anuncio.titulo \notin AM!UltimosTitulos(aceptados, AM!Ventana)
      /\ AM!Decide(i, anuncio)
  BY <1>1, Decidida DEF Sella
<1>3. /\ resultado = "Ninguno" /\ hoy' = hoy /\ AnuncioJuzgado' = anuncio
      /\ resultado' = "Download" /\ lista' = [lista EXCEPT ![i].fecha = hoy]
      /\ aceptados' = Append(aceptados,
           [titulo |-> anuncio.titulo, uid |-> lista[i].uid, dia |-> hoy,
            dias |-> lista[i].dias, valor |-> "Download"])
  BY <1>0 DEF Sella, Devuelve, Recuerda, AnuncioJuzgado, CInv, EInv
<1>4. AM!AMDescarga(anuncio, i)
  BY <1>0, <1>2, <1>3 DEF AM!AMDescarga, AM!Resuelve, AM!Aceptado
<1>5. QED
  BY <1>2, <1>4 DEF AM!AMNext

\* Each step of the scan is one of RuleMatching's or none.
LEMMA PrincipalCumple ==
  ASSUME CInv, SInv', PasoPrincipal
  PROVE  AM!AMNext \/ UNCHANGED AM!amVars
<1>0. cerrojo = Nadie /\ UNCHANGED <<rpc, hoy>>
  BY DEF PasoPrincipal, Bucle, Vence, Borra, MiraRegla, Avisa, MiraDias, Sella,
         FueraDeRango, Vuelve, CInv, SInv
<1>1. ListaPrometida = lista /\ ListaPrometida' = lista'
  <2>1. Fuera(fasec) /\ Fuera(fasec')
    BY <1>0, ListaLibre DEF CInv, rpc
  <2>2. QED
    BY <2>1, ListasPrometidas
<1>2. CASE Borra
  BY <1>1, <1>2, BorraCumple
<1>3. CASE Sella
  BY <1>1, <1>3, SellaCumple
<1>4. CASE Avisa
  BY <1>1, <1>4, AvisaCumple DEF Avisa
<1>5. CASE Bucle /\ ~EnRango(lista, i)
  BY <1>1, <1>5, AcabaCumple DEF Bucle
<1>6. CASE Vuelve
  <2>1. /\ resultado # "Ninguno" /\ resultado' = "Ninguno" /\ AnuncioJuzgado' = SinAnuncio
        /\ UNCHANGED <<lista, aceptados>>
    BY <1>6 DEF Vuelve, AnuncioJuzgado, CInv, EInv
  <2>2. AM!AMVuelve
    BY <1>0, <1>1, <2>1 DEF AM!AMVuelve
  <2>3. QED
    BY <2>2 DEF AM!AMNext
<1>7. CASE FueraDeRango
  BY <1>7 DEF FueraDeRango, SInv, Vivo
<1>8. CASE (Bucle /\ EnRango(lista, i)) \/ Vence \/ MiraRegla \/ MiraDias
  <2>1. UNCHANGED <<lista, aceptados, AnuncioJuzgado, resultado>>
    BY <1>8 DEF Bucle, Vence, MiraRegla, MiraDias, Siguiente, AnuncioJuzgado
  <2>2. QED
    BY <1>0, <1>1, <2>1 DEF AM!amVars
<1>9. QED
  BY <1>2, <1>3, <1>4, <1>5, <1>6, <1>7, <1>8 DEF PasoPrincipal

\* Where the handlers are around a step of c.
LEMMA FueraOSolo ==
  ASSUME Base, NEW c \in Clientes
  PROVE  /\ fasec[c] = "dentro" => Fuera(fasec)
         /\ fasec[c] \in {"mete", "quita"} => Solo(fasec, c)
  BY DEF Base, ExclusionMutua, EnSeccion, Fuera, Solo

\* A change of the list by c in one step, seen by RuleMatching.
LEMMA UnPaso ==
  ASSUME CInv, CInv', NEW c \in Clientes, fasec[c] = "dentro",
         fasec' = [fasec EXCEPT ![c] = "respondida"]
  PROVE  ListaPrometida = lista /\ ListaPrometida' = lista'
<1>1. Fuera(fasec)
  BY FueraOSolo DEF CInv
<1>2. Fuera(fasec')
  BY <1>1 DEF Fuera, CInv, Base, TypeOK, TipoRpc
<1>3. QED
  BY <1>1, <1>2, ListasPrometidas

LEMMA AnadeCumple ==
  ASSUME CInv, CInv', NEW c \in Clientes, Anade(c)
  PROVE  AM!AMRpc
<1> DEFINE r == NuevaRegla(uidLibre, pet[c].nombre, pet[c].vencimiento,
                           pet[c].tracker, pet[c].mail, pet[c].dias)
<1>1. ListaPrometida = lista /\ ListaPrometida' = lista'
  BY UnPaso DEF Anade, Dentro, Sale, Responde
<1>2. r \in Regla /\ r.uid = uidLibre /\ r.fecha = SinDescarga /\ r.activa
  <2>1. pet[c] \in Peticion \cup {Ninguna} /\ uidLibre \in Nat
    BY DEF CInv, Base, TypeOK, TipoRpc
  <2>2. QED
    BY <2>1, PeticionDe DEF Anade, Dentro, NuevaRegla, Regla, SinDescarga
<1>3. lista' = Append(lista, r) /\ lista \in Seq(Regla)
  BY DEF Anade, CInv, Base, TypeOK, TipoLista
<1>4. r.uid \notin UidsDe(lista)
  <2>1. \A k \in 1 .. Len(lista) : lista[k].uid < uidLibre
    BY DEF CInv, Base, UInv
  <2>2. uidLibre \in Nat /\ DOMAIN lista = 1 .. Len(lista)
    BY <1>3 DEF CInv, Base, TypeOK, TipoRpc
  <2>3. \A k \in DOMAIN lista : lista[k].uid # uidLibre
    BY <2>1, <2>2
  <2>4. QED
    BY <1>2, <2>3 DEF UidsDe
<1> HIDE DEF r
<1>5. lista' # <<>> /\ lista'[Len(lista')] = r
  BY <1>2, <1>3
<1>6. UNCHANGED <<hoy, aceptados, AnuncioJuzgado, resultado>>
  BY DEF Anade, hilo, AnuncioJuzgado
<1>7. AM!AMAnade
  <2>1. r \in AM!Regla /\ r.uid \notin AM!UidsDe(lista) /\ r.fecha = AM!SinDescarga
    BY <1>2, <1>4, MismasPruebas, MismasListas DEF AM!SinDescarga, SinDescarga
  <2>2. QED
    BY <1>1, <1>2, <1>3, <1>5, <2>1 DEF AM!AMAnade
<1>8. QED
  BY <1>6, <1>7 DEF AM!AMRpc

\* The edits of one rule, the switch and the deletion by index.
LEMMA CambiaCumple ==
  ASSUME CInv, CInv', NEW c \in Clientes, Edita(c) \/ EditaI(c) \/ Activa(c) \/ BorraI(c)
  PROVE  AM!AMRpc \/ UNCHANGED AM!amVars
<1>t. DOMAIN lista = 1 .. Len(lista) /\ pet[c] \in Peticion \cup {Ninguna}
  BY DEF CInv, Base, TypeOK, TipoLista, TipoRpc
<1>1. ListaPrometida = lista /\ ListaPrometida' = lista'
  <2>1. fasec[c] = "dentro" /\ fasec' = [fasec EXCEPT ![c] = "respondida"]
    BY DEF Edita, EditaI, Activa, BorraI, Dentro, Sale, Responde
  <2>2. QED
    BY <2>1, UnPaso
<1>2. UNCHANGED <<hoy, aceptados, AnuncioJuzgado, resultado>>
  BY DEF Edita, EditaI, Activa, BorraI, hilo, AnuncioJuzgado
<1>3. \/ lista' = lista
      \/ \E k \in DOMAIN lista :
           \/ \E n \in Nombres : lista' = Editada(lista, k, n)
           \/ lista' = Conmutada(lista, k)
           \/ lista' = RemoveAt(lista, k)
  <2>1. CASE Edita(c)
    <3>1. pet[c].dest \in Nombres
      BY <1>t, <2>1, PeticionDe DEF Edita, Dentro
    <3>2. QED
      BY <2>1, <3>1 DEF Edita
  <2>2. CASE EditaI(c)
    <3>1. pet[c].dest \in Nombres
      BY <1>t, <2>2, PeticionDe DEF EditaI, Dentro
    <3>2. QED
      BY <1>t, <2>2, <3>1 DEF EditaI, EnRango
  <2>3. CASE Activa(c)
    BY <1>t, <2>3 DEF Activa, EnRango
  <2>4. CASE BorraI(c)
    BY <1>t, <2>4 DEF BorraI, EnRango
  <2>5. QED
    BY <2>1, <2>2, <2>3, <2>4
<1>4. CASE lista' = lista
  BY <1>1, <1>2, <1>4 DEF AM!amVars
<1>5. ASSUME NEW k \in DOMAIN lista,
             \/ \E n \in Nombres : lista' = Editada(lista, k, n)
             \/ lista' = Conmutada(lista, k)
             \/ lista' = RemoveAt(lista, k)
      PROVE  AM!AMRpc
  BY <1>1, <1>2, <1>5, MismasListas DEF AM!AMRpc
<1>6. QED
  BY <1>3, <1>4, <1>5

\* moverRegexp: the move is done, for RuleMatching, when the rule is taken out.
LEMMA MueveCumple ==
  ASSUME CInv, CInv', NEW c \in Clientes, Saca(c) \/ Mete(c)
  PROVE  AM!AMRpc \/ UNCHANGED AM!amVars
<1>t. /\ DOMAIN lista = 1 .. Len(lista) /\ mano \in [Clientes -> Seq(Regla)]
      /\ fasec \in [Clientes -> {"fuera", "mira", "espera", "dentro", "mete", "quita",
                                 "respondida"}]
  <2>1. lista \in Seq(Regla)
    BY DEF CInv, Base, TypeOK, TipoLista
  <2>2. QED
    BY <2>1 DEF CInv, Base, TypeOK, TipoRpc
<1>2. UNCHANGED <<hoy, aceptados, AnuncioJuzgado, resultado, pet>>
  BY DEF Saca, Mete, hilo, AnuncioJuzgado, Avanza, Sale, Responde
<1>3. CASE Saca(c) /\ ~(EnRango(lista, pet[c].pos) /\ EnRango(lista, pet[c].a))
  <2>1. fasec[c] = "dentro" /\ fasec' = [fasec EXCEPT ![c] = "respondida"] /\ lista' = lista
    BY <1>3 DEF Saca, Dentro, Sale, Responde
  <2>2. ListaPrometida = lista /\ ListaPrometida' = lista'
    BY <2>1, UnPaso
  <2>3. QED
    BY <1>2, <2>1, <2>2 DEF AM!amVars
<1>4. CASE Saca(c) /\ EnRango(lista, pet[c].pos) /\ EnRango(lista, pet[c].a)
  <2> DEFINE de == pet[c].pos
             a == pet[c].a
  <2>1. /\ fasec[c] = "dentro" /\ fasec' = [fasec EXCEPT ![c] = "mete"]
        /\ mano' = [mano EXCEPT ![c] = <<lista[de]>>]
        /\ lista' = RemoveAt(lista, de) /\ de \in DOMAIN lista /\ a \in DOMAIN lista
    BY <1>t, <1>4 DEF Saca, Dentro, Avanza, EnRango
  <2>2. fasec'[c] = "mete" /\ mano'[c][1] = lista[de]
    BY <1>t, <2>1
  <2>3. Fuera(fasec) /\ Solo(fasec', c)
    <3>1. Fuera(fasec)
      BY <2>1, FueraOSolo DEF CInv
    <3>2. Solo(fasec', c)
      BY <2>2 DEF Solo, CInv, Base, ExclusionMutua, EnSeccion
    <3>3. QED
      BY <3>1, <3>2
  <2>4. ListaPrometida = lista /\ ListaPrometida' = InsertAt(lista', a, mano'[c][1])
    BY <1>2, <2>2, <2>3, ListasPrometidas
  <2> HIDE DEF de, a
  <2>5. ListaPrometida' = Movida(lista, de, a)
    BY <2>1, <2>2, <2>4 DEF Movida
  <2>6. QED
    BY <1>2, <2>1, <2>4, <2>5, MismasListas DEF AM!AMRpc
<1>5. CASE Mete(c)
  <2>1. /\ fasec[c] = "mete" /\ fasec' = [fasec EXCEPT ![c] = "respondida"]
        /\ lista' = InsertAt(lista, pet[c].a, mano[c][1])
    BY <1>5 DEF Mete, Sale, Responde
  <2>2. Solo(fasec, c)
    BY <2>1, FueraOSolo DEF CInv
  <2>3. Fuera(fasec')
    BY <1>t, <2>1, <2>2 DEF Fuera, Solo
  <2>4. ListaPrometida = lista' /\ ListaPrometida' = lista'
    BY <2>1, <2>2, <2>3, ListasPrometidas
  <2>5. QED
    BY <1>2, <2>4 DEF AM!amVars
<1>6. QED
  BY <1>3, <1>4, <1>5

\* A rule with the pattern may as well be gone before SinNombre.
LEMMA UnaMenos ==
  ASSUME NEW l \in Seq(Regla), NEW nombre, NEW k \in 1 .. Len(l), l[k].nombre = nombre
  PROVE  SinNombre(RemoveAt(l, k), nombre) = SinNombre(l, nombre)
<1> DEFINE m == RemoveAt(l, k)
           P == DOMAIN l \ Posiciones(l, nombre)
           Q == DOMAIN m \ Posiciones(m, nombre)
<1>0. Len(l) \in Nat /\ DOMAIN l = 1 .. Len(l)
  OBVIOUS
<1>1. /\ m \in Seq(Regla) /\ Len(m) = Len(l) - 1
      /\ \A j \in 1 .. Len(l) - 1 : m[j] = IF j < k THEN l[j] ELSE l[j + 1]
  BY RemoveAtPositions
<1>2. DOMAIN m = 1 .. Len(l) - 1
  BY <1>1
<1>3. P \in SUBSET (1 .. Len(l)) /\ k \notin P
  BY <1>0 DEF Posiciones
<1>4. Q \in SUBSET (1 .. Len(l) - 1)
  BY <1>2
<1>5. ASSUME NEW j \in 1 .. Len(l) - 1
      PROVE  j \in Q <=> (IF j < k THEN j ELSE j + 1) \in P
  <2>1. PICK d : d = IF j < k THEN j ELSE j + 1
    OBVIOUS
  <2>2. d \in 1 .. Len(l) /\ m[j] = l[d]
    BY <1>0, <1>1, <2>1
  <2>3. j \in Q <=> m[j].nombre # nombre
    BY <1>2 DEF Posiciones
  <2>4. d \in P <=> l[d].nombre # nombre
    BY <1>0, <2>2 DEF Posiciones
  <2>5. QED
    BY <2>1, <2>2, <2>3, <2>4
<1> HIDE DEF P, Q
<1>6. EnOrden(RemoveAt(l, k), Q) = EnOrden(l, P)
  BY <1>3, <1>4, <1>5, EnOrdenSin
<1>7. QED
  BY <1>6 DEF SinNombre, P, Q

\* borrarRegexp(string): for RuleMatching all is done at the first removal.
LEMMA BorraSCumple ==
  ASSUME CInv, CInv', NEW c \in Clientes, BorraS(c)
  PROVE  AM!AMRpc \/ UNCHANGED AM!amVars
<1>t. /\ lista \in Seq(Regla) /\ DOMAIN lista = 1 .. Len(lista)
      /\ indice \in [Clientes -> Nat \ {0}] /\ pet[c] \in Peticion \cup {Ninguna}
      /\ fasec \in [Clientes -> {"fuera", "mira", "espera", "dentro", "mete", "quita",
                                 "respondida"}]
  <2>1. lista \in Seq(Regla) /\ DOMAIN lista = 1 .. Len(lista)
    BY DEF CInv, Base, TypeOK, TipoLista
  <2>2. QED
    BY <2>1 DEF CInv, Base, TypeOK, TipoRpc
<1> DEFINE nombre == pet[c].nombre
<1>1. fasec[c] \in {"dentro", "quita"} /\ nombre \in Nombres /\ UNCHANGED pet
  <2>1. fasec[c] \in {"dentro", "quita"} /\ pet[c].op = "BorrarRegexpS" /\ UNCHANGED pet
    BY DEF BorraS, Dentro, Avanza, Sale, Responde, CInv, QInv
  <2>2. QED
    BY <1>t, <2>1, PeticionDe
<1>2. UNCHANGED <<hoy, aceptados, AnuncioJuzgado, resultado>>
  BY DEF BorraS, hilo, AnuncioJuzgado
<1>3. /\ fasec[c] = "dentro" => ListaPrometida = lista
      /\ fasec[c] = "quita" => ListaPrometida = SinNombre(lista, nombre)
  <2>1. /\ fasec[c] = "dentro" => Fuera(fasec)
        /\ fasec[c] = "quita" => Solo(fasec, c)
    BY FueraOSolo DEF CInv
  <2>2. QED
    BY <2>1, ListasPrometidas
<1>4. \A j \in 1 .. Len(lista) : j < indice[c] => lista[j].nombre # nombre
  BY <1>1, <1>t DEF CInv, EInv
<1>5. ASSUME NEW k \in Desde(lista, nombre, indice[c]), lista' = RemoveAt(lista, k),
             Avanza(c, "quita")
      PROVE  AM!AMRpc \/ UNCHANGED AM!amVars
  <2>1. k \in 1 .. Len(lista) /\ lista[k].nombre = nombre
    BY <1>t DEF Desde
  <2>2. SinNombre(lista', nombre) = SinNombre(lista, nombre)
    BY <1>t, <1>5, <2>1, UnaMenos
  <2>3. fasec'[c] = "quita"
    BY <1>t, <1>5 DEF Avanza
  <2>4. Solo(fasec', c)
    BY <2>3 DEF Solo, CInv, Base, ExclusionMutua, EnSeccion
  <2>5. ListaPrometida' = SinNombre(lista, nombre)
    BY <1>1, <2>2, <2>3, <2>4, ListasPrometidas
  <2> HIDE DEF nombre
  <2>6. CASE fasec[c] = "quita"
    BY <1>2, <1>3, <2>5, <2>6 DEF AM!amVars
  <2>7. CASE fasec[c] = "dentro"
    <3>1. ListaPrometida' = AM!SinNombre(ListaPrometida, nombre)
      BY <1>3, <2>5, <2>7, MismasListas
    <3>2. QED
      BY <1>1, <1>2, <3>1 DEF AM!AMRpc
  <2>8. QED
    BY <1>1, <2>6, <2>7
<1>6. CASE /\ Desde(lista, nombre, indice[c]) = {}
           /\ UNCHANGED lista /\ Sale(c, "true")
  <2>1. Posiciones(lista, nombre) = {}
    <3>1. ASSUME NEW j \in 1 .. Len(lista) PROVE lista[j].nombre # nombre
      BY <1>4, <1>6, <1>t DEF Desde
    <3>2. QED
      BY <1>t, <3>1 DEF Posiciones
  <2>2. SinNombre(lista, nombre) = lista
    BY <1>t, <2>1, EnOrdenTodo DEF SinNombre
  <2>3. Fuera(fasec')
    <3>1. fasec' = [fasec EXCEPT ![c] = "respondida"]
      BY <1>6 DEF Sale, Responde
    <3>2. \A d \in Clientes : d # c => fasec[d] \notin {"mete", "quita"}
      BY <1>1 DEF CInv, Base, ExclusionMutua, EnSeccion
    <3>3. QED
      BY <1>t, <3>1, <3>2 DEF Fuera
  <2>4. ListaPrometida' = lista /\ ListaPrometida = lista
    BY <1>1, <1>3, <1>6, <2>2, <2>3, ListasPrometidas
  <2>5. QED
    BY <1>2, <2>4 DEF AM!amVars
<1>7. QED
  BY <1>5, <1>6 DEF BorraS

\* Elsewhere the handlers change nothing RuleMatching sees.
LEMMA MismaPrometida ==
  ASSUME CInv, UNCHANGED <<lista, mano>>,
         \A d \in Clientes :
           /\ fasec'[d] \in {"mete", "quita"} <=> fasec[d] \in {"mete", "quita"}
           /\ fasec[d] \in {"mete", "quita"} => fasec'[d] = fasec[d] /\ pet'[d] = pet[d]
  PROVE  ListaPrometida' = ListaPrometida
<1>1. CASE Fuera(fasec)
  <2>1. Fuera(fasec')
    BY <1>1 DEF Fuera
  <2>2. QED
    BY <1>1, <2>1, ListasPrometidas
<1>2. CASE ~Fuera(fasec)
  <2>1. PICK c \in Clientes : fasec[c] \in {"mete", "quita"}
    BY <1>2 DEF Fuera
  <2>2. Solo(fasec, c)
    BY <2>1, FueraOSolo DEF CInv
  <2>3. Solo(fasec', c) /\ fasec'[c] = fasec[c] /\ pet'[c] = pet[c]
    BY <2>2 DEF Solo
  <2>4. QED
    BY <2>2, <2>3, ListasPrometidas
<1>3. QED
  BY <1>1, <1>2

\* Each step of a handler, between scans, is one of RuleMatching's or none.
LEMMA HandlerCumple ==
  ASSUME CInv, CInv', NEW c \in Clientes, PasoRpc(c)
  PROVE  AM!AMNext \/ UNCHANGED AM!amVars
<1>1. CASE Comprueba(c) \/ Entra(c) \/ Recoge(c)
  <2>1. UNCHANGED <<lista, mano, hoy, aceptados, AnuncioJuzgado, resultado>>
    BY <1>1 DEF Comprueba, Entra, Recoge, hilo, AnuncioJuzgado
  <2>2. \A d \in Clientes :
          /\ fasec'[d] \in {"mete", "quita"} <=> fasec[d] \in {"mete", "quita"}
          /\ fasec[d] \in {"mete", "quita"} => fasec'[d] = fasec[d] /\ pet'[d] = pet[d]
    <3>1. /\ fasec \in [Clientes -> {"fuera", "mira", "espera", "dentro", "mete", "quita",
                                     "respondida"}]
          /\ pet \in [Clientes -> Peticion \cup {Ninguna}]
      BY DEF CInv, Base, TypeOK, TipoRpc
    <3>2. fasec[c] \in {"mira", "espera", "respondida"}
      BY <1>1 DEF Comprueba, Entra, Recoge
    <3>3. /\ \E f \in {"espera", "respondida", "dentro", "fuera"} : fasec' = [fasec EXCEPT ![c] = f]
          /\ \E p : pet' = pet \/ pet' = [pet EXCEPT ![c] = p]
      BY <1>1 DEF Comprueba, Entra, Recoge, Avanza, Responde
    <3>4. QED
      BY <3>1, <3>2, <3>3
  <2>3. ListaPrometida' = ListaPrometida
    BY <2>1, <2>2, MismaPrometida
  <2>4. QED
    BY <2>1, <2>3 DEF AM!amVars
<1>2. CASE Anade(c)
  BY <1>2, AnadeCumple DEF AM!AMNext
<1>3. CASE Edita(c) \/ EditaI(c) \/ Activa(c) \/ BorraI(c)
  BY <1>3, CambiaCumple DEF AM!AMNext
<1>4. CASE Saca(c) \/ Mete(c)
  BY <1>4, MueveCumple DEF AM!AMNext
<1>5. CASE BorraS(c)
  BY <1>5, BorraSCumple DEF AM!AMNext
<1>6. CASE MeteFuera(c)
  BY <1>6 DEF MeteFuera, CInv, SInv, Vivo
<1>7. QED
  BY <1>1, <1>2, <1>3, <1>4, <1>5, <1>6 DEF PasoRpc

LEMMA PasoCumple ==
  ASSUME CInv, CInv', [SerialNext]_vars
  PROVE  AM!AMNext \/ UNCHANGED AM!amVars
<1>1. CASE cerrojo = Nadie /\ Llegada
  BY <1>1, LlegadaCumple
<1>2. CASE PasoPrincipal
  BY <1>2, PrincipalCumple DEF CInv
<1>3. ASSUME NEW c \in Clientes, NEW p \in Peticiones, Pide(c, p)
      PROVE  UNCHANGED AM!amVars
  <2>1. UNCHANGED <<lista, mano, hoy, aceptados, AnuncioJuzgado, resultado>>
    BY <1>3 DEF Pide, hilo, AnuncioJuzgado
  <2>2. \A d \in Clientes :
          /\ fasec'[d] \in {"mete", "quita"} <=> fasec[d] \in {"mete", "quita"}
          /\ fasec[d] \in {"mete", "quita"} => fasec'[d] = fasec[d] /\ pet'[d] = pet[d]
    BY <1>3 DEF Pide, CInv, Base, TypeOK, TipoRpc
  <2>3. ListaPrometida' = ListaPrometida
    BY <2>1, <2>2, MismaPrometida
  <2>4. QED
    BY <2>1, <2>3 DEF AM!amVars
<1>4. CASE fase = "libre" /\ Handler
  BY <1>4, HandlerCumple DEF Handler
<1>5. CASE fase = "libre" /\ Medianoche
  <2>1. /\ hoy' = hoy + 1
        /\ UNCHANGED <<lista, mano, fasec, pet, aceptados, AnuncioJuzgado, resultado>>
    BY <1>5 DEF Medianoche, hilo, rpc, AnuncioJuzgado
  <2>2. ListaPrometida' = ListaPrometida
    BY <2>1, MismaPrometida
  <2>3. AM!AMMedianoche
    BY <2>1, <2>2 DEF AM!AMMedianoche
  <2>4. QED
    BY <2>3 DEF AM!AMNext
<1>6. CASE UNCHANGED vars
  <2>1. UNCHANGED <<lista, mano, fasec, pet, hoy, aceptados, AnuncioJuzgado, resultado>>
    BY <1>6 DEF vars, hilo, rpc, AnuncioJuzgado
  <2>2. ListaPrometida' = ListaPrometida
    BY <2>1, MismaPrometida
  <2>3. QED
    BY <2>1, <2>2 DEF AM!amVars
<1>7. QED
  BY <1>1, <1>2, <1>3, <1>4, <1>5, <1>6 DEF SerialNext, Llamada

\* While no critical section falls inside a scan the threads keep the promise
\* of RuleMatching: one list for each announcement, each RPC at once, no title
\* again while it is among the last Ventana.
THEOREM LoSerialCumple == SerialSpec => CumplePromesa
<1>1. Init => AM!AMInit
  <2> SUFFICES ASSUME Init PROVE AM!AMInit
    OBVIOUS
  <2>1. Fuera(fasec)
    BY DEF Init, Fuera
  <2>2. ListaPrometida = lista
    BY <2>1, ListasPrometidas
  <2>3. AnuncioJuzgado = SinAnuncio
    BY DEF Init, AnuncioJuzgado
  <2>4. QED
    BY <2>2, <2>3 DEF Init, AM!AMInit
<1>2. SerialSpec => []CInv
  <2>1. SerialSpec => [](QInv /\ VInv)
    BY SerialEsDeSpec, QInvSiempre, VentanaSiempre, PTL
  <2>2. QED
    BY <2>1, BaseSiempre, SInvSiempre, PInvSiempre, VenceInvSiempre, FInvSiempre, EInvSiempre,
       PTL DEF CInv
<1>3. CInv /\ CInv' /\ [SerialNext]_vars => [AM!AMNext]_(AM!amVars)
  BY PasoCumple
<1>4. QED
  BY <1>1, <1>2, <1>3, PTL DEF SerialSpec, CumplePromesa, AM!AMSpec
=============================================================================
