-------------------------- MODULE DownloadsProofs --------------------------
(***************************************************************************)
(* Proofs about Downloads, for any trackers, links, names and threads that *)
(* read the log: its types, the files that stay as they were written, the  *)
(* readings of the log, and the order of its lines.                        *)
(***************************************************************************)
EXTENDS Downloads, SequenceTheorems, TLAPS

-----------------------------------------------------------------------------
(* Types.                                                                  *)

\* The main thread leaves the variables of its own with their types.
LEMMA BajadaTipo ==
  ASSUME TypeOK,
         \/ \E e \in Enlaces, t \in Titulos : ParseLink(e, t)
         \/ \E r \in vuelo : RespuestaError(r)
         \/ \E r \in vuelo, n \in Nombres, h \in Sitios : RespuestaBuena(r, n, h)
         \/ PasoPrincipal
  PROVE  TypeOK'
<1> USE DownloadsAssumption DEF TypeOK, varsRpc
<1>1. ASSUME NEW e \in Enlaces, NEW t \in Titulos, ParseLink(e, t) PROVE TypeOK'
  <2> DEFINE p == [sitio |-> e.sitio, ruta |-> e.ruta,
                   absoluta |-> ~e.directo /\ e.sitio \in Absolutos]
  <2>1. e \in Enlace
    OBVIOUS
  <2>2. e.sitio \in Sitios /\ e.ruta \in Rutas
    BY <2>1 DEF Enlace
  <2>3. p.absoluta \in BOOLEAN
    OBVIOUS
  <2>4. p \in Peticion
    BY <2>2, <2>3 DEF Peticion
  <2>5. [clave |-> p, titulo |-> t] \in [clave : Peticion, titulo : Nombres]
    BY <2>4
  <2>6. posts' \subseteq [clave : Peticion, titulo : Nombres]
    BY <1>1, <2>5 DEF ParseLink, Sin
  <2>7. [n |-> peticiones + 1, pide |-> p] \in [n : 1 .. peticiones + 1, pide : Peticion]
    BY <2>4
  <2>8. vuelo' \subseteq [n : 1 .. peticiones', pide : Peticion]
    BY <1>1, <2>7 DEF ParseLink
  <2>9. \A f \in DOMAIN ficheros' : ficheros'[f] \in 1 .. peticiones'
    BY <1>1 DEF ParseLink
  <2> HIDE DEF p
  <2>10. QED
    BY <1>1, <2>6, <2>8, <2>9 DEF ParseLink
<1>2. ASSUME NEW r \in vuelo, RespuestaError(r) PROVE TypeOK'
  BY <1>2 DEF RespuestaError
<1>3. ASSUME NEW r \in vuelo, NEW n \in Nombres, NEW h \in Sitios,
             RespuestaBuena(r, n, h)
      PROVE TypeOK'
  <2>1. NombreDe(r, n, h) \subseteq Nombres
    BY DEF NombreDe, Guardado
  <2>2. posts' \subseteq posts
    BY <1>3 DEF RespuestaBuena, Sin
  <2>3. CASE UNCHANGED <<ficheros, nombre, guardados, fase>>
    BY <1>3, <2>2, <2>3 DEF RespuestaBuena
  <2>4. ASSUME NEW f \in NombreDe(r, n, h), Crea(r, f), nombre' = Limpio[f],
               guardados' = Append(guardados, Limpio[f]), fase' = "registra"
        PROVE TypeOK'
    <3>1. Limpio[f] \in Nombres
      BY <2>1, <2>4
    <3>2. r.n \in 1 .. peticiones
      OBVIOUS
    <3>3. QED
      BY <1>3, <2>2, <2>4, <3>1, <3>2 DEF RespuestaBuena, Crea
  <2>5. QED
    BY <1>3, <2>3, <2>4 DEF RespuestaBuena
<1>4. CASE PasoPrincipal
  <2>1. CASE AbreLog
    BY <2>1 DEF AbreLog
  <2>2. CASE EscribeLog
    BY <2>2 DEF EscribeLog
  <2>3. CASE Avisado
    BY <2>3 DEF Avisado
  <2>4. QED
    BY <1>4, <2>1, <2>2, <2>3 DEF PasoPrincipal
<1>5. QED
  BY <1>1, <1>2, <1>3, <1>4

\* Every variable keeps to the values its type in the code allows.
THEOREM DownloadsTypeCorrect == Spec => []TypeOK
<1> USE DownloadsAssumption DEF TypeOK
<1>1. Init => TypeOK
  BY DEF Init
<1>2. TypeOK /\ [Next]_vars => TypeOK'
  <2> SUFFICES ASSUME TypeOK, [Next]_vars PROVE TypeOK'
    OBVIOUS
  <2>1. ASSUME NEW c \in Clientes, EntraVerLog(c) PROVE TypeOK'
    <3>1. CASE abierto = Nadie
      <4>1. lectura' \in [Clientes -> {"fuera", "lee"}]
        BY <2>1, <3>1 DEF EntraVerLog
      <4>2. abierto' \in Clientes /\ cerrojo' \in Clientes
        BY <2>1, <3>1 DEF EntraVerLog
      <4>3. QED
        BY <2>1, <4>1, <4>2 DEF EntraVerLog
    <3>2. CASE abierto # Nadie
      BY <2>1, <3>2 DEF EntraVerLog
    <3>3. QED
      BY <3>1, <3>2
  <2>2. ASSUME NEW c \in Clientes, LeeLinea(c) PROVE TypeOK'
    BY <2>2, ElementOfSeq DEF LeeLinea, varsBajada
  <2>3. ASSUME NEW c \in Clientes, SaleVerLog(c) PROVE TypeOK'
    BY <2>3 DEF SaleVerLog
  <2>4. CASE Retira
    BY <2>4 DEF Retira, varsRpc
  <2>5. CASE UNCHANGED vars
    BY <2>5 DEF vars, varsBajada, varsRpc
  <2>6. QED
    BY <2>1, <2>2, <2>3, <2>4, <2>5, BajadaTipo DEF Next, PasoRpc
<1>3. QED
  BY <1>1, <1>2, PTL DEF Spec

-----------------------------------------------------------------------------
(* The files.                                                              *)

\* A file that is there keeps what it holds: only Crea writes, and under a
\* name that is already clean and that no file has.
THEOREM FicherosIntactos == Spec => NoSobrescribe
<1> DEFINE A == \A f \in DOMAIN ficheros \cap DOMAIN ficheros' :
                  ficheros'[f] = ficheros[f]
<1>1. ASSUME [Next]_vars PROVE A
  <2>1. CASE UNCHANGED ficheros
    BY <2>1
  <2>2. ASSUME NEW r \in vuelo, NEW n \in Nombres, NEW h \in Sitios,
               RespuestaBuena(r, n, h)
        PROVE A
    <3>1. ASSUME NEW f, Crea(r, f) PROVE A
      BY <3>1 DEF Crea
    <3>2. QED
      BY <2>1, <2>2, <3>1 DEF RespuestaBuena
  <2>3. CASE Retira
    BY <2>3 DEF Retira
  <2>4. CASE PasoPrincipal
    BY <2>1, <2>4 DEF PasoPrincipal, AbreLog, EscribeLog, Avisado
  <2>5. QED
    BY <1>1, <2>1, <2>2, <2>3, <2>4
    DEF Next, ParseLink, RespuestaError, EntraVerLog, PasoRpc, LeeLinea,
        SaleVerLog, vars, varsBajada
<1>2. QED
  BY <1>1, PTL DEF Spec, NoSobrescribe

-----------------------------------------------------------------------------
(* The log.                                                                *)

\* One thread at most has the log open, and it is the one that says so; what
\* a verLog has read is how the log begins.
LogInv ==
  /\ abierto = "rss" <=> fase = "escribe"
  /\ \A c \in Clientes : lectura[c] = "lee" <=> abierto = c
  /\ \A c \in Clientes :
       /\ Len(leido[c]) <= Len(registro)
       /\ \A j \in 1 .. Len(leido[c]) : leido[c][j] = registro[j]
  /\ consultas = 0 => abierto \notin Clientes

LEMMA LogInvSigue ==
  ASSUME TypeOK, LogInv, [Next]_vars
  PROVE  LogInv'
<1> USE DownloadsAssumption
<1>t. /\ registro \in Seq(Nombres) /\ leido \in [Clientes -> Seq(Nombres)]
      /\ lectura \in [Clientes -> {"fuera", "lee"}] /\ consultas \in Nat
  BY DEF TypeOK
<1>1. CASE UNCHANGED <<registro, varsRpc, abierto>> /\ (fase' = "escribe" <=> fase = "escribe")
  BY <1>1 DEF LogInv, varsRpc
<1>2. CASE AbreLog
  BY <1>2, <1>t DEF AbreLog, LogInv, varsRpc
<1>3. CASE EscribeLog
  <2>1. /\ abierto = "rss" /\ abierto' = Nadie /\ fase' = "avisa"
        /\ registro' = Append(registro, nombre) /\ UNCHANGED varsRpc
    BY <1>3 DEF EscribeLog, LogInv
  <2>2. \A c \in Clientes : lectura[c] # "lee"
    BY <2>1 DEF LogInv
  <2>3. /\ Len(registro') = Len(registro) + 1
        /\ \A j \in 1 .. Len(registro) : registro'[j] = registro[j]
    BY <2>1, <1>t, nombre \in Nombres DEF TypeOK
  <2>4. \A c \in Clientes : Len(leido[c]) \in Nat /\ Len(registro) \in Nat
    BY <1>t
  <2>5. QED
    BY <2>1, <2>2, <2>3, <2>4 DEF LogInv, varsRpc
<1>4. ASSUME NEW c \in Clientes, EntraVerLog(c) PROVE LogInv'
  <2>1. UNCHANGED <<registro, leido, fase>> /\ consultas' # 0
    BY <1>4, <1>t DEF EntraVerLog
  <2>2. CASE abierto = Nadie
    <3>1. abierto' = c /\ lectura' = [lectura EXCEPT ![c] = "lee"]
      BY <1>4, <2>2 DEF EntraVerLog
    <3>2. QED
      BY <2>1, <2>2, <3>1, <1>t DEF LogInv
  <2>3. CASE abierto # Nadie
    BY <1>4, <2>1, <2>3 DEF EntraVerLog, LogInv
  <2>4. QED
    BY <2>2, <2>3
<1>5. ASSUME NEW c \in Clientes, LeeLinea(c) PROVE LogInv'
  <2>1. /\ UNCHANGED <<registro, fase, abierto, lectura, consultas>>
        /\ Len(leido[c]) < Len(registro)
        /\ leido' = [leido EXCEPT ![c] = Append(@, registro[Len(@) + 1])]
    BY <1>5 DEF LeeLinea, varsBajada
  <2>2. registro[Len(leido[c]) + 1] \in Nombres
    BY <2>1, <1>t, ElementOfSeq
  <2>3. /\ Len(leido'[c]) = Len(leido[c]) + 1
        /\ leido'[c][Len(leido[c]) + 1] = registro[Len(leido[c]) + 1]
        /\ \A j \in 1 .. Len(leido[c]) : leido'[c][j] = leido[c][j]
    BY <2>1, <2>2, <1>t
  <2>4. Len(leido[c]) \in Nat /\ Len(registro) \in Nat
    BY <1>t
  <2>5. /\ Len(leido'[c]) <= Len(registro)
        /\ \A j \in 1 .. Len(leido'[c]) : leido'[c][j] = registro[j]
    BY <2>1, <2>3, <2>4 DEF LogInv
  <2>6. \A d \in Clientes \ {c} : leido'[d] = leido[d]
    BY <2>1, <1>t
  <2>7. QED
    BY <2>1, <2>5, <2>6 DEF LogInv
<1>6. ASSUME NEW c \in Clientes, SaleVerLog(c) PROVE LogInv'
  <2>1. /\ UNCHANGED <<registro, fase, consultas>> /\ abierto = c /\ abierto' = Nadie
        /\ lectura' = [lectura EXCEPT ![c] = "fuera"]
        /\ leido' = [leido EXCEPT ![c] = <<>>]
    BY <1>6 DEF SaleVerLog, LogInv
  <2>2. Len(leido'[c]) = 0 /\ Len(registro) \in Nat
    BY <2>1, <1>t
  <2>3. \A d \in Clientes \ {c} : leido'[d] = leido[d] /\ lectura'[d] = lectura[d]
    BY <2>1, <1>t
  <2>4. lectura'[c] = "fuera"
    BY <2>1, <1>t
  <2>5. QED
    BY <2>1, <2>2, <2>3, <2>4 DEF LogInv
<1>7. ASSUME NEW r \in vuelo, NEW n \in Nombres, NEW h \in Sitios,
             RespuestaBuena(r, n, h)
      PROVE LogInv'
  BY <1>7, <1>1 DEF RespuestaBuena
<1>8. QED
  BY <1>1, <1>2, <1>3, <1>4, <1>5, <1>6, <1>7
  DEF Next, ParseLink, RespuestaError, PasoPrincipal, Avisado, PasoRpc, Retira,
      vars, varsBajada, varsRpc

LEMMA LogInvSiempre == Spec => [](TypeOK /\ LogInv)
<1>1. Init => LogInv
  BY DownloadsAssumption DEF Init, LogInv
<1>2. TypeOK /\ LogInv /\ [Next]_vars => LogInv'
  BY LogInvSigue
<1>3. QED
  BY <1>1, <1>2, DownloadsTypeCorrect, PTL DEF Spec

\* A verLog that opened the log answers with all of it, whatever the main
\* thread downloads meanwhile and however many others ask.
THEOREM LecturaEntera == Spec => VerLogEntero
<1> DEFINE A == \A c \in Clientes :
                  lectura[c] = "lee" /\ lectura'[c] = "fuera" => leido[c] = registro
<1>1. ASSUME TypeOK, LogInv, [Next]_vars PROVE A
  <2>t. /\ registro \in Seq(Nombres) /\ leido \in [Clientes -> Seq(Nombres)]
        /\ lectura \in [Clientes -> {"fuera", "lee"}]
    BY <1>1 DEF TypeOK
  <2>1. CASE UNCHANGED lectura
    BY <2>1
  <2>2. ASSUME NEW c \in Clientes, EntraVerLog(c) PROVE A
    BY <2>1, <2>2, <2>t DEF EntraVerLog
  <2>3. ASSUME NEW c \in Clientes, SaleVerLog(c) PROVE A
    <3>1. abierto = c /\ Len(leido[c]) >= Len(registro)
      BY <1>1, <2>3 DEF SaleVerLog, LogInv
    <3>2. /\ leido[c] \in Seq(Nombres) /\ Len(leido[c]) = Len(registro)
          /\ \A j \in 1 .. Len(leido[c]) : leido[c][j] = registro[j]
      BY <1>1, <3>1, <2>t DEF LogInv
    <3>3. leido[c] = registro
      BY <3>2, <2>t, SeqEqual
    <3>4. \A d \in Clientes \ {c} : lectura'[d] = lectura[d]
      BY <2>3, <2>t DEF SaleVerLog
    <3>5. QED
      BY <3>3, <3>4
  <2>4. QED
    BY <1>1, <2>1, <2>2, <2>3
    DEF Next, ParseLink, RespuestaError, RespuestaBuena, PasoPrincipal, AbreLog,
        EscribeLog, Avisado, PasoRpc, LeeLinea, Retira, vars, varsRpc
<1>2. QED
  BY <1>1, LogInvSiempre, PTL DEF Spec, VerLogEntero

-----------------------------------------------------------------------------
(* The lines of the log.                                                   *)

\* The files written whose line is in the log or has been given up.
Hechos == IF fase \in {"registra", "escribe"} THEN Len(guardados) - 1
          ELSE Len(guardados)

\* Line k of the log is file f[k] of guardados.
Corresponde(f) ==
  /\ \A j, k \in 1 .. Len(registro) : j < k => f[j] < f[k]
  /\ \A k \in 1 .. Len(registro) : registro[k] = guardados[f[k]]

RegInv ==
  /\ fase \in {"registra", "escribe"} =>
       Len(guardados) > 0 /\ guardados[Len(guardados)] = nombre
  /\ \E f \in [1 .. Len(registro) -> 1 .. Hechos] : Corresponde(f)
  /\ consultas = 0 =>
       /\ Len(registro) = Hechos
       /\ \A k \in 1 .. Hechos : registro[k] = guardados[k]

\* A file is written: its line is the next to come.
LEMMA CreaRegInv ==
  ASSUME TypeOK, RegInv, fase = "libre", UNCHANGED <<registro, consultas>>,
         NEW g \in Nombres, guardados' = Append(guardados, g), nombre' = g,
         fase' = "registra"
  PROVE  RegInv'
<1>1. guardados \in Seq(Nombres) /\ Len(guardados) \in Nat
  BY DEF TypeOK
<1>2. /\ Len(guardados') = Len(guardados) + 1 /\ guardados'[Len(guardados')] = g
      /\ \A k \in 1 .. Len(guardados) : guardados'[k] = guardados[k]
  BY <1>1
<1>3. Hechos' = Len(guardados) /\ Hechos = Len(guardados)
  BY <1>1, <1>2 DEF Hechos
<1>4. PICK f \in [1 .. Len(registro) -> 1 .. Len(guardados)] : Corresponde(f)
  BY <1>3 DEF RegInv
<1>5. Corresponde(f)'
  BY <1>2, <1>4 DEF Corresponde
<1>6. QED
  BY <1>1, <1>2, <1>3, <1>4, <1>5 DEF RegInv

\* The line is written.
LEMMA EscribeRegInv ==
  ASSUME TypeOK, RegInv, EscribeLog
  PROVE  RegInv'
<1>1. /\ guardados \in Seq(Nombres) /\ Len(guardados) \in Nat
      /\ registro \in Seq(Nombres) /\ Len(registro) \in Nat /\ nombre \in Nombres
  BY DEF TypeOK
<1>2. /\ fase = "escribe" /\ fase' = "avisa" /\ registro' = Append(registro, nombre)
      /\ UNCHANGED <<guardados, nombre, consultas>>
  BY DEF EscribeLog, varsRpc
<1>3. /\ Hechos = Len(guardados) - 1 /\ Hechos' = Len(guardados)
      /\ Len(guardados) > 0 /\ guardados[Len(guardados)] = nombre
  BY <1>2 DEF Hechos, RegInv
<1>4. /\ Len(registro') = Len(registro) + 1 /\ registro'[Len(registro')] = nombre
      /\ \A k \in 1 .. Len(registro) : registro'[k] = registro[k]
  BY <1>1, <1>2
<1>5. PICK f \in [1 .. Len(registro) -> 1 .. Len(guardados) - 1] : Corresponde(f)
  BY <1>3 DEF RegInv
<1>h. PICK h : h = [k \in 1 .. Len(registro) + 1 |->
                      IF k = Len(registro) + 1 THEN Len(guardados) ELSE f[k]]
  OBVIOUS
<1>6. h \in [1 .. Len(registro') -> 1 .. Hechos']
  BY <1>1, <1>3, <1>4, <1>5, <1>h
<1>7. Corresponde(h)'
  <2>1. ASSUME NEW j \in 1 .. Len(registro'), NEW k \in 1 .. Len(registro'), j < k
        PROVE h[j] < h[k]
    <3>1. j \in 1 .. Len(registro) /\ h[j] = f[j] /\ f[j] \in 1 .. Len(guardados) - 1
      BY <1>1, <1>4, <1>5, <1>h, <2>1
    <3>2. CASE k = Len(registro) + 1
      BY <1>1, <1>3, <1>h, <3>1, <3>2
    <3>3. CASE k # Len(registro) + 1
      <4>1. k \in 1 .. Len(registro) /\ h[k] = f[k]
        BY <1>1, <1>4, <1>h, <3>3
      <4>2. f[j] < f[k]
        BY <1>5, <2>1, <3>1, <4>1 DEF Corresponde
      <4>3. QED
        BY <3>1, <4>1, <4>2
    <3>4. QED
      BY <3>2, <3>3
  <2>2. ASSUME NEW k \in 1 .. Len(registro') PROVE registro'[k] = guardados'[h[k]]
    <3>1. CASE k = Len(registro) + 1
      BY <1>1, <1>2, <1>3, <1>4, <1>h, <3>1
    <3>2. CASE k # Len(registro) + 1
      BY <1>1, <1>2, <1>4, <1>5, <1>h, <3>2 DEF Corresponde
    <3>3. QED
      BY <3>1, <3>2
  <2>3. QED
    BY <2>1, <2>2 DEF Corresponde
<1>8. consultas' = 0 => /\ Len(registro') = Hechos'
                       /\ \A k \in 1 .. Hechos' : registro'[k] = guardados'[k]
  BY <1>1, <1>2, <1>3, <1>4 DEF RegInv
<1>9. QED
  BY <1>2, <1>6, <1>7, <1>8 DEF RegInv

\* The line is given up, only when a verLog has the log open.
LEMMA AbreRegInv ==
  ASSUME TypeOK, LogInv, RegInv, AbreLog
  PROVE  RegInv'
<1>1. /\ guardados \in Seq(Nombres) /\ Len(guardados) \in Nat
      /\ UNCHANGED <<registro, guardados, nombre, consultas>> /\ fase = "registra"
  BY DEF TypeOK, AbreLog, varsRpc
<1>2. PICK f \in [1 .. Len(registro) -> 1 .. Hechos] : Corresponde(f)
  BY DEF RegInv
<1>3. Hechos = Len(guardados) - 1 /\ Corresponde(f)'
  BY <1>1, <1>2 DEF Hechos, Corresponde
<1>4. CASE fase' = "escribe"
  <2>1. Hechos' = Hechos
    BY <1>1, <1>4 DEF Hechos
  <2>2. QED
    BY <1>1, <1>2, <1>3, <1>4, <2>1 DEF RegInv
<1>5. CASE fase' = "avisa"
  <2>1. abierto # Nadie
    BY <1>5 DEF AbreLog
  <2>2. abierto \in Clientes
    BY <1>1, <2>1 DEF LogInv, TypeOK
  <2>3. consultas' # 0
    BY <1>1, <2>2 DEF LogInv
  <2>4. Hechos' = Len(guardados)
    BY <1>1, <1>5 DEF Hechos
  <2>5. f \in [1 .. Len(registro') -> 1 .. Hechos']
    BY <1>1, <1>2, <1>3, <2>4
  <2>6. QED
    BY <1>3, <1>5, <2>3, <2>5 DEF RegInv
<1>6. QED
  BY <1>4, <1>5 DEF AbreLog

LEMMA RegInvSigue ==
  ASSUME TypeOK, LogInv, RegInv, [Next]_vars
  PROVE  RegInv'
<1>1. CASE UNCHANGED <<registro, guardados, nombre, consultas, fase>>
  BY <1>1 DEF RegInv, Hechos, Corresponde
<1>2. ASSUME NEW r \in vuelo, NEW n \in Nombres, NEW h \in Sitios,
             RespuestaBuena(r, n, h)
      PROVE RegInv'
  <2>1. fase = "libre" /\ UNCHANGED <<registro, consultas>>
    BY <1>2 DEF RespuestaBuena, varsRpc
  <2>2. ASSUME NEW f \in NombreDe(r, n, h), guardados' = Append(guardados, Limpio[f]),
               nombre' = Limpio[f], fase' = "registra"
        PROVE RegInv'
    <3>1. f \in Nombres
      BY DownloadsAssumption DEF NombreDe, Guardado, TypeOK
    <3>2. Limpio[f] \in Nombres
      BY <3>1, DownloadsAssumption
    <3>3. QED
      BY <2>1, <2>2, <3>2, CreaRegInv
  <2>3. QED
    BY <1>1, <1>2, <2>1, <2>2 DEF RespuestaBuena
<1>3. CASE Avisado
  BY <1>3 DEF Avisado, varsRpc, RegInv, Hechos, Corresponde
<1>4. ASSUME NEW c \in Clientes, EntraVerLog(c) PROVE RegInv'
  <2>1. UNCHANGED <<registro, guardados, nombre, fase>> /\ consultas' # 0
    BY <1>4 DEF EntraVerLog, TypeOK
  <2>2. QED
    BY <2>1 DEF RegInv, Hechos, Corresponde
<1>5. QED
  BY <1>1, <1>2, <1>3, <1>4, AbreRegInv, EscribeRegInv
  DEF Next, ParseLink, RespuestaError, PasoPrincipal, PasoRpc, LeeLinea,
      SaleVerLog, Retira, vars, varsBajada, varsRpc

\* The log holds the files that were written, in order and each once, and all
\* of them while nobody has asked for the log: a line is lost only when
\* saveLog meets a verLog.
THEOREM LogFiel == Spec => []RegistroFiel
<1>1. Init => RegInv
  <2> SUFFICES ASSUME Init PROVE RegInv
    OBVIOUS
  <2>1. registro = <<>> /\ guardados = <<>> /\ fase = "libre" /\ Hechos = 0
    BY DEF Init, Hechos
  <2> DEFINE f == [k \in 1 .. 0 |-> 0]
  <2>2. f \in [1 .. Len(registro) -> 1 .. Hechos] /\ Corresponde(f)
    BY <2>1 DEF Corresponde
  <2>3. QED
    BY <2>1, <2>2 DEF RegInv
<1>2. TypeOK /\ LogInv /\ RegInv /\ [Next]_vars => RegInv'
  BY RegInvSigue
<1>3. TypeOK /\ RegInv => RegistroFiel
  <2> SUFFICES ASSUME TypeOK, RegInv PROVE RegistroFiel
    OBVIOUS
  <2>1. /\ guardados \in Seq(Nombres) /\ registro \in Seq(Nombres)
        /\ DOMAIN registro = 1 .. Len(registro)
        /\ DOMAIN guardados = 1 .. Len(guardados)
        /\ Len(guardados) \in Nat
    BY DEF TypeOK
  <2>2. PICK f \in [1 .. Len(registro) -> 1 .. Hechos] : Corresponde(f)
    BY DEF RegInv
  <2>3. f \in [DOMAIN registro -> DOMAIN guardados]
    BY <2>1, <2>2 DEF Hechos
  <2>4. consultas = 0 /\ fase \in {"libre", "avisa"} => registro = guardados
    BY <2>1, SeqEqual DEF RegInv, Hechos
  <2>5. QED
    BY <2>1, <2>2, <2>3, <2>4 DEF RegistroFiel, Corresponde
<1>4. QED
  BY <1>1, <1>2, <1>3, LogInvSiempre, PTL DEF Spec
=============================================================================
