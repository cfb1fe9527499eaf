----------------------------- MODULE Downloads -----------------------------
(***************************************************************************)
(* What Rss_lite does with an upload that a rule wants: parseLink asks for *)
(* the torrent, readDataTorrent names and writes the file, saveLog notes   *)
(* it and sendMail announces it (that sendMail returns is EnvioTermina of  *)
(* MailSender).  All of that is the Qt main thread.  The log is one QFile  *)
(* that verLog, on a gRPC thread (Clientes) and under the mutex of         *)
(* rssani_lite, opens and reads too; the open of a QFile that is open      *)
(* fails, and is one step here.                                            *)
(*                                                                         *)
(* A link is its site, whether it holds the word "download", and the rest, *)
(* Ruta.  parseLink asks for a URL with no scheme, which the library       *)
(* refuses, unless the tracker's urlDownload is itself a whole URL         *)
(* (Absolutos); only such a request can have a good answer.                *)
(***************************************************************************)
EXTENDS Integers, Sequences

CONSTANTS
  Sitios,          \* scheme and host of links
  Trackers,        \* those iniciaTrackers copied from the auths
  Absolutos,       \* the trackers whose urlDownload is a whole URL
  Rutas,           \* what follows the site, arguments included
  Camino,          \* the path of each of Rutas, without its arguments
  Enlaces,         \* the links the accepted announcements may have
  Titulos,         \* the titles they may have
  Nombres,         \* titles, and the names of files
  Vacio,           \* the empty string
  Limpio,          \* each name with its slashes and backslashes as dashes
  Clientes,        \* gRPC threads that may call VerLog
  Nadie,           \* no thread
  MaxPeticiones,   \* bound: requests made
  MaxConsultas     \* bound: calls of VerLog

Enlace  == [sitio : Sitios, directo : BOOLEAN, ruta : Rutas]
Peticion == [sitio : Sitios, ruta : Rutas, absoluta : BOOLEAN]

ASSUME DownloadsAssumption ==
  /\ Trackers \subseteq Sitios /\ Absolutos \subseteq Trackers
  /\ Camino \in [Rutas -> Rutas]
  /\ Enlaces \subseteq Enlace
  /\ Titulos \subseteq Nombres /\ Vacio \in Nombres \ Titulos
  /\ Limpio \in [Nombres -> Nombres]
  /\ \A n \in Nombres : Limpio[Limpio[n]] = Limpio[n]
  /\ Nadie \notin Clientes \cup {"rss"} /\ "rss" \notin Clientes
  /\ MaxPeticiones \in Nat /\ MaxConsultas \in Nat

VARIABLES
  posts,      \* QHash posts: what was asked for, and its title
  vuelo,      \* the requests with no reply yet, numbered
  ficheros,   \* the files of values->Ruta(): which reply each holds
  registro,   \* the lines of the log
  abierto,    \* the thread that has the QFile of the log open
  fase,       \* where the main thread is
  nombre,     \* ctx.filename
  cerrojo,    \* the mutex of rssani_lite
  lectura,    \* where each verLog is
  leido,      \* its `result`
  peticiones, \* history: requests made
  consultas,  \* history: calls of VerLog
  guardados   \* history: the files written, in order

varsBajada == <<posts, vuelo, ficheros, registro, abierto, fase, nombre,
                peticiones, guardados>>
varsRpc == <<cerrojo, lectura, leido, consultas>>
vars == <<varsBajada, varsRpc>>

Init ==
  /\ posts = {} /\ vuelo = {} /\ ficheros = <<>>
  /\ registro = <<>> /\ abierto = Nadie
  /\ fase = "libre" /\ nombre = Vacio
  /\ cerrojo = Nadie
  /\ lectura = [c \in Clientes |-> "fuera"]
  /\ leido = [c \in Clientes |-> <<>>]
  /\ peticiones = 0 /\ consultas = 0 /\ guardados = <<>>

-----------------------------------------------------------------------------
(* The main thread: the request and its reply.                             *)

\* The title kept under a key, and the table without it.
Guardado(clave) == {p.titulo : p \in {q \in posts : q.clave = clave}}
Sin(clave) == {p \in posts : p.clave # clave}

\* parseLink: a link of an unknown tracker is dropped.  Otherwise the rest of
\* the link is asked for as it is, or urlDownload with the id of the link.
ParseLink(e, t) ==
  /\ fase = "libre" /\ peticiones < MaxPeticiones
  /\ e.sitio \in Trackers
  /\ LET p == [sitio |-> e.sitio, ruta |-> e.ruta,
               absoluta |-> ~e.directo /\ e.sitio \in Absolutos] IN
       /\ posts' = Sin(p) \cup {[clave |-> p, titulo |-> t]}
       /\ vuelo' = vuelo \cup {[n |-> peticiones + 1, pide |-> p]}
  /\ peticiones' = peticiones + 1
  /\ UNCHANGED <<ficheros, registro, abierto, fase, nombre, guardados, varsRpc>>

\* readDataTorrent with an error: the reply is aborted and nothing is kept.
RespuestaError(r) ==
  /\ fase = "libre" /\ r \in vuelo
  /\ vuelo' = vuelo \ {r}
  /\ UNCHANGED <<posts, ficheros, registro, abierto, fase, nombre, peticiones,
                 guardados, varsRpc>>

\* The key readDataTorrent looks for: the Host of the reply's header and the
\* path of its URL.
ClaveDe(r, host) ==
  [sitio |-> host, ruta |-> Camino[r.pide.ruta], absoluta |-> FALSE]

\* The names readDataTorrent may give the file: the one of the header, the
\* title kept under the key, or nothing but ".torrent" (the old method reads
\* an id from a URL that has no arguments).  None: it returns.
NombreDe(r, cabecera, host) ==
  IF cabecera # Vacio THEN {cabecera}
  ELSE IF Guardado(ClaveDe(r, host)) # {} THEN Guardado(ClaveDe(r, host))
  ELSE IF host \in Trackers THEN {Vacio} ELSE {}

\* Mutant of Crea: the file is written before the reply is read.
CreaVacio(r, f) ==
  /\ Limpio[f] \notin DOMAIN ficheros
  /\ ficheros' = [g \in DOMAIN ficheros \cup {Limpio[f]} |->
                    IF g = Limpio[f] THEN 0 ELSE ficheros[g]]

\* Mutant of Crea: the file is looked for before its name is cleaned.
CreaTarde(r, f) ==
  /\ f \notin DOMAIN ficheros
  /\ ficheros' = [g \in DOMAIN ficheros \cup {Limpio[f]} |->
                    IF g = Limpio[f] THEN r.n ELSE ficheros[g]]

\* A file that does not exist is created with what the reply holds; how much
\* of it reaches the disk is not looked at.
Crea(r, f) ==
  /\ Limpio[f] \notin DOMAIN ficheros
  /\ ficheros' = [g \in DOMAIN ficheros \cup {Limpio[f]} |->
                    IF g = Limpio[f] THEN r.n ELSE ficheros[g]]

\* readDataTorrent with a good reply.  It writes the file and goes on to the
\* log, or stops: no name, a file that exists or one that cannot be opened.
RespuestaBuena(r, cabecera, host) ==
  /\ fase = "libre" /\ r \in vuelo /\ r.pide.absoluta
  /\ vuelo' = vuelo \ {r}
  /\ posts' = IF cabecera = Vacio THEN Sin(ClaveDe(r, host)) ELSE posts
  /\ \/ \E f \in NombreDe(r, cabecera, host) :
          /\ Crea(r, f)
          /\ nombre' = Limpio[f] /\ guardados' = Append(guardados, Limpio[f])
          /\ fase' = "registra"
     \/ UNCHANGED <<ficheros, nombre, guardados, fase>>
  /\ UNCHANGED <<registro, abierto, peticiones, varsRpc>>

-----------------------------------------------------------------------------
(* The main thread: the log and the mail.                                  *)

\* Mutant of AbreLog: saveLog closes the file even when its open failed.
AbreLogYCierra ==
  /\ fase = "registra"
  /\ \/ abierto = Nadie /\ abierto' = "rss" /\ fase' = "escribe"
     \/ abierto # Nadie /\ abierto' = Nadie /\ fase' = "avisa"
  /\ UNCHANGED <<posts, vuelo, ficheros, registro, nombre, peticiones,
                 guardados, varsRpc>>

\* saveLog opens the log, or gives up when verLog has it open.
AbreLog ==
  /\ fase = "registra"
  /\ \/ abierto = Nadie /\ abierto' = "rss" /\ fase' = "escribe"
     \/ abierto # Nadie /\ UNCHANGED abierto /\ fase' = "avisa"
  /\ UNCHANGED <<posts, vuelo, ficheros, registro, nombre, peticiones,
                 guardados, varsRpc>>

\* Mutant of EscribeLog: the log is opened without Append.
EscribeLogDeNuevo ==
  /\ fase = "escribe"
  /\ registro' = <<nombre>>
  /\ abierto' = Nadie /\ fase' = "avisa"
  /\ UNCHANGED <<posts, vuelo, ficheros, nombre, peticiones, guardados,
                 varsRpc>>

\* The line, and close.
EscribeLog ==
  /\ fase = "escribe"
  /\ registro' = Append(registro, nombre)
  /\ abierto' = Nadie /\ fase' = "avisa"
  /\ UNCHANGED <<posts, vuelo, ficheros, nombre, peticiones, guardados,
                 varsRpc>>

\* sendMail has returned, and its result is not looked at.
Avisado ==
  /\ fase = "avisa"
  /\ fase' = "libre" /\ nombre' = Vacio
  /\ UNCHANGED <<posts, vuelo, ficheros, registro, abierto, peticiones,
                 guardados, varsRpc>>

PasoPrincipal == AbreLog \/ EscribeLog \/ Avisado

-----------------------------------------------------------------------------
(* verLog.                                                                 *)

\* The mutex, and flog->open: when it fails the answer is empty.
EntraVerLog(c) ==
  /\ lectura[c] = "fuera" /\ cerrojo = Nadie /\ consultas < MaxConsultas
  /\ consultas' = consultas + 1
  /\ \/ /\ abierto = Nadie /\ abierto' = c
        /\ cerrojo' = c /\ lectura' = [lectura EXCEPT ![c] = "lee"]
     \/ abierto # Nadie /\ UNCHANGED <<abierto, cerrojo, lectura>>
  /\ UNCHANGED <<posts, vuelo, ficheros, registro, fase, nombre, peticiones,
                 guardados, leido>>

\* in.readLine().
LeeLinea(c) ==
  /\ lectura[c] = "lee" /\ abierto = c /\ Len(leido[c]) < Len(registro)
  /\ leido' = [leido EXCEPT ![c] = Append(@, registro[Len(@) + 1])]
  /\ UNCHANGED <<varsBajada, cerrojo, lectura, consultas>>

\* in.atEnd(), which a file that is not open also answers; close and reply.
SaleVerLog(c) ==
  /\ lectura[c] = "lee"
  /\ abierto # c \/ Len(leido[c]) >= Len(registro)
  /\ abierto' = Nadie /\ cerrojo' = Nadie
  /\ lectura' = [lectura EXCEPT ![c] = "fuera"]
  /\ leido' = [leido EXCEPT ![c] = <<>>]
  /\ UNCHANGED <<posts, vuelo, ficheros, registro, fase, nombre, peticiones,
                 guardados, consultas>>

PasoRpc(c) == LeeLinea(c) \/ SaleVerLog(c)

-----------------------------------------------------------------------------
\* Somebody, the torrent client perhaps, takes a file away.
Retira ==
  /\ \E f \in DOMAIN ficheros :
       ficheros' = [g \in DOMAIN ficheros \ {f} |-> ficheros[g]]
  /\ UNCHANGED <<posts, vuelo, registro, abierto, fase, nombre, peticiones,
                 guardados, varsRpc>>

Next ==
  \/ \E e \in Enlaces, t \in Titulos : ParseLink(e, t)
  \/ \E r \in vuelo : RespuestaError(r)
  \/ \E r \in vuelo, n \in Nombres, h \in Sitios : RespuestaBuena(r, n, h)
  \/ PasoPrincipal
  \/ \E c \in Clientes : EntraVerLog(c) \/ PasoRpc(c)
  \/ Retira

Spec == Init /\ [][Next]_vars

-----------------------------------------------------------------------------
TypeOK ==
  /\ posts \subseteq [clave : Peticion, titulo : Nombres]
  /\ vuelo \subseteq [n : 1 .. peticiones, pide : Peticion]
  /\ DOMAIN ficheros \subseteq Nombres
  /\ \A f \in DOMAIN ficheros : ficheros[f] \in 1 .. peticiones
  /\ registro \in Seq(Nombres) /\ guardados \in Seq(Nombres)
  /\ abierto \in Clientes \cup {"rss", Nadie}
  /\ fase \in {"libre", "registra", "escribe", "avisa"}
  /\ nombre \in Nombres
  /\ cerrojo \in Clientes \cup {Nadie}
  /\ lectura \in [Clientes -> {"fuera", "lee"}]
  /\ leido \in [Clientes -> Seq(Nombres)]
  /\ peticiones \in Nat /\ consultas \in Nat

\* What a reply wrote is never written over by another, though two replies may
\* give names that become one when slashes are cleaned: the second is dropped.
NoSobrescribe ==
  [][\A f \in DOMAIN ficheros \cap DOMAIN ficheros' :
       ficheros'[f] = ficheros[f]]_vars

\* verLog answers with the whole log or, when it cannot open it, with nothing:
\* saveLog, on the other thread, neither cuts a reading nor adds to it.
VerLogEntero ==
  [][\A c \in Clientes :
       lectura[c] = "lee" /\ lectura'[c] = "fuera" => leido[c] = registro]_vars

\* The log holds the files written, in order.  One is missing only if a verLog
\* came by; none is, once saveLog is done, when there was no verLog.
RegistroFiel ==
  /\ \E f \in [DOMAIN registro -> DOMAIN guardados] :
       /\ \A j, k \in DOMAIN registro : j < k => f[j] < f[k]
       /\ \A k \in DOMAIN registro : registro[k] = guardados[f[k]]
  /\ consultas = 0 /\ fase \in {"libre", "avisa"} => registro = guardados
=============================================================================
