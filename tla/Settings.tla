------------------------------ MODULE Settings ------------------------------
(***************************************************************************)
(* The state rssani_lite keeps and saves: options, interval, credentials   *)
(* of the RPC, rules and tracker auths.  The public methods change it      *)
(* under the mutex; writeSettings copies it, value by value, into the      *)
(* cache of a QSettings object, and sync() writes the cache to the file.   *)
(*                                                                         *)
(* External, as this code uses it: QSettings writes its file atomically.   *)
(* It also does so by itself, from the event loop of the main thread, some *)
(* time after a value is set: in the middle of a save that a gRPC thread   *)
(* makes, but not of one the main thread makes.  beginWriteArray and       *)
(* remove("") clear the array and its size; endArray writes the size.      *)
(*                                                                         *)
(* fromMail, toMail and path are one value, and so are uid, password and   *)
(* passkey of an auth.  The IRC group and the SMTP options are not changed *)
(* after the start and are left out, and so is a first start with no file. *)
(* Of the calls on rules, an addition and a removal stand for all here:    *)
(* SharedRules has them step by step.                                      *)
(***************************************************************************)
EXTENDS Integers, Sequences, SequencesExt, Lists

CONSTANTS
  Opciones, Usuarios, Claves, Trackers, Secretos, Nombres, Fechas,
  SinFecha,       \* fechaDescarga is not valid: its key is not written
  Intervalos,     \* what CambiaTimer may be asked for, in minutes
  Ficheros,       \* the settings files a first start may find
  Clientes,       \* gRPC handler threads
  Principal,      \* the main thread
  Nadie,          \* the mutex is free
  MaxCambios,     \* bound: changes of memory
  MaxGuardados,   \* bound: saves
  MaxCaidas,      \* bound: crashes and restarts
  MaxElementos    \* bound: rules, and auths, in a list

PorDefecto == 10    \* minutes, when the file has no usable interval

Regla == [nombre : Nombres, fecha : Fechas \cup {SinFecha}]
Auth  == [tracker : Trackers, secreto : Secretos]

\* A file is a record of the four values of "principal" and the two arrays,
\* each with its elements and its size, 0 if the key is not there.
Archivo == [opc : Opciones, tiempo : Int, usuario : Usuarios, clave : Claves,
            reglas : [item : Seq(Regla), tam : Nat], auths : [item : Seq(Auth), tam : Nat]]

\* The arrays have all the elements their sizes tell.
BienFormado(f) ==
  f \in Archivo /\ f.reglas.tam <= Len(f.reglas.item) /\ f.auths.tam <= Len(f.auths.item)

ASSUME SettingsAssumption ==
  /\ Nadie \notin Clientes \cup {Principal} /\ Principal \notin Clientes
  /\ SinFecha \notin Fechas
  /\ Intervalos \subseteq Int
  /\ \A f \in Ficheros : BienFormado(f)
  /\ {MaxCambios, MaxGuardados, MaxCaidas, MaxElementos} \subseteq Nat

VARIABLES
  opc, tiempo, usuario, clave,   \* values, tiempo, rpcUser, rpcPass
  lista, listAuths, hashAuths,
  cerrojo,     \* who holds the mutex
  pendiente,   \* the password a PonerCredenciales has still to set
  paso,        \* where writeSettings is
  n,           \* its loop index
  cache,       \* what the QSettings object holds
  fichero,     \* the settings file
  copia,       \* the backup file of the day, <<>> if there is none
  previo,      \* history: what the file held when the save began
  cambios, guardados, caidas   \* history: counts

memoria == <<opc, tiempo, usuario, clave, lista, listAuths, hashAuths>>
disco   == <<cache, fichero, copia>>
cuentas == <<cambios, guardados, caidas>>
vars    == <<memoria, cerrojo, pendiente, paso, n, disco, previo, cuentas>>

-----------------------------------------------------------------------------
\* readSettings.
Elementos(arr) == SubSeq(arr.item, 1, arr.tam)

\* Mutant of Lee: the interval of the file is taken as it is.
LeeSinDefecto(f) ==
  [opc |-> f.opc, tiempo |-> f.tiempo, usuario |-> f.usuario, clave |-> f.clave,
   reglas |-> Elementos(f.reglas), auths |-> Elementos(f.auths)]

Lee(f) ==
  [opc |-> f.opc, tiempo |-> IF f.tiempo <= 0 THEN PorDefecto ELSE f.tiempo,
   usuario |-> f.usuario, clave |-> f.clave,
   reglas |-> Elementos(f.reglas), auths |-> Elementos(f.auths)]

\* hashAuths.insert for each element: the last auth of a tracker stays.
Ultima(l, t) == l[CHOOSE k \in DOMAIN l :
                    l[k].tracker = t /\ \A j \in DOMAIN l : l[j].tracker = t => j <= k]
HashDe(l) == [t \in {l[k].tracker : k \in DOMAIN l} |-> Ultima(l, t)]

Memoria == [opc |-> opc, tiempo |-> tiempo, usuario |-> usuario, clave |-> clave,
            reglas |-> lista, auths |-> listAuths]

Init ==
  /\ fichero \in Ficheros /\ cache = fichero /\ copia = <<>>
  /\ opc = fichero.opc /\ tiempo = Lee(fichero).tiempo
  /\ usuario = fichero.usuario /\ clave = fichero.clave
  /\ lista = Lee(fichero).reglas /\ listAuths = Lee(fichero).auths
  /\ hashAuths = HashDe(listAuths)
  /\ cerrojo = Nadie /\ pendiente = [c \in Clientes |-> <<>>]
  /\ paso = "no" /\ n = 1
  /\ previo = Lee(fichero)
  /\ cambios = 0 /\ guardados = 0 /\ caidas = 0

-----------------------------------------------------------------------------
(* The methods: one critical section each, but for PonerCredenciales.      *)

Cambia ==
  /\ cerrojo = Nadie /\ cambios < MaxCambios
  /\ cambios' = cambios + 1
  /\ UNCHANGED <<cerrojo, paso, n, disco, previo, guardados, caidas>>

PonerOpciones(o) ==
  /\ Cambia
  /\ opc' = o
  /\ UNCHANGED <<tiempo, usuario, clave, lista, listAuths, hashAuths, pendiente>>

\* The handler refuses what is not positive.
CambiaTimer(t) ==
  /\ t > 0
  /\ Cambia
  /\ tiempo' = t
  /\ UNCHANGED <<opc, usuario, clave, lista, listAuths, hashAuths, pendiente>>

\* setRpcUser, and in another critical section setRpcPass.
PonerUsuario(c, u, p) ==
  /\ pendiente[c] = <<>>
  /\ Cambia
  /\ usuario' = u /\ pendiente' = [pendiente EXCEPT ![c] = <<p>>]
  /\ UNCHANGED <<opc, tiempo, clave, lista, listAuths, hashAuths>>

PonerClave(c) ==
  /\ pendiente[c] # <<>> /\ cerrojo = Nadie
  /\ clave' = pendiente[c][1] /\ pendiente' = [pendiente EXCEPT ![c] = <<>>]
  /\ UNCHANGED <<opc, tiempo, usuario, lista, listAuths, hashAuths, cerrojo, paso, n,
                 disco, previo, cuentas>>

AnadirAuth(au) ==
  /\ Len(listAuths) < MaxElementos
  /\ Cambia
  /\ listAuths' = Append(listAuths, au)
  /\ hashAuths' = [t \in DOMAIN hashAuths \cup {au.tracker} |->
                     IF t = au.tracker THEN au ELSE hashAuths[t]]
  /\ UNCHANGED <<opc, tiempo, usuario, clave, lista, pendiente>>

\* The auths of the other trackers.
AuthsSin(l, t) == EnOrden(l, {k \in DOMAIN l : l[k].tracker # t})

\* Mutant of BorrarAuth: the hash keeps the auth.
BorrarAuthDeLista(t) ==
  /\ Cambia
  /\ listAuths' = AuthsSin(listAuths, t)
  /\ UNCHANGED <<opc, tiempo, usuario, clave, lista, hashAuths, pendiente>>

BorrarAuth(t) ==
  /\ Cambia
  /\ listAuths' = AuthsSin(listAuths, t)
  /\ hashAuths' = [u \in DOMAIN hashAuths \ {t} |-> hashAuths[u]]
  /\ UNCHANGED <<opc, tiempo, usuario, clave, lista, pendiente>>

AnadirRegexp(nombre) ==
  /\ Len(lista) < MaxElementos
  /\ Cambia
  /\ lista' = Append(lista, [nombre |-> nombre, fecha |-> SinFecha])
  /\ UNCHANGED <<opc, tiempo, usuario, clave, listAuths, hashAuths, pendiente>>

BorrarRegexpI(k) ==
  /\ Cambia
  /\ lista' = RemoveAt(lista, k)
  /\ UNCHANGED <<opc, tiempo, usuario, clave, listAuths, hashAuths, pendiente>>

\* parseTitle, on the main thread and with no mutex, stamps a rule or removes
\* one that has expired.
Escaneo ==
  /\ cerrojo # Principal /\ cambios < MaxCambios
  /\ \E k \in DOMAIN lista :
       \/ \E f \in Fechas : lista' = [lista EXCEPT ![k].fecha = f]
       \/ lista' = RemoveAt(lista, k)
  /\ cambios' = cambios + 1
  /\ UNCHANGED <<opc, tiempo, usuario, clave, listAuths, hashAuths, cerrojo, pendiente,
                 paso, n, disco, previo, guardados, caidas>>

-----------------------------------------------------------------------------
(* guardar(): the Guardar call, or the slot of a signal.                   *)

Guardar(q) ==
  /\ cerrojo = Nadie /\ guardados < MaxGuardados
  /\ guardados' = guardados + 1
  /\ cerrojo' = q /\ paso' = "copia" /\ n' = 1 /\ previo' = Lee(fichero)
  /\ UNCHANGED <<memoria, pendiente, disco, cambios, caidas>>

\* One step of writeSettings, at `p`, that goes on at `q` with the index m.
Escribe(p, q, m) ==
  /\ paso = p
  /\ paso' = q /\ n' = m
  /\ UNCHANGED <<memoria, pendiente, previo, cuentas>>

\* Mutant of CopiaSeguridad: without QFile::remove, QFile::copy does not replace
\* a copy made earlier in the day.
CopiaUnaVez ==
  /\ Escribe("copia", "principal", 1)
  /\ copia' = IF copia = <<>> THEN <<fichero>> ELSE copia
  /\ UNCHANGED <<cerrojo, cache, fichero>>

\* The copy of the day is removed and the file copied in its place.
CopiaSeguridad ==
  /\ Escribe("copia", "principal", 1)
  /\ copia' = <<fichero>>
  /\ UNCHANGED <<cerrojo, cache, fichero>>

\* The values of the group "principal", one by one.
EscribePrincipal ==
  /\ Escribe("principal", IF n < 4 THEN "principal" ELSE "vaciaReglas",
             IF n < 4 THEN n + 1 ELSE 1)
  /\ cache' = CASE n = 1 -> [cache EXCEPT !.opc = opc]
                [] n = 2 -> [cache EXCEPT !.tiempo = tiempo]
                [] n = 3 -> [cache EXCEPT !.usuario = usuario]
                [] n = 4 -> [cache EXCEPT !.clave = clave]
  /\ UNCHANGED <<cerrojo, fichero, copia>>

\* Mutant of VaciaReglas: beginWriteArray removes the size; without remove("")
\* the elements of the last save stay under the new ones.
VaciaSoloTamano ==
  /\ Escribe("vaciaReglas", "reglas", 1)
  /\ cache' = [cache EXCEPT !.reglas.tam = 0]
  /\ UNCHANGED <<cerrojo, fichero, copia>>

VaciaReglas ==
  /\ Escribe("vaciaReglas", "reglas", 1)
  /\ cache' = [cache EXCEPT !.reglas = [item |-> <<>>, tam |-> 0]]
  /\ UNCHANGED <<cerrojo, fichero, copia>>

\* setArrayIndex and setValue of each key of the element at k.
Pon(items, k, e) == IF k \in DOMAIN items THEN [items EXCEPT ![k] = e] ELSE Append(items, e)

\* A date that is not valid is not written: what the key held stays.
ConFecha(items, k, r) ==
  IF r.fecha = SinFecha /\ k \in DOMAIN items THEN [r EXCEPT !.fecha = items[k].fecha] ELSE r

\* The loop reads the size of the list at each turn; endArray writes how many
\* elements were set.
EscribeRegla ==
  /\ n \in DOMAIN lista
  /\ Escribe("reglas", "reglas", n + 1)
  /\ cache' = [cache EXCEPT !.reglas.item = Pon(@, n, ConFecha(@, n, lista[n]))]
  /\ UNCHANGED <<cerrojo, fichero, copia>>

CierraReglas ==
  /\ n \notin DOMAIN lista
  /\ Escribe("reglas", "vaciaAuths", 1)
  /\ cache' = [cache EXCEPT !.reglas.tam = n - 1]
  /\ UNCHANGED <<cerrojo, fichero, copia>>

VaciaAuths ==
  /\ Escribe("vaciaAuths", "auths", 1)
  /\ cache' = [cache EXCEPT !.auths = [item |-> <<>>, tam |-> 0]]
  /\ UNCHANGED <<cerrojo, fichero, copia>>

EscribeAuth ==
  /\ n \in DOMAIN listAuths
  /\ Escribe("auths", "auths", n + 1)
  /\ cache' = [cache EXCEPT !.auths.item = Pon(@, n, listAuths[n])]
  /\ UNCHANGED <<cerrojo, fichero, copia>>

CierraAuths ==
  /\ n \notin DOMAIN listAuths
  /\ Escribe("auths", "sync", 1)
  /\ cache' = [cache EXCEPT !.auths.tam = n - 1]
  /\ UNCHANGED <<cerrojo, fichero, copia>>

\* sync() and the end of guardar().
Sync ==
  /\ Escribe("sync", "no", 1)
  /\ fichero' = cache /\ cerrojo' = Nadie
  /\ UNCHANGED <<cache, copia>>

writeSettings ==
  \/ CopiaSeguridad \/ EscribePrincipal
  \/ VaciaReglas \/ EscribeRegla \/ CierraReglas
  \/ VaciaAuths \/ EscribeAuth \/ CierraAuths
  \/ Sync

\* The main event loop writes what has been set so far.
Vuelca ==
  /\ cerrojo # Principal /\ cache # fichero
  /\ fichero' = cache
  /\ UNCHANGED <<memoria, cerrojo, pendiente, paso, n, cache, copia, previo, cuentas>>

\* The process dies, wherever it is, and is started again.
Cae ==
  /\ caidas < MaxCaidas
  /\ caidas' = caidas + 1
  /\ cache' = fichero
  /\ opc' = fichero.opc /\ tiempo' = Lee(fichero).tiempo
  /\ usuario' = fichero.usuario /\ clave' = fichero.clave
  /\ lista' = Lee(fichero).reglas /\ listAuths' = Lee(fichero).auths
  /\ hashAuths' = HashDe(listAuths')
  /\ cerrojo' = Nadie /\ pendiente' = [c \in Clientes |-> <<>>]
  /\ paso' = "no" /\ n' = 1
  /\ UNCHANGED <<fichero, copia, previo, cambios, guardados>>

-----------------------------------------------------------------------------
Metodo ==
  \/ \E o \in Opciones : PonerOpciones(o)
  \/ \E t \in Intervalos : CambiaTimer(t)
  \/ \E c \in Clientes, u \in Usuarios, p \in Claves : PonerUsuario(c, u, p)
  \/ \E c \in Clientes : PonerClave(c)
  \/ \E au \in Auth : AnadirAuth(au)
  \/ \E t \in Trackers : BorrarAuth(t)
  \/ \E r \in Nombres : AnadirRegexp(r)
  \/ \E k \in DOMAIN lista : BorrarRegexpI(k)

SinEscaneo ==
  \/ Metodo
  \/ \E q \in Clientes \cup {Principal} : Guardar(q)
  \/ writeSettings \/ Vuelca \/ Cae

Next == SinEscaneo \/ Escaneo

Spec == Init /\ [][Next]_vars

\* The behaviours with no scan inside a save.
NextEnCalma == SinEscaneo \/ (paso = "no" /\ Escaneo)

SpecEnCalma == Init /\ [][NextEnCalma]_vars

-----------------------------------------------------------------------------
\* Types; the saver holds the mutex, the interval is never 0, with which the
\* timer would never rest, and what is written is well formed at every moment,
\* for the next start reads it wherever the process dies.
TypeOK ==
  /\ opc \in Opciones /\ tiempo \in Nat \ {0} /\ usuario \in Usuarios /\ clave \in Claves
  /\ lista \in Seq(Regla) /\ listAuths \in Seq(Auth)
  /\ DOMAIN hashAuths \subseteq Trackers
  /\ cerrojo \in Clientes \cup {Principal, Nadie}
  /\ pendiente \in [Clientes -> {<<>>} \cup {<<p>> : p \in Claves}]
  /\ paso \in {"no", "copia", "principal", "vaciaReglas", "reglas", "vaciaAuths",
                "auths", "sync"}
  /\ n \in Nat \ {0} /\ (paso = "principal" => n <= 4)
  /\ BienFormado(cache) /\ BienFormado(fichero)
  /\ (paso = "no") <=> (cerrojo = Nadie)

\* Downloads look trackers up in the hash, the calls show the list and the file
\* keeps the list alone: they agree, the last auth of a tracker counting.
HashConcuerda == hashAuths = HashDe(listAuths)

\* What was stored when a save began can be read until the save ends, from the
\* file or from the copy of the day, wherever the event loop flushes.
PrevioEnDisco ==
  paso # "no" => \/ Lee(fichero) = previo
                 \/ copia # <<>> /\ Lee(copia[1]) = previo

\* What is stored: a save counts when it ends.
Guardado == IF paso = "no" THEN Lee(fichero) ELSE previo

\* writeSettings and readSettings keep the promise of SettingsStore: a save
\* stores all of memory, a restart loads it, and a crash within a save leaves
\* nothing but a mixture of the old and the new.
Almacen == INSTANCE SettingsStore WITH
  Estados <- {Lee(f) : f \in Ficheros},
  mem <- Memoria,
  guardado <- Guardado,
  arranques <- caidas

GuardaTodo == Almacen!SSSpec

\* "Saves the current configuration to disk": no method can change the list
\* during a save, so a rule that is in it at the end was in it throughout, and
\* is in the file.
GuardaLasReglas ==
  [][Sync => \A k \in DOMAIN lista :
       \E j \in DOMAIN Elementos(fichero'.reglas) :
         fichero'.reglas.item[j].nombre = lista[k].nombre]_vars
=============================================================================
