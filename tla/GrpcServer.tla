----------------------------- MODULE GrpcServer -----------------------------
(***************************************************************************)
(* The life of the process: main(), the thread that runs the gRPC server,  *)
(* its handlers, and the two ways to ask the program to end, a signal      *)
(* (SIGTERM, SIGINT and SIGUSR1 have one handler) and the Shutdown call.   *)
(*                                                                         *)
(*   main()       builds rss and grpc, start(), exec(); when exec() returns *)
(*                grpc is destroyed (stop() and join), and then rss;       *)
(*   hilo         the lambda of GrpcServer::start;                         *)
(*   handlers     calls of clients, each on a thread of the gRPC library;  *)
(*                they use rss, under its mutex.                           *)
(*                                                                         *)
(* Of the libraries, as this code uses them: BuildAndStart serves calls    *)
(* before it returns, or fails; Wait returns when Shutdown has finished;   *)
(* Shutdown refuses new calls and waits for those in progress; quit() has  *)
(* no effect when no event loop runs.                                      *)
(***************************************************************************)
EXTENDS Naturals

CONSTANTS
  Handlers,     \* calls that may be in progress together
  Principal,    \* the main thread, as holder of the mutex
  Nadie,        \* the mutex is free
  MaxSenales,   \* bound: signals the process is sent
  MaxLlamadas   \* bound: calls the clients make

ASSUME GrpcServerAssumption ==
  /\ Principal \notin Handlers /\ Nadie \notin Handlers \cup {Principal}
  /\ MaxSenales \in Nat /\ MaxLlamadas \in Nat

VARIABLES
  main,       \* where the main thread is
  hilo,       \* where serverThread is
  running,    \* std::atomic<bool> running
  server,     \* the unique_ptr server has been assigned
  servicio,   \* the library: "no", "sirve", "apagando" or "apagado"
  llamada,    \* where each call in progress is
  cerrojo,    \* who holds the mutex of rssani_lite
  rssVivo,    \* the rssani_lite object exists
  bytes,      \* bytes in the socket pair that sigHandler writes
  quitPedido, \* a quit event is on its way to the event loop
  senales,    \* history: signals sent
  llamadas    \* history: calls made

vars == <<main, hilo, running, server, servicio, llamada, cerrojo, rssVivo,
          bytes, quitPedido, senales, llamadas>>

\* The event loop runs, or a slot it has called.
EnExec == {"exec", "guardar", "escribe"}

Init ==
  /\ main = "construido" /\ hilo = "ninguno"
  /\ running = FALSE /\ server = FALSE /\ servicio = "no"
  /\ llamada = [h \in Handlers |-> "ninguna"]
  /\ cerrojo = Nadie /\ rssVivo = TRUE
  /\ bytes = 0 /\ quitPedido = FALSE
  /\ senales = 0 /\ llamadas = 0

-----------------------------------------------------------------------------
(* The main thread.                                                        *)

\* grpc->start(): running.exchange(true), and the thread is created.
Start ==
  /\ main = "construido"
  /\ running' = TRUE /\ hilo' = "construye" /\ main' = "porExec"
  /\ UNCHANGED <<server, servicio, llamada, cerrojo, rssVivo, bytes, quitPedido,
                 senales, llamadas>>

Exec ==
  /\ main = "porExec"
  /\ main' = "exec"
  /\ UNCHANGED <<hilo, running, server, servicio, llamada, cerrojo, rssVivo, bytes,
                 quitPedido, senales, llamadas>>

\* Mutant of LeeSenal: the slot runs although nothing was written.
LeeSinSenal ==
  /\ main = "exec"
  /\ bytes' = bytes - 1 /\ main' = "guardar"
  /\ UNCHANGED <<hilo, running, server, servicio, llamada, cerrojo, rssVivo,
                 quitPedido, senales, llamadas>>

\* handleSigTerm takes one byte from the socket...
LeeSenal ==
  /\ main = "exec" /\ bytes > 0
  /\ bytes' = bytes - 1 /\ main' = "guardar"
  /\ UNCHANGED <<hilo, running, server, servicio, llamada, cerrojo, rssVivo,
                 quitPedido, senales, llamadas>>

\* Mutant of Guardar: the settings are written without the mutex.
GuardarSinCerrojo ==
  /\ main = "guardar"
  /\ cerrojo' = Principal /\ main' = "escribe"
  /\ UNCHANGED <<hilo, running, server, servicio, llamada, rssVivo, bytes,
                 quitPedido, senales, llamadas>>

\* ... guardar() takes the mutex...
Guardar ==
  /\ main = "guardar" /\ cerrojo = Nadie
  /\ cerrojo' = Principal /\ main' = "escribe"
  /\ UNCHANGED <<hilo, running, server, servicio, llamada, rssVivo, bytes,
                 quitPedido, senales, llamadas>>

\* Mutant of GuardadoYSalir: the slot saves and does not call salir().
GuardadoYSigue ==
  /\ main = "escribe"
  /\ cerrojo' = Nadie /\ main' = "exec"
  /\ UNCHANGED <<hilo, running, server, servicio, llamada, rssVivo, bytes,
                 quitPedido, senales, llamadas>>

\* ... writes the settings and lets it go; salir() asks to quit.
GuardadoYSalir ==
  /\ main = "escribe"
  /\ cerrojo' = Nadie /\ quitPedido' = TRUE /\ main' = "exec"
  /\ UNCHANGED <<hilo, running, server, servicio, llamada, rssVivo, bytes,
                 senales, llamadas>>

\* exec() returns, and ~GrpcServer begins.
ExecVuelve ==
  /\ main = "exec" /\ quitPedido
  /\ main' = "stop"
  /\ UNCHANGED <<hilo, running, server, servicio, llamada, cerrojo, rssVivo, bytes,
                 quitPedido, senales, llamadas>>

\* stop(): if (!running.exchange(false)) return;
Stop ==
  /\ main = "stop"
  /\ running' = FALSE
  /\ main' = IF running THEN "miraServer" ELSE "join"
  /\ UNCHANGED <<hilo, server, servicio, llamada, cerrojo, rssVivo, bytes,
                 quitPedido, senales, llamadas>>

\* Mutant of MiraServer: Shutdown() is not called.
NoMiraServer ==
  /\ main = "miraServer"
  /\ main' = "join"
  /\ UNCHANGED <<hilo, running, server, servicio, llamada, cerrojo, rssVivo, bytes,
                 quitPedido, senales, llamadas>>

\* if (server) server->Shutdown();
MiraServer ==
  /\ main = "miraServer"
  /\ IF server
     THEN main' = "drena" /\ servicio' = "apagando"
     ELSE main' = "join" /\ UNCHANGED servicio
  /\ UNCHANGED <<hilo, running, server, llamada, cerrojo, rssVivo, bytes,
                 quitPedido, senales, llamadas>>

\* Shutdown() returns when no call is in progress.
Drena ==
  /\ main = "drena"
  /\ \A h \in Handlers : llamada[h] = "ninguna"
  /\ servicio' = "apagado" /\ main' = "join"
  /\ UNCHANGED <<hilo, running, server, llamada, cerrojo, rssVivo, bytes,
                 quitPedido, senales, llamadas>>

\* Mutant of Join: the thread is detached.
Detach ==
  /\ main = "join"
  /\ main' = "unido"
  /\ UNCHANGED <<hilo, running, server, servicio, llamada, cerrojo, rssVivo, bytes,
                 quitPedido, senales, llamadas>>

\* serverThread.join() returns when the thread has ended.
Join ==
  /\ main = "join" /\ hilo = "acabado"
  /\ main' = "unido"
  /\ UNCHANGED <<hilo, running, server, servicio, llamada, cerrojo, rssVivo, bytes,
                 quitPedido, senales, llamadas>>

\* The destructor of rss, declared before grpc in main().
DestruyeRss ==
  /\ main = "unido"
  /\ rssVivo' = FALSE /\ main' = "fin"
  /\ UNCHANGED <<hilo, running, server, servicio, llamada, cerrojo, bytes,
                 quitPedido, senales, llamadas>>

PasoMain ==
  \/ Start \/ Exec \/ LeeSenal \/ Guardar \/ GuardadoYSalir \/ ExecVuelve
  \/ Stop \/ MiraServer \/ Drena \/ Join \/ DestruyeRss

-----------------------------------------------------------------------------
(* The server thread.                                                      *)

\* BuildAndStart: the port is served from here on, or the start failed.
Construye ==
  /\ hilo = "construye"
  /\ \/ hilo' = "asigna" /\ servicio' = "sirve"
     \/ hilo' = "falla" /\ UNCHANGED servicio
  /\ UNCHANGED <<main, running, server, llamada, cerrojo, rssVivo, bytes,
                 quitPedido, senales, llamadas>>

\* Its result is stored in server.
Asigna ==
  /\ hilo = "asigna"
  /\ server' = TRUE /\ hilo' = "wait"
  /\ UNCHANGED <<main, running, servicio, llamada, cerrojo, rssVivo, bytes,
                 quitPedido, senales, llamadas>>

\* server->Wait() returns when Shutdown() has finished.
Wait ==
  /\ hilo = "wait" /\ servicio = "apagado"
  /\ hilo' = "falla"
  /\ UNCHANGED <<main, running, server, servicio, llamada, cerrojo, rssVivo, bytes,
                 quitPedido, senales, llamadas>>

\* running.store(false), after Wait and after a failed start alike.
Acaba ==
  /\ hilo = "falla"
  /\ running' = FALSE /\ hilo' = "acabado"
  /\ UNCHANGED <<main, server, servicio, llamada, cerrojo, rssVivo, bytes,
                 quitPedido, senales, llamadas>>

PasoHilo == Construye \/ Asigna \/ Wait \/ Acaba

-----------------------------------------------------------------------------
(* The calls, and the signals.                                             *)

\* A call arrives: one that works on rss under its mutex, or Shutdown.
Llama(h) ==
  /\ servicio = "sirve" /\ llamada[h] = "ninguna"
  /\ llamadas < MaxLlamadas
  /\ llamadas' = llamadas + 1
  /\ \E k \in {"pide", "salir"} : llamada' = [llamada EXCEPT ![h] = k]
  /\ UNCHANGED <<main, hilo, running, server, servicio, cerrojo, rssVivo, bytes,
                 quitPedido, senales>>

Entra(h) ==
  /\ llamada[h] = "pide" /\ cerrojo = Nadie
  /\ cerrojo' = h /\ llamada' = [llamada EXCEPT ![h] = "dentro"]
  /\ UNCHANGED <<main, hilo, running, server, servicio, rssVivo, bytes, quitPedido,
                 senales, llamadas>>

Sale(h) ==
  /\ llamada[h] = "dentro"
  /\ cerrojo' = Nadie /\ llamada' = [llamada EXCEPT ![h] = "ninguna"]
  /\ UNCHANGED <<main, hilo, running, server, servicio, rssVivo, bytes, quitPedido,
                 senales, llamadas>>

\* Mutant of Salir: the reply is given and nobody is told to quit.
SalirSoloResponde(h) ==
  /\ llamada[h] = "salir"
  /\ llamada' = [llamada EXCEPT ![h] = "ninguna"]
  /\ UNCHANGED <<main, hilo, running, server, servicio, cerrojo, rssVivo, bytes,
                 quitPedido, senales, llamadas>>

\* Shutdown: salir(), which reaches the event loop if one runs, and the reply.
Salir(h) ==
  /\ llamada[h] = "salir"
  /\ quitPedido' = (quitPedido \/ main \in EnExec)
  /\ llamada' = [llamada EXCEPT ![h] = "ninguna"]
  /\ UNCHANGED <<main, hilo, running, server, servicio, cerrojo, rssVivo, bytes,
                 senales, llamadas>>

PasoHandler(h) == Entra(h) \/ Sale(h) \/ Salir(h)

\* sigHandler writes a byte; the destructor of rss closes the sockets.
Senal ==
  /\ rssVivo /\ senales < MaxSenales
  /\ senales' = senales + 1 /\ bytes' = bytes + 1
  /\ UNCHANGED <<main, hilo, running, server, servicio, llamada, cerrojo, rssVivo,
                 quitPedido, llamadas>>

Next ==
  \/ PasoMain \/ PasoHilo \/ Senal
  \/ \E h \in Handlers : Llama(h) \/ PasoHandler(h)

Spec == Init /\ [][Next]_vars

\* Every thread that can run is run.  Nobody has to call or send a signal.
FairSpec ==
  /\ Spec
  /\ WF_vars(PasoMain) /\ WF_vars(PasoHilo)
  /\ \A h \in Handlers : WF_vars(PasoHandler(h))

-----------------------------------------------------------------------------
TypeOK ==
  /\ main \in {"construido", "porExec", "stop", "miraServer", "drena", "join",
               "unido", "fin"} \cup EnExec
  /\ hilo \in {"ninguno", "construye", "asigna", "wait", "falla", "acabado"}
  /\ running \in BOOLEAN /\ server \in BOOLEAN
  /\ servicio \in {"no", "sirve", "apagando", "apagado"}
  /\ llamada \in [Handlers -> {"ninguna", "pide", "dentro", "salir"}]
  /\ cerrojo \in Handlers \cup {Principal, Nadie}
  /\ rssVivo \in BOOLEAN /\ quitPedido \in BOOLEAN
  /\ bytes \in Nat /\ senales \in Nat /\ llamadas \in Nat

\* No call works on a destroyed rssani_lite: the destruction order of main(),
\* the waiting Shutdown and the join together outlast every call.
NadieUsaRssMuerto ==
  ~rssVivo => hilo = "acabado" /\ \A h \in Handlers : llamada[h] = "ninguna"

\* Nobody is left inside the mutex by the end, and main() writes the settings
\* only alone.
CerrojoDeUno ==
  /\ \A h \in Handlers : llamada[h] = "dentro" <=> cerrojo = h
  /\ main = "escribe" <=> cerrojo = Principal

\* "Destructor. Shuts down the gRPC server." (grpc_server.h): when ~GrpcServer
\* has come to join(), no server serves, as nobody would shut it down.
DestructorApaga == main = "join" => servicio # "sirve"

\* A signal ends the event loop, whenever it comes: before exec() its byte
\* waits in the socket.
SenalAcabaExec ==
  bytes > 0 /\ main \in {"construido", "porExec"} \cup EnExec
    ~> main \notin {"construido", "porExec"} \cup EnExec

\* "Initiates a graceful application shutdown." (rssani_lite.h): a Shutdown call
\* that the server has when the event loop runs ends the loop, although a
\* handler thread makes it and the slot of a signal may be running.
ShutdownAcaba ==
  (\E h \in Handlers : llamada[h] = "salir") /\ main \in EnExec
    ~> main \notin {"construido", "porExec"} \cup EnExec

\* When exec() returns after start() has stored the server, or has failed, the
\* process ends: nothing in the destructors waits for ever.
FinalAlcanzado ==
  main = "stop" /\ hilo \in {"wait", "falla", "acabado"} ~> main = "fin"
=============================================================================
