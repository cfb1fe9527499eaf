-------------------------- MODULE GrpcServerProofs --------------------------
(***************************************************************************)
(* Proofs about GrpcServer, for any set of handlers and any number of      *)
(* calls and signals: its types, who holds the mutex, and that no call     *)
(* outlives the rssani_lite object it works on.                            *)
(***************************************************************************)
EXTENDS GrpcServer, TLAPS

\* Every variable keeps to the values its type in the code allows.
THEOREM GrpcTypeCorrect == Spec => []TypeOK
<1>1. ASSUME Init PROVE TypeOK
  BY <1>1 DEF Init, TypeOK, EnExec
<1>2. TypeOK /\ [Next]_vars => TypeOK'
  <2> SUFFICES ASSUME TypeOK, [Next]_vars PROVE TypeOK'
    OBVIOUS
  <2> USE DEF TypeOK, EnExec
  <2>1. CASE PasoMain
    <3>1. CASE Start
      BY <3>1 DEF Start
    <3>2. CASE Exec
      BY <3>2 DEF Exec
    <3>3. CASE LeeSenal
      BY <3>3 DEF LeeSenal
    <3>4. CASE Guardar
      BY <3>4 DEF Guardar
    <3>5. CASE GuardadoYSalir
      BY <3>5 DEF GuardadoYSalir
    <3>6. CASE ExecVuelve
      BY <3>6 DEF ExecVuelve
    <3>7. CASE Stop
      BY <3>7 DEF Stop
    <3>8. CASE MiraServer
      BY <3>8 DEF MiraServer
    <3>9. CASE Drena
      BY <3>9 DEF Drena
    <3>10. CASE Join
      BY <3>10 DEF Join
    <3>11. CASE DestruyeRss
      BY <3>11 DEF DestruyeRss
    <3>12. QED
      BY <2>1, <3>1, <3>2, <3>3, <3>4, <3>5, <3>6, <3>7, <3>8, <3>9, <3>10, <3>11 DEF PasoMain
  <2>2. CASE PasoHilo
    BY <2>2 DEF PasoHilo, Construye, Asigna, Wait, Acaba
  <2>3. CASE Senal
    BY <2>3 DEF Senal
  <2>4. ASSUME NEW h \in Handlers, Llama(h) PROVE TypeOK'
    BY <2>4 DEF Llama
  <2>5. ASSUME NEW h \in Handlers, PasoHandler(h) PROVE TypeOK'
    <3>1. CASE Entra(h)
      BY <3>1 DEF Entra
    <3>2. CASE Sale(h)
      BY <3>2 DEF Sale
    <3>3. CASE Salir(h)
      BY <3>3 DEF Salir
    <3>4. QED
      BY <2>5, <3>1, <3>2, <3>3 DEF PasoHandler
  <2>6. CASE UNCHANGED vars
    BY <2>6 DEF vars
  <2>7. QED
    BY <2>1, <2>2, <2>3, <2>4, <2>5, <2>6 DEF Next
<1>3. QED
  BY <1>1, <1>2, PTL DEF Spec

-----------------------------------------------------------------------------
\* The mutex of rssani_lite has one holder, and it is the one that is in a
\* critical section: the handlers exclude each other and handleSigTerm.
THEOREM MutexDeUno == Spec => []CerrojoDeUno
<1>1. Init => CerrojoDeUno
  BY GrpcServerAssumption DEF Init, CerrojoDeUno
<1>2. TypeOK /\ CerrojoDeUno /\ [Next]_vars => CerrojoDeUno'
  <2> SUFFICES ASSUME TypeOK, CerrojoDeUno, [Next]_vars PROVE CerrojoDeUno'
    OBVIOUS
  <2> USE GrpcServerAssumption DEF CerrojoDeUno, TypeOK, EnExec
  <2>1. CASE PasoMain
    BY <2>1 DEF PasoMain, Start, Exec, LeeSenal, Guardar, GuardadoYSalir, ExecVuelve,
                Stop, MiraServer, Drena, Join, DestruyeRss
  <2>2. CASE PasoHilo
    BY <2>2 DEF PasoHilo, Construye, Asigna, Wait, Acaba
  <2>3. CASE Senal
    BY <2>3 DEF Senal
  <2>4. ASSUME NEW h \in Handlers, Llama(h) PROVE CerrojoDeUno'
    BY <2>4 DEF Llama
  <2>5. ASSUME NEW h \in Handlers, PasoHandler(h) PROVE CerrojoDeUno'
    <3>1. CASE Entra(h)
      BY <3>1 DEF Entra
    <3>2. CASE Sale(h)
      BY <3>2 DEF Sale
    <3>3. CASE Salir(h)
      BY <3>3 DEF Salir
    <3>4. QED
      BY <2>5, <3>1, <3>2, <3>3 DEF PasoHandler
  <2>6. CASE UNCHANGED vars
    BY <2>6 DEF vars
  <2>7. QED
    BY <2>1, <2>2, <2>3, <2>4, <2>5, <2>6 DEF Next
<1>3. QED
  BY <1>1, <1>2, GrpcTypeCorrect, PTL DEF Spec

-----------------------------------------------------------------------------
(* The order in which a life ends.  What makes it inductive is how far the *)
(* library's service, the thread and main() may be from one another.       *)

\* Calls exist only while the service runs or drains.
LlamadasConServicio ==
  servicio \in {"no", "apagado"} => \A h \in Handlers : llamada[h] = "ninguna"

\* main() waits in Shutdown while the service drains, and only then.
ServicioYMain ==
  /\ servicio = "apagando" <=> main = "drena"
  /\ servicio = "apagado" => main \in {"join", "unido", "fin"}

\* The thread stores server after the service starts, and ends only when the
\* service never started or has finished.
HiloYServicio ==
  /\ hilo \in {"ninguno", "construye"} => servicio = "no"
  /\ hilo \in {"asigna", "wait"} => servicio # "no"
  /\ hilo \in {"falla", "acabado"} => servicio \in {"no", "apagado"}
  /\ server => servicio # "no" /\ hilo \in {"wait", "falla", "acabado"}

VidaOrdenada ==
  /\ main = "construido" => hilo = "ninguno"
  /\ main \in {"unido", "fin"} => hilo = "acabado"
  /\ ~rssVivo => main = "fin"

IInv == LlamadasConServicio /\ ServicioYMain /\ HiloYServicio /\ VidaOrdenada

\* No call is in progress, and the server thread has ended, when main()
\* destroys the rssani_lite object that the calls use.
THEOREM NadieTrasDestruir == Spec => []NadieUsaRssMuerto
<1>1. Init => IInv
  BY DEF Init, IInv, LlamadasConServicio, ServicioYMain, HiloYServicio, VidaOrdenada
<1>2. TypeOK /\ IInv /\ [Next]_vars => IInv'
  <2> SUFFICES ASSUME TypeOK, IInv, [Next]_vars PROVE IInv'
    OBVIOUS
  <2> USE DEF IInv, LlamadasConServicio, ServicioYMain, HiloYServicio, VidaOrdenada,
              TypeOK, EnExec
  <2>1. CASE PasoMain
    <3>1. CASE Start
      BY <3>1 DEF Start
    <3>2. CASE Exec
      BY <3>2 DEF Exec
    <3>3. CASE LeeSenal
      BY <3>3 DEF LeeSenal
    <3>4. CASE Guardar
      BY <3>4 DEF Guardar
    <3>5. CASE GuardadoYSalir
      BY <3>5 DEF GuardadoYSalir
    <3>6. CASE ExecVuelve
      BY <3>6 DEF ExecVuelve
    <3>7. CASE Stop
      BY <3>7 DEF Stop
    <3>8. CASE MiraServer
      BY <3>8 DEF MiraServer
    <3>9. CASE Drena
      BY <3>9 DEF Drena
    <3>10. CASE Join
      BY <3>10 DEF Join
    <3>11. CASE DestruyeRss
      BY <3>11 DEF DestruyeRss
    <3>12. QED
      BY <2>1, <3>1, <3>2, <3>3, <3>4, <3>5, <3>6, <3>7, <3>8, <3>9, <3>10, <3>11 DEF PasoMain
  <2>2. CASE PasoHilo
    <3>1. CASE Construye
      BY <3>1 DEF Construye
    <3>2. CASE Asigna
      BY <3>2 DEF Asigna
    <3>3. CASE Wait
      BY <3>3 DEF Wait
    <3>4. CASE Acaba
      BY <3>4 DEF Acaba
    <3>5. QED
      BY <2>2, <3>1, <3>2, <3>3, <3>4 DEF PasoHilo
  <2>3. CASE Senal
    BY <2>3 DEF Senal
  <2>4. ASSUME NEW h \in Handlers, Llama(h) PROVE IInv'
    BY <2>4 DEF Llama
  <2>5. ASSUME NEW h \in Handlers, PasoHandler(h) PROVE IInv'
    BY <2>5 DEF PasoHandler, Entra, Sale, Salir
  <2>6. CASE UNCHANGED vars
    BY <2>6 DEF vars
  <2>7. QED
    BY <2>1, <2>2, <2>3, <2>4, <2>5, <2>6 DEF Next
<1>3. IInv => NadieUsaRssMuerto
  BY DEF IInv, LlamadasConServicio, HiloYServicio, VidaOrdenada, NadieUsaRssMuerto
<1>4. QED
  BY <1>1, <1>2, <1>3, GrpcTypeCorrect, PTL DEF Spec
=============================================================================
