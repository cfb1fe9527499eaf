---------------------------- MODULE MailSender ----------------------------
(***************************************************************************)
(* MailSender::send(): the dialogue with the SMTP server, as sendMail of   *)
(* Rss_lite uses it (one recipient, STARTTLS always, AUTH LOGIN when there *)
(* is a login).  send() blocks its thread; the server and the network are  *)
(* the environment.  The replies travel as a stream: what waitForReadyRead *)
(* finds may be some lines of a reply, several replies, or half a line.    *)
(* A line is its code and whether its fourth character is a blank, which   *)
(* marks the last line of a reply.                                         *)
(*                                                                         *)
(* The server may refuse any command, answer in one line or two, be silent *)
(* or go away.  A message still on its way when send() gives up may yet be *)
(* taken, until the next send() opens its own connection.                  *)
(***************************************************************************)
EXTENDS Integers, Sequences

CONSTANT MaxEnvios     \* bound: sends in one behaviour

VARIABLES
  paso,        \* the command whose reply is awaited, "conecta", or "libre"
  auth,        \* bool auth: there is a login
  abierta,     \* the connection is up
  ordenes,     \* commands on their way to the server
  red,         \* lines on their way to the program
  buf,         \* lines in the socket, received and not read
  srv,         \* the server: "orden", "datos" or "fin"
  resultado,   \* what send() returned
  aceptado,    \* history: times the server has taken the message
  envios       \* history: sends so far

varsCorreo ==
  <<paso, auth, abierta, ordenes, red, buf, srv, resultado, aceptado, envios>>

\* What each sendCommand waits for; "saludo" is the first read.
Espera ==
  [saludo |-> 220, ehlo |-> 250, helo |-> 250, starttls |-> 220,
   login |-> 334, usuario |-> 334, clave |-> 235, mail |-> 250, rcpt |-> 250,
   data |-> 354, cuerpo |-> 250, quit |-> 221]

Ordenes == DOMAIN Espera

Rechazo == 550     \* any code no command waits for

\* The command that follows o when its reply is the expected one.
Sigue(o) ==
  CASE o = "saludo" -> "ehlo"
    [] o \in {"ehlo", "helo"} -> "starttls"
    [] o = "starttls" -> IF auth THEN "login" ELSE "mail"
    [] o = "login" -> "usuario"
    [] o = "usuario" -> "clave"
    [] o = "clave" -> "mail"
    [] o = "mail" -> "rcpt"
    [] o = "rcpt" -> "data"
    [] o = "data" -> "cuerpo"
    [] o = "cuerpo" -> "quit"

InitCorreo ==
  /\ paso = "libre" /\ auth = FALSE /\ abierta = FALSE
  /\ ordenes = <<>> /\ red = <<>> /\ buf = <<>> /\ srv = "fin"
  /\ resultado = "ninguno" /\ aceptado = 0 /\ envios = 0

-----------------------------------------------------------------------------
(* The program.                                                            *)

\* sendMail builds a MailSender from the options and send() begins.
Enviar ==
  /\ paso = "libre"
  /\ paso' = "conecta" /\ auth' \in BOOLEAN
  /\ ordenes' = <<>> /\ srv' = "fin"
  /\ resultado' = "ninguno" /\ aceptado' = 0 /\ envios' = envios + 1
  /\ UNCHANGED <<abierta, red, buf>>

\* send() returns v, and the MailSender and its socket go.
Devuelve(v) ==
  /\ paso' = "libre" /\ resultado' = v /\ auth' = FALSE
  /\ abierta' = FALSE /\ red' = <<>> /\ buf' = <<>>

\* Mutant of Conecta: there is no read(220), and EHLO goes out at once.
ConectaSinSaludo ==
  /\ paso = "conecta"
  /\ \/ Devuelve("false") /\ UNCHANGED <<ordenes, srv>>
     \/ /\ paso' = "ehlo" /\ abierta' = TRUE
        /\ ordenes' = <<"saludo", "ehlo">> /\ srv' = "orden"
        /\ UNCHANGED <<auth, red, buf, resultado>>
  /\ UNCHANGED <<aceptado, envios>>

\* waitForConnected: time out, or the server's greeting is awaited.
Conecta ==
  /\ paso = "conecta"
  /\ \/ Devuelve("false") /\ UNCHANGED <<ordenes, srv>>
     \/ /\ paso' = "saludo" /\ abierta' = TRUE
        /\ ordenes' = <<"saludo">> /\ srv' = "orden"
        /\ UNCHANGED <<auth, red, buf, resultado>>
  /\ UNCHANGED <<aceptado, envios>>

\* sendCommand: o goes out, and its reply is awaited.  r and b are left in
\* the network and in the socket.
Manda(o, r, b) ==
  /\ paso' = o /\ ordenes' = Append(ordenes, o)
  /\ red' = r /\ buf' = b
  /\ UNCHANGED <<auth, abierta, resultado>>

\* Mutant of MalaRespuesta: EHLO again instead of HELO.
RepiteEhlo(r, b) ==
  \/ paso = "ehlo" /\ abierta /\ Manda("ehlo", r, b)
  \/ ~(paso = "ehlo" /\ abierta) /\ Devuelve("false") /\ UNCHANGED ordenes

\* The reply is not the expected one, or there is none: HELO is tried after
\* EHLO if the connection is up; elsewhere send() returns false.
MalaRespuesta(r, b) ==
  \/ paso = "ehlo" /\ abierta /\ Manda("helo", r, b)
  \/ ~(paso = "ehlo" /\ abierta) /\ Devuelve("false") /\ UNCHANGED ordenes

\* read() takes lines until one is the last of a reply or no line is left.
Leidas(lineas, n) ==
  /\ n \in DOMAIN lineas
  /\ lineas[n].ultima \/ n = Len(lineas)
  /\ \A j \in 1 .. n - 1 : ~lineas[j].ultima

\* Mutant of Vale: any reply that is not a refusal will do.
ValePositiva(codigo) == codigo < 400

\* Mutant of Vale: the reply to the text is not looked at.
ValeSinCuerpo(codigo) == codigo = Espera[paso] \/ paso = "cuerpo"

\* The last line read has the code that is waited for.
Vale(codigo) == codigo = Espera[paso]

Esperando == paso \notin {"libre", "conecta"}

\* read() with these lines in the socket and r still to come.
Mira(lineas, r) ==
  \/ lineas = <<>> /\ MalaRespuesta(r, <<>>)     \* "Can't read"
  \/ \E n \in DOMAIN lineas :
       LET b == SubSeq(lineas, n + 1, Len(lineas)) IN
       /\ Leidas(lineas, n)
       /\ \/ ~Vale(lineas[n].codigo) /\ MalaRespuesta(r, b)
          \/ /\ Vale(lineas[n].codigo) /\ paso = "quit"
             /\ Devuelve("true") /\ UNCHANGED ordenes
          \/ /\ Vale(lineas[n].codigo) /\ paso # "quit"
             /\ Manda(Sigue(paso), r, b)

\* waitForReadyRead: k more lines, or part of one (k = 0), have arrived.
Lee ==
  /\ Esperando /\ red # <<>>
  /\ \E k \in 0 .. Len(red) :
       Mira(buf \o SubSeq(red, 1, k), SubSeq(red, k + 1, Len(red)))
  /\ UNCHANGED <<srv, aceptado, envios>>

\* m_timeout goes by, or the connection is seen to be gone.
SinRespuesta ==
  /\ Esperando
  /\ MalaRespuesta(red, buf)
  /\ UNCHANGED <<srv, aceptado, envios>>

PasoCorreo == Conecta \/ Lee \/ SinRespuesta

-----------------------------------------------------------------------------
(* The server and the network.                                             *)

\* The server answers with a code, in one line or in two.
Responde(codigo) ==
  LET fin == [codigo |-> codigo, ultima |-> TRUE] IN
  \E lineas \in {<<fin>>, <<[codigo |-> codigo, ultima |-> FALSE], fin>>} :
    red' = IF abierta THEN red \o lineas ELSE red

\* A command that is not the text of the message.
AtiendeOrden ==
  /\ srv = "orden" /\ ordenes # <<>> /\ Head(ordenes) # "cuerpo"
  /\ LET o == Head(ordenes) IN
       \/ Responde(Rechazo) /\ UNCHANGED srv
       \/ /\ Responde(Espera[o])
          /\ srv' = CASE o = "data" -> "datos" [] o = "quit" -> "fin"
                      [] OTHER -> "orden"
  /\ ordenes' = Tail(ordenes)
  /\ UNCHANGED <<paso, auth, abierta, buf, resultado, aceptado, envios>>

\* The text: the server takes the message, or refuses it.
AtiendeCuerpo ==
  /\ srv = "datos" /\ ordenes # <<>> /\ Head(ordenes) = "cuerpo"
  /\ \/ Responde(Espera.cuerpo) /\ aceptado' = aceptado + 1
     \/ Responde(Rechazo) /\ UNCHANGED aceptado
  /\ srv' = "orden" /\ ordenes' = Tail(ordenes)
  /\ UNCHANGED <<paso, auth, abierta, buf, resultado, envios>>

\* The connection goes; what was on its way to the program may be lost.
Corte ==
  /\ abierta /\ abierta' = FALSE
  /\ \E k \in 0 .. Len(red) : red' = SubSeq(red, 1, k)
  /\ UNCHANGED <<paso, auth, ordenes, buf, srv, resultado, aceptado, envios>>

Entorno == AtiendeOrden \/ AtiendeCuerpo \/ Corte

NextCorreo == (envios < MaxEnvios /\ Enviar) \/ PasoCorreo \/ Entorno

\* The thread that sends runs, and m_timeout bounds each of its waits.
SpecCorreo == InitCorreo /\ [][NextCorreo]_varsCorreo /\ WF_varsCorreo(PasoCorreo)

-----------------------------------------------------------------------------
Linea == [codigo : {Espera[o] : o \in Ordenes} \cup {Rechazo}, ultima : BOOLEAN]

TipoDialogo ==
  /\ paso \in Ordenes \cup {"libre", "conecta"}
  /\ auth \in BOOLEAN /\ abierta \in BOOLEAN
  /\ ordenes \in Seq(Ordenes) /\ red \in Seq(Linea) /\ buf \in Seq(Linea)
  /\ srv \in {"orden", "datos", "fin"}
  /\ resultado \in {"ninguno", "true", "false"}
  /\ aceptado \in Nat /\ envios \in Nat

\* What goes with a place of send(): no socket before the connection and after
\* the return, no login unless there is one, and not a word to a server that
\* has not yet said its own.
TipoLugar ==
  /\ paso \in {"libre", "conecta"} => ~abierta /\ buf = <<>> /\ red = <<>>
  /\ paso \in {"login", "usuario", "clave"} => auth
  /\ \A k \in DOMAIN ordenes : ordenes[k] = "saludo" => Len(ordenes) = 1

TipoCorreo == TipoDialogo /\ TipoLugar

\* send() returns true only when the server has taken the message, and it is
\* taken once at most, whatever way the replies are cut, refused, delayed or
\* lost: the promise of MailDelivery.
Entrega == INSTANCE MailDelivery
CumpleEntrega == Entrega!MDSpec

\* The text of the message is sent only to a server that waits for it, which
\* could otherwise take its lines for commands: a reply read out of step never
\* passes for the reply to DATA.
CuerpoEsperado ==
  \A k \in DOMAIN ordenes : ordenes[k] = "cuerpo" => k = 1 /\ srv = "datos"

\* Every send() returns, even to a server that never answers.
EnvioTermina == paso # "libre" ~> paso = "libre"
=============================================================================
