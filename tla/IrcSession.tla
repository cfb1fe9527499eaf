---------------------------- MODULE IrcSession ----------------------------
(***************************************************************************)
(* MyIrcSession and miraSubida: the channels the program asks for, and the *)
(* way of a line from the channel to miraTitulo.  A step is a handler that *)
(* the main thread runs to its end, or what the IRC server does.  Nobody   *)
(* connects again when the connection is lost: on_timeout only sends PING. *)
(***************************************************************************)
EXTENDS Uploads

CONSTANTS
  Canales,      \* misdatos->channels
  Privado,      \* the target of a message that is not for a channel
  Lineas,       \* [nick, texto, u]: lines, and the upload a line announces
  Bot, Ninguna, \* the bot's nick; no upload
  Digitos       \* characters of the lines

VARIABLES
  conexion,     \* "abriendo", "saludo" until the MOTD ends, "arriba", "caida"
  enCanal,      \* the channels the server has the program in
  pedidos,      \* the channels of RequestJoin not yet answered
  esperas       \* the channels of the singleShot timers that run

varsIrc == <<conexion, enCanal, pedidos, esperas>>

InitIrc ==
  /\ conexion = "abriendo"
  /\ enCanal = {} /\ pedidos = {} /\ esperas = {}

-----------------------------------------------------------------------------
(* The texts.                                                              *)

Marcas == {"B", "U", "R", "O"}     \* bold, underline, reverse and reset
Color == "C"
Subida == "[Nueva Subida] "        \* ssubida, as one character

\* Mutant of Numero: the second digit of a colour is left.
NumeroDeUno(s, k) == {j \in {k} \cap DOMAIN s : s[j] \in Digitos}

\* The number at k, of one or two digits; none when there is no digit.
Numero(s, k) ==
  {j \in {k, k + 1} \cap DOMAIN s : \A i \in k .. j : s[i] \in Digitos}

\* The colour that begins at k: with its number and, if a comma and another
\* number follow, with those too.
Codigo(s, k) ==
  LET coma == k + 1 + Cardinality(Numero(s, k + 1))
      fondo == Numero(s, coma + 1)
  IN {k} \cup Numero(s, k + 1) \cup
     IF coma \in DOMAIN s /\ s[coma] = "," /\ coma > k + 1 /\ fondo # {}
     THEN {coma} \cup fondo ELSE {}

\* irc_color_strip_from_mirc: the marks and the colours go.
Descolorea(s) ==
  LET marcas == {k \in DOMAIN s : s[k] \in Marcas}
      colores == UNION {Codigo(s, k) : k \in {j \in DOMAIN s : s[j] = Color}}
  IN EnOrden(s, DOMAIN s \ (marcas \cup colores))

\* QString::mid, for positions from 1; n < 0 takes what is left.
Medio(s, i, n) == SubSeq(s, i, IF n < 0 THEN Len(s) ELSE Min({Len(s), i + n - 1}))

\* QString::trimmed.
Recorta(s) ==
  LET llenas == {k \in DOMAIN s : s[k] # " "}
  IN IF llenas = {} THEN <<>> ELSE SubSeq(s, Min(llenas), Max(llenas))

\* The first and the last dash; 0 when there is none (indexOf says -1).
Guiones(s) == {0} \cup {k \in DOMAIN s : s[k] = "-"}
Primero(s) == IF Guiones(s) = {0} THEN 0 ELSE Min(Guiones(s) \ {0})
Ultimo(s)  == Max(Guiones(s))

\* Where a URL that follows a blank begins; "http" is one character.
Urls(s) == {k \in 2 .. Len(s) : s[k] = "http" /\ s[k - 1] = " "}

\* The first URL, up to a blank.
Url(s) ==
  LET k == Min(Urls(s)) IN
  SubSeq(s, k, Min({Len(s)} \cup {j - 1 : j \in {b \in k .. Len(s) : s[b] = " "}}))

\* The section: what comes before the first dash and its blank.
SeccionEn(s) == Medio(s, 1, Primero(s) - 2)

\* The title: what is between the first dash and the last.
TituloEn(s) == Recorta(Medio(s, Primero(s) + 2, Ultimo(s) - Primero(s) - 3))

\* What an IRC client shows of a line: neither marks nor the colours of mIRC,
\* which come with m digits and, after a comma, one or two more.
EsColor(c) ==
  /\ c[1] = Color
  /\ \E m \in 0 .. 2 :
       /\ \A k \in 2 .. Len(c) : k # m + 2 => c[k] \in Digitos
       /\ \/ Len(c) = m + 1
          \/ m > 0 /\ Len(c) \in {m + 3, m + 4} /\ c[m + 2] = ","

SeVe(s, k) ==
  s[k] \notin Marcas /\ \A i \in 1 .. k, j \in k .. Len(s) : ~EsColor(SubSeq(s, i, j))

Muestra(s) == EnOrden(s, {k \in DOMAIN s : SeVe(s, k)})

\* What the bot says of an upload.
Guion == <<" ", "-", " ">>
Dice(u) == <<Subida>> \o SeccionDe[u] \o Guion \o TituloDe[u] \o Guion \o EnlaceDe[u]

\* A title begins and ends with something, and there is no URL in it; sections
\* and links have no dash.  A line of the bot that begins as an announcement
\* is one, or has no URL.
ASSUME IrcSessionAssumption ==
  /\ Ninguna \notin Subidas
  /\ Digitos \cap (Marcas \cup {Color, ","}) = {}
  /\ \A u \in Subidas :
       /\ \A k \in DOMAIN SeccionDe[u] : SeccionDe[u][k] \notin {"-", "http"}
       /\ TituloDe[u] # <<>> /\ TituloDe[u][1] # " "
       /\ TituloDe[u][Len(TituloDe[u])] # " "
       /\ \A k \in DOMAIN TituloDe[u] : TituloDe[u][k] # "http"
       /\ EnlaceDe[u] # <<>> /\ EnlaceDe[u][1] = "http"
       /\ \A k \in DOMAIN EnlaceDe[u] : EnlaceDe[u][k] \notin {"-", " "}
  /\ \A l \in Lineas :
       /\ l.texto \in Seq(STRING) /\ l.u \in Subidas \cup {Ninguna}
       /\ l.nick = Bot =>
            LET mensaje == Muestra(l.texto) IN
              IF l.u \in Subidas THEN mensaje = Dice(l.u)
              ELSE mensaje # <<>> /\ mensaje[1] = Subida => Urls(Tail(mensaje)) = {}

\* The lines without marks and colours.
SinColores == [l \in Lineas |-> Descolorea(l.texto)]

-----------------------------------------------------------------------------
(* The session.                                                            *)

Conectado == conexion \in {"saludo", "arriba"}

\* on_connected, and on_numericMessage at the end of the MOTD: joinChannels.
Conecta ==
  /\ conexion = "abriendo" /\ conexion' = "saludo"
  /\ pedidos' = Canales
  /\ UNCHANGED <<enCanal, esperas, varsAnuncios>>

FinDeMotd ==
  /\ conexion = "saludo" /\ conexion' = "arriba"
  /\ pedidos' = Canales
  /\ UNCHANGED <<enCanal, esperas, varsAnuncios>>

\* The server answers a JOIN.
Entra(c) ==
  /\ Conectado /\ c \in pedidos
  /\ pedidos' = pedidos \ {c}
  /\ enCanal' = enCanal \cup {c}
  /\ UNCHANGED <<conexion, esperas, varsAnuncios>>

\* Mutant of Expulsa: one timer for all the channels.
ExpulsaUnTimer(c) ==
  /\ Conectado /\ c \in enCanal /\ Llega
  /\ enCanal' = enCanal \ {c} /\ esperas' = {c}
  /\ UNCHANGED <<conexion, pedidos, varsAnuncios>>

\* The server kicks the program out, and on_kick starts a timer of its own.
Expulsa(c) ==
  /\ Conectado /\ c \in enCanal /\ Llega
  /\ enCanal' = enCanal \ {c} /\ esperas' = esperas \cup {c}
  /\ UNCHANGED <<conexion, pedidos, varsAnuncios>>

\* The timer: RequestJoin, which a connection that is gone drops.
Reentra(c) ==
  /\ c \in esperas
  /\ esperas' = esperas \ {c}
  /\ pedidos' = IF Conectado THEN pedidos \cup {c} ELSE pedidos
  /\ UNCHANGED <<conexion, enCanal, varsAnuncios>>

\* The connection is lost, and with it the channels.
Cae ==
  /\ Conectado /\ conexion' = "caida"
  /\ enCanal' = {} /\ pedidos' = {}
  /\ UNCHANGED <<esperas, varsAnuncios>>

\* miraSubida: a line with a URL is an announcement.
MiraSubida(s, u) ==
  \/ Urls(s) = {} /\ Calla
  \/ /\ Urls(s) # {}
     /\ MiraTitulo(Anuncio("irc", u, SeccionEn(s), TituloEn(s), Url(s)))

\* The bot says in a channel that there is an upload.
DelBot(l, destino, mensaje) ==
  /\ destino # Privado /\ l.nick = Bot
  /\ mensaje # <<>> /\ mensaje[1] = Subida

\* on_privmsg.
Mensaje(l, destino) ==
  /\ Conectado /\ destino \in enCanal \cup {Privado}
  /\ Llega
  /\ LET mensaje == SinColores[l] IN
       IF DelBot(l, destino, mensaje) THEN MiraSubida(Tail(mensaje), l.u)
       ELSE Calla
  /\ UNCHANGED <<conexion, enCanal, pedidos, esperas>>

\* The server lets the program in, or the timer asks it to.
Vuelve(c) == (Entra(c) \/ Reentra(c)) /\ UNCHANGED llegadas

NextIrc ==
  \/ (Conecta \/ FinDeMotd \/ Cae) /\ UNCHANGED llegadas
  \/ \E c \in Canales : Expulsa(c) \/ Vuelve(c)
  \/ \E l \in Lineas, d \in Canales \cup {Privado} : Mensaje(l, d)
=============================================================================
