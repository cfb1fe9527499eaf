------------------------------- MODULE Feeds -------------------------------
(***************************************************************************)
(* The feeds are asked for when the QTimer of rssani_lite expires: fetch   *)
(* of Rss_lite, on the main thread.  What readDataRSS does with a reply is *)
(* FeedParser; here a reply is read or it is not.                          *)
(***************************************************************************)
EXTENDS Integers

CONSTANTS
  Trackers,     \* listaTrackers, all of them in the table of trackers
  Intervalos,   \* minutes: what may be saved, or asked for by CambiaTimer
  MaxMinutos,   \* the most minutes whose milliseconds an int holds, 35791
  MaxVueltas    \* bound: expiries of the timer

VARIABLES
  temporizador, \* "activo" or "parado"
  ruta,         \* values->filledValues(): there is a directory
  conectada,    \* httpRss.finished is connected to readDataRSS
  vuelo,        \* the requests with no reply yet
  terminadas,   \* history: the requests whose reply came with no error
  leidas,       \* history: those that parseXml was given
  vueltas       \* history: expiries, the last of them ultimoRss

vars == <<temporizador, ruta, conectada, vuelo, terminadas, leidas, vueltas>>

\* A negative number of milliseconds starts no timer, and the product that
\* does not fit in an int may be any.
Arranques(minutos) ==
  IF minutos > MaxMinutos \/ minutos < -MaxMinutos THEN {"activo", "parado"}
  ELSE IF minutos < 0 THEN {"parado"} ELSE {"activo"}

\* rssani_lite starts the timer, and prepareSignals makes the connection.
Init ==
  /\ \E t \in Intervalos : temporizador \in Arranques(t)
  /\ ruta \in BOOLEAN /\ conectada = TRUE
  /\ vuelo = {} /\ terminadas = {} /\ leidas = {} /\ vueltas = 0

\* timeout, and fetch: disconnect() takes away every connection of httpRss,
\* and each tracker is asked for its feed if there is a directory.
Fetch ==
  /\ temporizador = "activo" /\ vueltas < MaxVueltas
  /\ conectada' = FALSE
  /\ vuelo' = IF ruta THEN vuelo \cup [trk : Trackers, n : {vueltas + 1}] ELSE vuelo
  /\ vueltas' = vueltas + 1
  /\ UNCHANGED <<temporizador, ruta, terminadas, leidas>>

\* A reply: readDataRSS, if connected, reads it unless it is an error.
Respuesta(r, error) ==
  /\ r \in vuelo /\ vuelo' = vuelo \ {r}
  /\ terminadas' = IF error THEN terminadas ELSE terminadas \cup {r}
  /\ leidas' = IF error \/ ~conectada THEN leidas ELSE leidas \cup {r}
  /\ UNCHANGED <<temporizador, ruta, conectada, vueltas>>

\* CambiaTimer: setInterval from the thread of the call, which the library
\* does not allow: the timer goes on as it was, or stops.
CambiaTimer ==
  /\ temporizador' \in {temporizador, "parado"}
  /\ UNCHANGED <<ruta, conectada, vuelo, terminadas, leidas, vueltas>>

\* PonerOpciones: with a directory or with none.
PonerOpciones ==
  /\ ruta' \in BOOLEAN
  /\ UNCHANGED <<temporizador, conectada, vuelo, terminadas, leidas, vueltas>>

Next ==
  \/ Fetch \/ CambiaTimer \/ PonerOpciones
  \/ \E r \in vuelo, error \in BOOLEAN : Respuesta(r, error)

Spec == Init /\ [][Next]_vars

\* fetch says that it hands what it gets to readDataRSS: every reply that
\* comes with no error is read.
RespuestaLeida == leidas = terminadas
=============================================================================
