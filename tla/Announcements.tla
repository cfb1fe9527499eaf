--------------------------- MODULE Announcements ---------------------------
(***************************************************************************)
(* The two ways an upload comes to miraTitulo, the feeds and IRC, on the   *)
(* one thread that handles both: while parseXml runs, the IRC events wait. *)
(***************************************************************************)
EXTENDS FeedParser, IrcSession

vars == <<varsFeed, varsIrc, varsAnuncios, llegadas>>

Init == InitAnuncios /\ InitFeed /\ InitIrc

PasoFeed == NextFeed /\ UNCHANGED varsIrc
PasoIrc == ~roto /\ ~enDoc /\ NextIrc /\ UNCHANGED varsFeed

Next == PasoFeed \/ PasoIrc

\* What is not the arrival of something new: the rest of a document, a timer,
\* the answer of an IRC server that lets the program in.
Spec ==
  /\ Init /\ [][Next]_vars
  /\ WF_vars(enDoc /\ PasoFeed)
  /\ \A c \in Canales :
       WF_vars(~roto /\ ~enDoc /\ Vuelve(c) /\ UNCHANGED varsFeed)

-----------------------------------------------------------------------------
TypeOK ==
  /\ enDoc \in BOOLEAN /\ roto \in BOOLEAN
  /\ item \in Subidas \cup {Nada}
  /\ faltan \in Seq(Campos)
  /\ currentTag \in Campos \cup {"item", Nada}
  /\ pila \in Nat /\ items \in Nat /\ llegadas \in Nat /\ truncados \in Nat
  /\ \A s \in {resta, value, titleString, linkString, description} : s \in Seq(STRING)
  /\ conexion \in {"abriendo", "saludo", "arriba", "caida"}
  /\ enCanal \subseteq Canales /\ pedidos \subseteq Canales
  /\ esperas \subseteq Canales
  /\ ultimo.fuente \in {"nadie", "feed", "irc"}
  /\ tomados \in Seq(Subidas) /\ recientes \in Seq(Seq(STRING))

DelFeed == ultimo.fuente = "feed"

\* An item of a feed gives miraTitulo its own title, whole and clean, and its
\* own link, though the strings outlive the item and the document: also after
\* a document with a syntax error.  (A document cut short in an item spoils
\* the next ones: truncados.  A link that comes after its enclosure is added
\* to it.)
ItemEntero ==
  DelFeed /\ truncados = 0
  => /\ ultimo.titulo = TituloDe[ultimo.u]
     /\ ToSet(ultimo.enlace) \subseteq ToSet(EnlaceDe[ultimo.u])

\* The section is that of the item or, when it has none, of an item before it
\* in the same document: whole from a title, its first word from a description.
SeccionDeSuDoc ==
  DelFeed /\ truncados = 0 /\ vistos # {} /\ ultimo.seccion # <<>>
  => \E u \in vistos : ultimo.seccion \in {SeccionDe[u], PrimeraPalabra(SeccionDe[u])}

\* A line that the bot says in a channel to announce an upload, and no other
\* line, comes to miraTitulo, and its colours, dashes and blanks leave the
\* three texts as they were.
IrcFiel ==
  [][\A l \in Lineas, d \in Canales \cup {Privado} :
       Mensaje(l, d)
       => ultimo' = IF l.nick = Bot /\ d # Privado /\ l.u # Ninguna
                    THEN Anuncio("irc", l.u, SeccionDe[l.u], TituloDe[l.u], EnlaceDe[l.u])
                    ELSE SinAnuncio]_vars

\* An upload is taken once, on whichever of the two ways it comes, until more
\* than MaxRecientes others have been taken.
UnaVezPorSubida ==
  truncados = 0 =>
    \A j, k \in DOMAIN tomados :
      j < k /\ tomados[j] = tomados[k] => k - j > MaxRecientes + 1

\* The program is again in a channel it was kicked out of, if the server lets
\* it in, whatever other channels it loses meanwhile.
VuelveAlCanal ==
  \A c \in Canales :
    c \in esperas ~> c \in enCanal \/ conexion = "caida" \/ roto
=============================================================================
