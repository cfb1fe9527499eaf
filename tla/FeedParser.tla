---------------------------- MODULE FeedParser ----------------------------
(***************************************************************************)
(* parseXml of Rss_lite, one step per token that QXmlStreamReader finds in *)
(* the documents that readDataRSS hands to it.  A document is read to its  *)
(* end, or to where it is cut short (PrematureEndOfDocumentError), or to a *)
(* syntax error.  The strings and the stack are members: they outlive the  *)
(* document.                                                               *)
(*                                                                         *)
(* The reader delivers well-formed tokens.  An item has the fields of RSS, *)
(* in one of the orders of Formas; a title may come in pieces, as around a *)
(* CDATA section, and with the section and the counts of peers that some   *)
(* trackers add.  Popping the empty stack is undefined behaviour and ends  *)
(* the model (roto).                                                       *)
(***************************************************************************)
EXTENDS Uploads

CONSTANTS
  Formas,       \* the fields an item may have, in order
  Prefijo,      \* for each token "[section] " of a title, the section
  Pares,        \* the token " [S(n)/L(n)]" of a title
  TituloCanal,  \* the title of a channel, as one character
  Nada,         \* no item, no field
  MaxItems      \* bound: items in one behaviour

VARIABLES
  enDoc,        \* parseXml is running
  item,         \* the open item: its upload
  resta,        \* what is left of the text of the last field
  faltan,       \* the fields that are still to come in it
  value,        \* parseXml's local: the section (empty between documents)
  pila,         \* the size of QStack pila
  currentTag, titleString, linkString, description,   \* as in Rss_lite
  roto,         \* undefined behaviour has happened
  items,        \* history: items so far
  truncados,    \* history: documents cut short
  vistos        \* history: the items announced of this document

varsXml == <<enDoc, item, resta, faltan, items, truncados, vistos, value>>
varsRss == <<pila, currentTag, titleString, linkString, description, roto>>
varsFeed == <<varsXml, varsRss>>

Campos == {"title", "link", "enclosure", "description"}

InitFeed ==
  /\ enDoc = FALSE /\ item = Nada /\ resta = <<>>
  /\ faltan = <<>> /\ items = 0 /\ truncados = 0 /\ vistos = {}
  /\ value = <<>> /\ pila = 0 /\ currentTag = Nada
  /\ titleString = <<>> /\ linkString = <<>> /\ description = <<>>
  /\ roto = FALSE

\* An item has each field at most once, and its title.  The tokens that some
\* trackers add to a title are not part of any.
ASSUME FeedParserAssumption ==
  /\ Nada \notin Subidas
  /\ \A f \in Formas :
       /\ f \in Seq(Campos) /\ \E k \in DOMAIN f : f[k] = "title"
       /\ \A j, k \in DOMAIN f : f[j] = f[k] => j = k
  /\ TituloCanal \in STRING
  /\ DOMAIN Prefijo \subseteq STRING /\ Pares \in STRING \ DOMAIN Prefijo
  /\ \A p \in DOMAIN Prefijo : Prefijo[p] \in Seq(STRING)
  /\ \A u \in Subidas :
       \A k \in DOMAIN TituloDe[u] : TituloDe[u][k] \notin DOMAIN Prefijo \cup {Pares}
  /\ MaxItems \in Nat

\* readDataRSS, for a reply with no error: parseXml starts on its data.  The
\* channel may have a title.
AbreDoc ==
  /\ ~enDoc /\ Llega
  /\ enDoc' = TRUE /\ faltan' \in {<<>>, <<"title">>}
  /\ value' = <<>> /\ vistos' = {}
  /\ UNCHANGED <<item, resta, items, truncados, pila, currentTag,
                 titleString, linkString, description, roto, varsAnuncios>>

\* <item>, with no rss:about.
AbreItem(u) ==
  /\ enDoc /\ item = Nada /\ resta = <<>> /\ faltan = <<>> /\ items < MaxItems
  /\ item' = u /\ items' = items + 1 /\ faltan' \in Formas
  /\ linkString' = <<>> /\ pila' = pila + 1 /\ currentTag' = "item"
  /\ UNCHANGED <<enDoc, resta, truncados, vistos, value, titleString,
                 description, roto>>
  /\ Calla

\* The texts a field may have: those of the upload, or of the channel.
Textos(c) ==
  IF item = Nada THEN {<<TituloCanal>>}
  ELSE CASE c = "title" ->
              {TituloDe[item]} \cup
              {<<p>> \o TituloDe[item] \o <<Pares>> :
                 p \in {q \in DOMAIN Prefijo : Prefijo[q] = SeccionDe[item]}}
         [] c = "link" -> {EnlaceDe[item]}
         [] c = "enclosure" -> {<<>>}
         [] c = "description" -> {SeccionDe[item]}

\* A field begins (its end changes nothing); <enclosure> puts its url in the
\* place of the link.
AbreCampo(c) ==
  /\ enDoc /\ resta = <<>> /\ faltan # <<>> /\ c = Head(faltan)
  /\ faltan' = Tail(faltan) /\ resta' \in Textos(c)
  /\ currentTag' = c
  /\ linkString' = IF c = "enclosure" THEN EnlaceDe[item] ELSE linkString
  /\ UNCHANGED <<enDoc, item, items, truncados, vistos, value, pila, titleString,
                 description, roto, varsAnuncios>>

\* Mutant of Anota: the depth is not looked at.
AnotaSiempre(t) ==
  /\ titleString' = IF currentTag = "title" THEN titleString \o t ELSE titleString
  /\ linkString' = IF currentTag = "link" THEN linkString \o t ELSE linkString
  /\ description' = IF currentTag = "description" THEN description \o t ELSE description

\* Characters: inside an item they go to the string of the last tag seen.
Anota(t) ==
  LET va(c) == pila > 0 /\ currentTag = c IN
  /\ titleString' = IF va("title") THEN titleString \o t ELSE titleString
  /\ linkString' = IF va("link") THEN linkString \o t ELSE linkString
  /\ description' = IF va("description") THEN description \o t ELSE description

Texto ==
  /\ enDoc /\ resta # <<>>
  /\ \E k \in {Len(resta)} \cup IF currentTag = "title" THEN {1} ELSE {} :
       Anota(SubSeq(resta, 1, k)) /\ resta' = SubSeq(resta, k + 1, Len(resta))
  /\ UNCHANGED <<enDoc, item, faltan, items, truncados, vistos, value, pila,
                 currentTag, roto, varsAnuncios>>

\* rxlen: what comes before the first blank.
PrimeraPalabra(s) == EnOrden(s, {k \in DOMAIN s : \A j \in 1 .. k : s[j] # " "})

\* The section: that of the title, else the first word of the description, else
\* what the item before had.
Seccion ==
  LET palabra == PrimeraPalabra(description) IN
  IF titleString # <<>> /\ titleString[1] \in DOMAIN Prefijo
  THEN Prefijo[titleString[1]]
  ELSE IF palabra # <<>> THEN palabra ELSE value

\* titleString.remove(syl), and remove(titulo) of what it begins with.
Limpia(t) ==
  LET sin == EnOrden(t, {k \in DOMAIN t : t[k] # Pares})
  IN IF sin # <<>> /\ sin[1] \in DOMAIN Prefijo THEN Tail(sin) ELSE sin

\* Mutant of Olvida: the description stays.
OlvidaMenosDescripcion ==
  linkString' = <<>> /\ titleString' = <<>> /\ UNCHANGED description

Olvida == titleString' = <<>> /\ linkString' = <<>> /\ description' = <<>>

\* </item>: the announcement, and the strings are cleared.
CierraItem ==
  /\ enDoc /\ item # Nada /\ resta = <<>> /\ faltan = <<>>
  /\ MiraTitulo(Anuncio("feed", item, Seccion, Limpia(titleString), linkString))
  /\ value' = Seccion
  /\ Olvida
  /\ pila' = pila - 1
  /\ item' = Nada /\ vistos' = vistos \cup {item}
  /\ UNCHANGED <<enDoc, resta, faltan, items, truncados, currentTag, roto>>

\* The document is over: at its end, or cut short anywhere.
Acaba ==
  /\ enDoc' = FALSE /\ item' = Nada /\ resta' = <<>>
  /\ faltan' = <<>> /\ vistos' = {} /\ value' = <<>> /\ UNCHANGED items

CierraDoc ==
  /\ enDoc /\ item = Nada /\ resta = <<>> /\ faltan = <<>>
  /\ Acaba /\ Calla /\ UNCHANGED <<truncados, varsRss>>

Trunca ==
  /\ enDoc
  /\ Acaba /\ Calla /\ truncados' = truncados + 1
  /\ UNCHANGED varsRss

\* Mutant of ErrorXml: the stack is popped twice.
ErrorXmlDosVeces ==
  /\ enDoc
  /\ Acaba /\ Olvida
  /\ roto' = (pila = 0) /\ pila' = IF pila = 0 THEN 0 ELSE pila - 2
  /\ Calla /\ UNCHANGED <<truncados, currentTag>>

\* Any other error: the strings are cleared and the stack popped.
ErrorXml ==
  /\ enDoc
  /\ Acaba /\ Olvida
  /\ roto' = (pila = 0) /\ pila' = IF pila = 0 THEN 0 ELSE pila - 1
  /\ Calla /\ UNCHANGED <<truncados, currentTag>>

\* What parseXml does with the document it has.
SigueDoc ==
  /\ \/ \E u \in Subidas : AbreItem(u)
     \/ \E c \in Campos : AbreCampo(c)
     \/ Texto \/ CierraItem \/ CierraDoc \/ Trunca \/ ErrorXml
  /\ UNCHANGED llegadas

NextFeed == ~roto /\ (AbreDoc \/ SigueDoc)
=============================================================================
