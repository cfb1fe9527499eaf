------------------------------ MODULE RuleList ------------------------------
(***************************************************************************)
(* The list of download rules (QList<regexp> of rssani_lite) and the tests *)
(* Rss_lite::parseTitle makes on one rule.  Constant-level operators only: *)
(* the modules that own the list as a VARIABLE build their actions from    *)
(* them.                                                                   *)
(*                                                                         *)
(* Data that no property tells apart is abstract:                          *)
(*   - a pattern is a member of Nombres, and the regular expression engine *)
(*     is the relation Coincide between patterns and announced uploads (an *)
(*     invalid pattern matches nothing: it has no pair in Coincide);       *)
(*   - a date is a day number, 1 or later.  The empty expiry text is       *)
(*     SinVencimiento.  A text QDate::fromString cannot read gives the     *)
(*     null QDate, which is earlier than every day: FechaIlegible;         *)
(*   - a rule carries `uid`, which the program does not have: it tells two *)
(*     rules with equal fields apart, and follows a rule that is moved.    *)
(* Positions count from 1 here and from 0 in the code.                     *)
(***************************************************************************)
EXTENDS Integers, Sequences, SequencesExt, Lists

CONSTANTS
  Nombres,      \* patterns a rule may carry
  Titulos,      \* titles that may be announced
  Secciones,    \* sections (categories) an announcement may carry
  Hosts,        \* host names of trackers and of links
  SinTracker,   \* the empty tracker text: the rule takes any host
  Coincide      \* the pairs <<pattern, <<section, title>>>> that match

ASSUME RuleListAssumption ==
  /\ SinTracker \notin Hosts
  /\ Coincide \subseteq Nombres \X (Secciones \X Titulos)

SinVencimiento == 0
FechaIlegible  == -1
SinDescarga    == 0      \* fechaDescarga is null: the rule never downloaded

\* struct regexp.
Regla == [uid : Nat, nombre : Nombres, vencimiento : Int,
          tracker : Hosts \cup {SinTracker}, mail : BOOLEAN, dias : Int,
          fecha : Nat, activa : BOOLEAN]

\* What miraTitulo is called with.
Anuncio == [seccion : Secciones, titulo : Titulos, host : Hosts]

NuevaRegla(uid, nombre, vencimiento, tracker, mail, dias) ==
  [uid |-> uid, nombre |-> nombre, vencimiento |-> vencimiento,
   tracker |-> tracker, mail |-> mail, dias |-> dias,
   fecha |-> SinDescarga, activa |-> TRUE]

-----------------------------------------------------------------------------
\* The tests of parseTitle on the rule r, for the announcement a, on day hoy.

Caducada(r, hoy) == r.vencimiento # SinVencimiento /\ hoy >= r.vencimiento

Casa(r, a) ==
  /\ r.activa
  /\ <<r.nombre, <<a.seccion, a.titulo>>>> \in Coincide
  /\ r.tracker \in {SinTracker, a.host}

DemasiadoPronto(r, hoy) == r.fecha # SinDescarga /\ hoy - r.fecha < r.dias

\* The rule at which the scan stops: it mails, or it downloads.
Acierta(r, a, hoy) == Casa(r, a) /\ (r.mail \/ ~DemasiadoPronto(r, hoy))

-----------------------------------------------------------------------------
\* The operations the RPC methods make on the list.

EnRango(l, pos) == pos \in 1 .. Len(l)

Editada(l, pos, nombre) == [l EXCEPT ![pos].nombre = nombre]
Conmutada(l, pos)       == [l EXCEPT ![pos].activa = ~@]
Movida(l, de, a)        == InsertAt(RemoveAt(l, de), a, l[de])

\* The positions, from k on, of the rules whose pattern is `nombre`; all of
\* them; and the first.
Desde(l, nombre, k) == {j \in DOMAIN l : k <= j /\ l[j].nombre = nombre}
Posiciones(l, nombre) == {j \in DOMAIN l : l[j].nombre = nombre}
EsPrimera(l, nombre, k) ==
  k \in Posiciones(l, nombre) /\ \A j \in Posiciones(l, nombre) : k <= j

\* borrarRegexp(QString): the rules left, in their order.
SinNombre(l, nombre) == EnOrden(l, DOMAIN l \ Posiciones(l, nombre))

UidsDe(l) == {l[k].uid : k \in DOMAIN l}
=============================================================================
