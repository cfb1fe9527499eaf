------------------------------ MODULE Uploads ------------------------------
(***************************************************************************)
(* The uploads that are announced, and where every announcement ends:      *)
(* miraTitulo.  What the rules say of a title is SharedRules; here they    *)
(* may want it or not, unless it is one of the recent titles.  A text is   *)
(* the sequence of its characters, of those that matter.                   *)
(***************************************************************************)
EXTENDS Integers, SequencesExt, Lists

CONSTANTS
  Subidas,      \* the uploads
  TituloDe, SeccionDe, EnlaceDe,  \* the texts of each
  MaxRecientes, \* 30 in miraTitulo
  MaxLlegadas   \* bound: documents, IRC lines and kicks in one behaviour

VARIABLES
  recientes,    \* QStringList recientes
  ultimo,       \* history: the last announcement, with its upload
  tomados,      \* history: the uploads a rule took
  llegadas      \* history: what has arrived so far

varsAnuncios == <<recientes, ultimo, tomados>>   \* llegadas apart

ASSUME UploadsAssumption ==
  /\ MaxRecientes \in Nat /\ MaxLlegadas \in Nat
  /\ TituloDe \in [Subidas -> Seq(STRING)]
  /\ SeccionDe \in [Subidas -> Seq(STRING)]
  /\ EnlaceDe \in [Subidas -> Seq(STRING)]

\* What comes from `fuente`, feed or IRC, for the upload u.
Anuncio(fuente, u, seccion, titulo, enlace) ==
  [fuente |-> fuente, u |-> u,
   seccion |-> seccion, titulo |-> titulo, enlace |-> enlace]

SinAnuncio == [fuente |-> "nadie"]

InitAnuncios ==
  /\ recientes = <<>> /\ ultimo = SinAnuncio /\ tomados = <<>>
  /\ llegadas = 0

\* Something arrives.
Llega == llegadas < MaxLlegadas /\ llegadas' = llegadas + 1

\* Nothing is announced now.
Calla == ultimo' = SinAnuncio /\ UNCHANGED <<recientes, tomados>>

\* Mutant of MiraTitulo: the recent titles are not looked at.
MiraTituloSinRecientes(a) ==
  /\ ultimo' = a
  /\ \/ UNCHANGED <<recientes, tomados>>
     \/ /\ recientes' = Append(IF Len(recientes) > MaxRecientes
                               THEN Tail(recientes) ELSE recientes, a.titulo)
        /\ tomados' = Append(tomados, a.u)

\* miraTitulo: the rules take a title that is not recent, or do not.
MiraTitulo(a) ==
  /\ ultimo' = a
  /\ \/ UNCHANGED <<recientes, tomados>>
     \/ /\ ~Contains(recientes, a.titulo)
        /\ recientes' = Append(IF Len(recientes) > MaxRecientes
                               THEN Tail(recientes) ELSE recientes, a.titulo)
        /\ tomados' = Append(tomados, a.u)
=============================================================================
