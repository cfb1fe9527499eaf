-------------------------- MODULE MCAnnouncements --------------------------
(***************************************************************************)
(* Two uploads.  The first has a title with dashes and blanks inside and a *)
(* digit at its start, the second a title that ends in a dash and a        *)
(* section with a blank.                                                   *)
(***************************************************************************)
EXTENDS Announcements

CONSTANTS u1, u2

Por(a, b) == [u \in Subidas |-> IF u = u1 THEN a ELSE b]

MCTitulo == Por(<<"7", " ", "-", " ", "a">>, <<"b", "-">>)
MCSeccion == Por(<<"s">>, <<"t", " ", "t">>)
MCEnlace == Por(<<"http", "x">>, <<"http", "y">>)

MCPrefijo ==
  [p \in {"[s] ", "[t t] "} |-> IF p = "[s] " THEN <<"s">> ELSE <<"t", " ", "t">>]

\* As RSS files order them; with the link only in the enclosure; with no link
\* and the title last; with the link after the enclosure.
MCFormas ==
  {<<"title", "link", "description", "enclosure">>, <<"enclosure", "title">>,
   <<"description", "title">>, <<"title", "enclosure", "link">>}

\* What the bot writes, in plain text and in colours.
Vivo(u) == <<"B", "C", "7", Subida, "O">> \o SeccionDe[u] \o Guion
           \o <<"C", "7", "7", ",", "7", "7">> \o TituloDe[u] \o <<"C">> \o Guion
           \o <<"U">> \o EnlaceDe[u]

Linea(nick, texto, u) == [nick |-> nick, texto |-> texto, u |-> u]

MCLineas ==
  {Linea(Bot, Dice(u), u) : u \in Subidas} \cup {Linea(Bot, Vivo(u), u) : u \in Subidas}
  \cup {Linea("otro", Dice(u1), u1), Linea(Bot, <<"a">>, Ninguna),
        Linea(Bot, <<Subida, "a">>, Ninguna)}
=============================================================================
