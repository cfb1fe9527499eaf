----------------------------- MODULE MCSettings -----------------------------
EXTENDS Settings

CONSTANTS o1, o2, u1, u2, p1, p2, t1, t2, s1, s2, r1, r2, hoy

Vacia == [item |-> <<>>, tam |-> 0]

\* A file with empty lists, and one that has an interval of 0, a rule that has
\* downloaded and two auths of a tracker.
MCFicheros ==
  {[opc |-> o1, tiempo |-> PorDefecto, usuario |-> u1, clave |-> p1,
    reglas |-> Vacia, auths |-> Vacia],
   [opc |-> o1, tiempo |-> 0, usuario |-> u1, clave |-> p1,
    reglas |-> [item |-> <<[nombre |-> r1, fecha |-> hoy], [nombre |-> r2, fecha |-> SinFecha]>>,
                tam |-> 2],
    auths |-> [item |-> <<[tracker |-> t1, secreto |-> s1], [tracker |-> t1, secreto |-> s2]>>,
               tam |-> 2]]}
MCIntervalos == {0, 5}
=============================================================================
