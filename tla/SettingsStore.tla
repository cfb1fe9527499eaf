---------------------------- MODULE SettingsStore ----------------------------
(***************************************************************************)
(* What the settings promise: the operations change memory, a save stores  *)
(* all of it, a start loads what was stored last.  A crash in the middle   *)
(* of a save may leave a mixture, but only of the two: the values of       *)
(* "principal" up to some point, then each of the arrays whole or empty.   *)
(***************************************************************************)
EXTENDS Integers, Sequences

CONSTANT Estados       \* what a first start may load

VARIABLES mem, guardado, arranques

\* The values of the group "principal", in the order they are written.
Campos == <<"opc", "tiempo", "usuario", "clave">>

\* The first k values are of `nuevo`, the others of `viejo`.
Prefijo(viejo, nuevo, k) ==
  [f \in DOMAIN viejo |->
     IF \E j \in 1 .. k : Campos[j] = f THEN nuevo[f] ELSE viejo[f]]

\* What a save of `nuevo` over `viejo` may leave when it is cut short.
Mezclas(viejo, nuevo) ==
  {Prefijo(viejo, nuevo, k) : k \in 0 .. Len(Campos)}
  \cup {[Prefijo(viejo, nuevo, Len(Campos)) EXCEPT !.reglas = r] :
          r \in {<<>>, nuevo.reglas}}
  \cup {[nuevo EXCEPT !.auths = <<>>], nuevo}

SSInit == guardado \in Estados /\ mem = guardado /\ arranques = 0

Arranca == mem' = guardado' /\ arranques' = arranques + 1

SSCambia   == UNCHANGED <<guardado, arranques>>
SSGuarda   == guardado' = mem /\ UNCHANGED <<mem, arranques>>
SSReinicia == UNCHANGED guardado /\ Arranca
SSCorte    == guardado' \in Mezclas(guardado, mem) /\ Arranca

SSNext == SSCambia \/ SSGuarda \/ SSReinicia \/ SSCorte

SSSpec == SSInit /\ [][SSNext]_<<mem, guardado, arranques>>
=============================================================================
