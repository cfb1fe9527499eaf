--------------------------- MODULE MCSerialRules ---------------------------
(***************************************************************************)
(* Values of the constants of SerialRules for TLC.  The lists a start may  *)
(* load: two expired rules in a row, a rule with an illegible expiry, a    *)
(* mail rule, rules bound to a tracker, a rule that has downloaded.        *)
(***************************************************************************)
EXTENDS SerialRules

CONSTANTS t1, t2, t3, todo, uno, ha, hb, sec, c1, c2

MCCoincide ==
  {<<todo, <<sec, t>>>> : t \in Titulos} \cup {<<uno, <<sec, t1>>>>}

R(uid, nombre, venc, tracker, mail, dias, fecha) ==
  [NuevaRegla(uid, nombre, venc, tracker, mail, dias) EXCEPT !.fecha = fecha]

MCListas ==
  {<<R(1, uno, 1, SinTracker, FALSE, 0, SinDescarga),
     R(2, todo, 2, SinTracker, TRUE, 0, SinDescarga),
     R(3, todo, SinVencimiento, ha, FALSE, 1, SinDescarga)>>,
   <<R(1, uno, FechaIlegible, SinTracker, FALSE, 0, SinDescarga),
     R(2, uno, SinVencimiento, SinTracker, FALSE, 2, 1),
     R(3, todo, 2, SinTracker, FALSE, 0, SinDescarga)>>}

Alta(nombre, venc, dias) ==
  [op |-> "AnadirRegexp", nombre |-> nombre, vencimiento |-> venc,
   tracker |-> SinTracker, mail |-> FALSE, dias |-> dias]

MCPeticiones ==
  {Alta(todo, 2, 0),
   [op |-> "EditarRegexpI", pos |-> 2, dest |-> uno],
   [op |-> "MoverRegexp", pos |-> 3, a |-> 1],
   [op |-> "ActivarRegexp", pos |-> 1],
   [op |-> "BorrarRegexpI", pos |-> 2],
   [op |-> "EditarRegexp", nombre |-> uno, dest |-> todo],
   [op |-> "BorrarRegexpS", nombre |-> uno]}
=============================================================================
