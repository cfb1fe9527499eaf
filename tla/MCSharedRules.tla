--------------------------- MODULE MCSharedRules ---------------------------
(***************************************************************************)
(* Values of the constants of SharedRules for TLC.  The pattern "todo"     *)
(* matches every title and "uno" only the first.  The loaded list has a    *)
(* mail rule in front of a download rule that keeps one day of distance.   *)
(***************************************************************************)
EXTENDS SharedRules

CONSTANTS t1, t2, t3, todo, uno, ha, hb, sec, c1, c2

MCCoincide ==
  {<<todo, <<sec, t>>>> : t \in Titulos} \cup {<<uno, <<sec, t1>>>>}

R(uid, nombre, venc, tracker, mail, dias, fecha) ==
  [NuevaRegla(uid, nombre, venc, tracker, mail, dias) EXCEPT !.fecha = fecha]

MCListas ==
  {<<R(1, uno, SinVencimiento, SinTracker, TRUE, 0, SinDescarga),
     R(2, todo, SinVencimiento, SinTracker, FALSE, 1, SinDescarga)>>,
   <<R(1, uno, 1, SinTracker, FALSE, 0, SinDescarga),
     R(2, todo, SinVencimiento, SinTracker, FALSE, 0, SinDescarga)>>}

Alta(nombre, venc, dias) ==
  [op |-> "AnadirRegexp", nombre |-> nombre, vencimiento |-> venc,
   tracker |-> SinTracker, mail |-> FALSE, dias |-> dias]

MCPeticiones ==
  {[op |-> "ActivarRegexp", pos |-> 2],
   [op |-> "MoverRegexp", pos |-> 1, a |-> 2],
   [op |-> "BorrarRegexpI", pos |-> 2]}

\* One request of each kind.
MCTodas == MCPeticiones \cup
  {Alta(todo, 2, 0),
   [op |-> "EditarRegexpI", pos |-> 2, dest |-> uno],
   [op |-> "EditarRegexp", nombre |-> uno, dest |-> todo],
   [op |-> "BorrarRegexpS", nombre |-> uno]}
=============================================================================
