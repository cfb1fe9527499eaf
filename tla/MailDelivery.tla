--------------------------- MODULE MailDelivery ---------------------------
(***************************************************************************)
(* What sending a mail promises: the server takes each message once at     *)
(* most, and send() returns true only for a message it has taken.  Nothing *)
(* is promised of false: the message may have been taken, or be taken      *)
(* later, with what was already on its way.                                *)
(***************************************************************************)
EXTENDS Integers

VARIABLES
  resultado,   \* of the last send(): "ninguno" while it runs
  aceptado     \* how many times the server has taken its message

MDInit == resultado = "ninguno" /\ aceptado = 0

MDEmpieza == resultado' = "ninguno" /\ aceptado' = 0

MDAcepta == aceptado = 0 /\ aceptado' = 1 /\ UNCHANGED resultado

MDTermina(v) ==
  /\ resultado = "ninguno"
  /\ v = "true" => aceptado = 1
  /\ resultado' = v
  /\ UNCHANGED aceptado

MDNext == MDEmpieza \/ MDAcepta \/ MDTermina("true") \/ MDTermina("false")

MDSpec == MDInit /\ [][MDNext]_<<resultado, aceptado>>
=============================================================================
