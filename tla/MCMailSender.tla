---------------------------- MODULE MCMailSender ----------------------------
(***************************************************************************)
(* MailSender for TLC: two mails, one after the other.                     *)
(***************************************************************************)
EXTENDS MailSender

MCMaxEnvios == 2
=============================================================================
