-------------------------- MODULE MCMailTemplate --------------------------
(***************************************************************************)
(* Instances of MailTemplate for TLC.                                      *)
(***************************************************************************)
EXTENDS MailTemplate

CONSTANTS e1, e2, f1, f2
=============================================================================
