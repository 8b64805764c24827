-------------------------- MODULE MCMessageBroker --------------------------
(***************************************************************************)
(* Instances of MessageBroker for TLC.                                     *)
(***************************************************************************)
EXTENDS MessageBroker

CONSTANTS a, b, r1, r2
=============================================================================
