----------------------------- MODULE MCShutdown -----------------------------
(***************************************************************************)
(* An instance of Shutdown for TLC: a message, a request, and two jobs for *)
(* a queue with one place.                                                 *)
(***************************************************************************)
EXTENDS Shutdown

CONSTANTS a, r1, j1, j2

SingleMails == [j \in Jobs |-> <<NoKey>>]
=============================================================================
