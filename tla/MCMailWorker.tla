---------------------------- MODULE MCMailWorker ----------------------------
(***************************************************************************)
(* Instances of MailWorker for TLC: a job with two attempts for the same   *)
(* address (two communities of one RC number) and two single mails.        *)
(***************************************************************************)
EXTENDS MailWorker

CONSTANTS j1, j2, j3, k1

ThreeJobs == [j \in Jobs |-> IF j = j1 THEN <<k1, k1>> ELSE <<NoKey>>]
=============================================================================
