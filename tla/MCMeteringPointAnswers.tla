----------------------- MODULE MCMeteringPointAnswers -----------------------
(***************************************************************************)
(* An instance of MeteringPointAnswers for TLC.                            *)
(***************************************************************************)
EXTENDS MeteringPointAnswers

CONSTANTS m1, p1, t1

OneCommunity == [p \in Participants |-> t1]
OneReceiver == [t \in Tenants |-> t1]
=============================================================================
