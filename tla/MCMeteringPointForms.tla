------------------------ MODULE MCMeteringPointForms ------------------------
(***************************************************************************)
(* Instances of MeteringPointForms for TLC.                                *)
(***************************************************************************)
EXTENDS MeteringPointForms

CONSTANTS m1, m2, p1, p2, t1

OneCommunity == [p \in Participants |-> t1]
OneReceiver == [t \in Tenants |-> t1]
=============================================================================
