---------------------------- MODULE MCEdaProcess ----------------------------
(***************************************************************************)
(* An instance of EdaProcess for TLC: a GEA of two communities with the    *)
(* same RC number, named after the first; the member p3 is in the second,  *)
(* which has no messages.                                                  *)
(***************************************************************************)
EXTENDS EdaProcess, TLC

CONSTANTS m1, p1, p2, p3, t1, t2, c1, c2, v1, v2

TwoCommunities == [p \in Participants |-> IF p = p3 THEN t2 ELSE t1]
OneReceiver == [t \in Tenants |-> t1]
Names == [t \in Tenants |-> IF t = t1 THEN 1 ELSE 2]

Symmetry == Permutations({c1, c2}) \cup Permutations({v1, v2})
=============================================================================
