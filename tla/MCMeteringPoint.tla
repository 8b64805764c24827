-------------------------- MODULE MCMeteringPoint --------------------------
(***************************************************************************)
(* Instances of MeteringPoint for TLC.                                     *)
(***************************************************************************)
EXTENDS MeteringPoint, TLC

CONSTANTS m1, m2, p1, p2, t1

\* One community.
OneCommunity == [p \in Participants |-> t1]
OneReceiver == [t \in Tenants |-> t1]

Symmetry == Permutations({p1, p2}) \cup Permutations({m1, m2})

\* Two members and two metering points, of whose four registrations at most
\* two exist at a time.
AtMostTwoRows == Cardinality(Stored) <= 2
=============================================================================
