--------------------------- MODULE MCEnergyRequest ---------------------------
(***************************************************************************)
(* Instances of EnergyRequest for TLC: days d1 and d2, clients of one      *)
(* tenant.                                                                 *)
(***************************************************************************)
EXTENDS MessageList, TLC

CONSTANTS c1, c2, k1, k2, m1, m2, d1, d2, t1

OneTenant == [c \in Clients |-> t1]
OneDayPeriods == {{d1}, {d2}}
Symmetry == Permutations(Clients) \cup Permutations(Checkers) \cup Permutations({d1, d2})
=============================================================================
