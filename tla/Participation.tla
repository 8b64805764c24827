--------------------------- MODULE Participation ---------------------------
(***************************************************************************)
(* What the register of metering points promises to the billing of an      *)
(* energy community, without the process that gets there: who takes part   *)
(* with which metering point, and since when.                              *)
(*                                                                         *)
(* An entry is a pair <<metering point, participant>>.  The state says of  *)
(* every entry whether the participant takes part with the metering point  *)
(* at present, and the first day he ever did.  The first day controls      *)
(* which part of the past a member is billed for and is shown: once there  *)
(* it is never lost and never moves later.  In one community (tenant) at   *)
(* most one participant takes part with a metering point.                  *)
(***************************************************************************)
EXTENDS Naturals

CONSTANTS Meters, Participants, Tenants, TenantOf, MaxDate

VARIABLES active,   \* active[e]: the entry takes part
          first     \* first[e]: its first day, or NoDate

vars == <<active, first>>

NoDate == 0
Dates == 1 .. MaxDate
Entries == Meters \X Participants

\* Two entries of the same metering point in the same community.
Rivals(e, f) == e # f /\ e[1] = f[1] /\ TenantOf[e[2]] = TenantOf[f[2]]

TypeOK == /\ active \in [Entries -> BOOLEAN]
          /\ first \in [Entries -> Dates \cup {NoDate}]

Init == /\ active = [e \in Entries |-> FALSE]
        /\ first = [e \in Entries |-> NoDate]

\* The entries B take part; nobody else of the same community does so with
\* their metering points.  The first day is set once and can only be
\* corrected to an earlier one.
Begin(B) ==
  /\ \A e \in B : \A f \in Entries : Rivals(e, f) => f \notin B /\ ~active[f]
  /\ active' = [e \in Entries |-> active[e] \/ e \in B]
  /\ first' \in [Entries -> Dates \cup {NoDate}]
  /\ \A e \in Entries :
       IF e \in B
         THEN first'[e] \in Dates /\ (first[e] = NoDate \/ first'[e] <= first[e])
         ELSE first'[e] = first[e]

\* The entries B no longer take part.  Their first days stay.
End(B) ==
  /\ active' = [e \in Entries |-> active[e] /\ e \notin B]
  /\ UNCHANGED first

\* The entry e continues as the entry f, which was unused: another
\* participant of the same community, or another number of the metering
\* point.
Continue(e, f) ==
  /\ TenantOf[e[2]] = TenantOf[f[2]]
  /\ ~active[f] /\ first[f] = NoDate
  /\ active[e] => \A g \in Entries \ {e} : Rivals(f, g) => ~active[g]
  /\ active' = [active EXCEPT ![e] = FALSE, ![f] = active[e]]
  /\ first' = [first EXCEPT ![e] = NoDate, ![f] = first[e]]

Next == \/ \E B \in SUBSET Entries : Begin(B) \/ End(B)
        \/ \E e, f \in Entries : e # f /\ Continue(e, f)

Spec == Init /\ [][Next]_vars
=============================================================================
