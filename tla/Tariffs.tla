------------------------------ MODULE Tariffs ------------------------------
(***************************************************************************)
(* The tariffs of a community, in versions: a tariff is never changed, a   *)
(* new version of it is stored.  Billing joins members and metering points *)
(* with the versions in force (base.activetariff) by the tariff's id, so   *)
(* two of them would bill a member twice.                                  *)
(*                                                                         *)
(* A day has Quarters; a time window is [from, to) and may run over        *)
(* midnight.  Left out: the other prices and fees, and the joining fee.    *)
(***************************************************************************)
EXTENDS Naturals, FiniteSets

CONSTANTS TariffIds,      \* tariffs of the community
          Editors,        \* open forms
          Users,          \* members and metering points that may have a tariff
          MaxVersion,     \* bound: versions of a tariff
          Quarters,       \* quarter hours of a day
          Day,            \* the windows that occur, [from, to], and NoWindow
          NoWindow        \* a window that is switched off

ASSUME VersionAssumption == MaxVersion \in Nat
ASSUME QuarterAssumption == Quarters \in Nat \ {0}
ASSUME WindowAssumption ==
  /\ NoWindow \in Day
  /\ \A w \in Day \ {NoWindow} : w.from \in 0 .. Quarters - 1 /\ w.to \in 0 .. Quarters - 1

VARIABLES version,        \* version[i]: versions stored of tariff i, with [status, windows]
          form,           \* form[e]: the version an editor has open, or none
          tariffOf        \* tariffOf[u]: the tariff of a member or metering point, as a set

tariffVars == <<version, form, tariffOf>>

Versions == 0 .. MaxVersion
Newest(i) == CHOOSE v \in DOMAIN version[i] : \A w \in DOMAIN version[i] : w <= v
InForce(i) == {v \in DOMAIN version[i] : version[i][v].status = "ACTIVE"}

TariffsInit == /\ version = [i \in TariffIds |-> << >>]
               /\ form = [e \in Editors |-> {}]
               /\ tariffOf = [u \in Users |-> {}]

-----------------------------------------------------------------------------
\* (slip: a window that runs over midnight is taken for the hours between)
TimeWindowContainsDay(w, m) == IF w.from < w.to THEN m >= w.from /\ m < w.to
                               ELSE m >= w.to /\ m < w.from

TimeWindowContains(w, m) == IF w.from < w.to THEN m >= w.from /\ m < w.to
                            ELSE m >= w.from \/ m < w.to

\* Two windows overlap when the start of one lies in the other.
ValidateTimeTariff(windows) ==
  /\ \A k \in {1, 2} : windows[k] # NoWindow => windows[k].from # windows[k].to
  /\ NoWindow \notin {windows[1], windows[2]} =>
        /\ ~TimeWindowContains(windows[1], windows[2].from)
        /\ ~TimeWindowContains(windows[2], windows[1].from)

-----------------------------------------------------------------------------
\* A page lists the versions in force, or all of one tariff.
OpenTariff(e) ==
  \E i \in TariffIds : \E v \in DOMAIN version[i] :
     /\ form' = [form EXCEPT ![e] = {<<i, v>>}]
     /\ UNCHANGED <<version, tariffOf>>

New(windows) == [status |-> "ACTIVE", windows |-> windows]

Stores(i, v, windows) == [w \in DOMAIN version[i] \cup {v} |->
                            IF w = v THEN New(windows) ELSE version[i][w]]

AddNewTariff ==
  \E i \in TariffIds, windows \in Day \X Day :
     /\ version[i] = << >> /\ ValidateTimeTariff(windows)
     /\ version' = [version EXCEPT ![i] = Stores(i, 0, windows)]
     /\ UNCHANGED <<form, tariffOf>>

\* (slip: the next version is counted from those stored)
NextVersionStored(i, v) == Newest(i) + 1
NextVersion(i, v) == v + 1

\* A form is saved as the version after the one it showed; the primary key
\* refuses one that exists.  The version before is no longer in force.
SaveTariff(e) ==
  \E f \in form[e], windows \in Day \X Day :
     LET i == f[1]
         v == NextVersion(i, f[2])
     IN /\ ValidateTimeTariff(windows)
        /\ v \in Versions /\ v \notin DOMAIN version[i]
        /\ version' = [version EXCEPT ![i] =
                         [Stores(i, v, windows) EXCEPT ![v - 1].status = "INACTIVE"]]
        /\ form' = [form EXCEPT ![e] = {}]
        /\ UNCHANGED tariffOf

\* All versions are archived unless the tariff is in use.
ArchiveTariff ==
  \E i \in TariffIds :
     /\ \A u \in Users : i \notin tariffOf[u]
     /\ version' = [version EXCEPT ![i] = [v \in DOMAIN version[i] |->
                                             [version[i][v] EXCEPT !.status = "ARCHIVED"]]]
     /\ UNCHANGED <<form, tariffOf>>

\* A tariff is given to a member or a metering point whatever its status.
AssignTariff ==
  \E u \in Users, i \in TariffIds :
     /\ version[i] # << >>
     /\ tariffOf' = [tariffOf EXCEPT ![u] = {i}]
     /\ UNCHANGED <<version, form>>

\* The metering point leaves its member, or the member is deleted.
ReleaseTariff ==
  \E u \in Users : /\ tariffOf' = [tariffOf EXCEPT ![u] = {}]
                   /\ UNCHANGED <<version, form>>

TariffsNext == \/ AddNewTariff \/ ArchiveTariff \/ AssignTariff \/ ReleaseTariff
               \/ \E e \in Editors : OpenTariff(e) \/ SaveTariff(e)

TariffsSpec == TariffsInit /\ [][TariffsNext]_tariffVars

-----------------------------------------------------------------------------
\* Only the newest version of a tariff is ever in force, so that billing finds
\* at most one, whatever forms are open and whatever is archived in between.
OneInForce == \A i \in TariffIds : \A v \in InForce(i) : v = Newest(i)

\* Whoever saves a tariff has seen its newest version: of two editors with the
\* same version open the second is refused, and nothing is overwritten unseen.
NoTariffLost ==
  [][\A e \in Editors, i \in TariffIds, v \in Versions :
        <<i, v>> \in form[e] /\ form'[e] = {} => v = Newest(i)]_tariffVars

\* At every quarter hour at most one of a tariff's windows applies, although
\* only the starts of windows are compared and a window may run over midnight.
Applies(w, m) == /\ w # NoWindow
                 /\ \E n \in 0 .. Quarters - 1 : (w.from + n) % Quarters = m
                                             /\ \A l \in 0 .. n : (w.from + l) % Quarters # w.to

PricesUnambiguous ==
  \A i \in TariffIds : \A v \in DOMAIN version[i], m \in 0 .. Quarters - 1 :
     LET windows == version[i][v].windows IN ~(Applies(windows[1], m) /\ Applies(windows[2], m))
=============================================================================
