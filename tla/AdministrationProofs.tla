------------------------ MODULE AdministrationProofs ------------------------
(***************************************************************************)
(* Proofs about the parts of the administration but the members: tariffs,  *)
(* factors of participation, the settlement interval, communities, and the *)
(* cache of the list of messages, for any number of them, of editors,      *)
(* clients, registrations, requests, readers and writers; and that each    *)
(* part behaves in the administration as it does alone.                    *)
(***************************************************************************)
EXTENDS Administration, FiniteSetTheorems, WellFoundedInduction, TLAPS

-----------------------------------------------------------------------------
(* Tariffs. *)

Version == [status : {"ACTIVE", "INACTIVE", "ARCHIVED"}, windows : Day \X Day]

\* The versions of a tariff are numbered from 0 without a gap; the next one is
\* count[i].  Only the last may be in force, and a form shows one of them.
VersionsCounted(count) ==
  \A i \in TariffIds : DOMAIN version[i] = 0 .. count[i] - 1

TariffInv ==
  /\ \E count \in [TariffIds -> Nat] :
        /\ version \in [TariffIds -> UNION {[0 .. n - 1 -> Version] : n \in Nat}]
        /\ VersionsCounted(count)
        /\ \A i \in TariffIds : \A v \in InForce(i) : v = count[i] - 1
  /\ form \in [Editors -> SUBSET (TariffIds \X Nat)]
  /\ \A e \in Editors : \A f, g \in form[e] : f = g
  /\ \A e \in Editors : \A f \in form[e] : f[2] \in DOMAIN version[f[1]]

LEMMA NewestCounted ==
  ASSUME NEW i, NEW n \in Nat \ {0}, DOMAIN version[i] = 0 .. n - 1
  PROVE  Newest(i) = n - 1
<1>1. n - 1 \in DOMAIN version[i] /\ \A w \in DOMAIN version[i] : w <= n - 1
  OBVIOUS
<1>2. \A v \in DOMAIN version[i] : (\A w \in DOMAIN version[i] : w <= v) => v = n - 1
  BY <1>1
<1> QED
  BY <1>1, <1>2 DEF Newest

\* The steps that add nothing to the versions.
LEMMA TariffInitially == TariffsInit => TariffInv
<1> SUFFICES ASSUME TariffsInit PROVE TariffInv
  OBVIOUS
<1> DEFINE count == [i \in TariffIds |-> 0]
<1>1. << >> \in [0 .. 0 - 1 -> Version] /\ DOMAIN << >> = 0 .. 0 - 1
  OBVIOUS
<1>2. \A i \in TariffIds : version[i] = << >>
  BY DEF TariffsInit
<1>3. version \in [TariffIds -> UNION {[0 .. n - 1 -> Version] : n \in Nat}]
  BY <1>1 DEF TariffsInit
<1>4. VersionsCounted(count) /\ \A i \in TariffIds : \A v \in InForce(i) : v = count[i] - 1
  BY <1>1, <1>2 DEF VersionsCounted, InForce
<1>5. count \in [TariffIds -> Nat]
  OBVIOUS
<1>6. /\ form \in [Editors -> SUBSET (TariffIds \X Nat)]
      /\ \A e \in Editors : form[e] = {}
  BY DEF TariffsInit
<1> HIDE DEF count
<1> QED
  BY <1>3, <1>4, <1>5, <1>6 DEF TariffInv

\* A tariff with a first version, or one with a further one.
LEMMA VersionAdded ==
  ASSUME TariffInv, NEW i \in TariffIds, NEW n \in Nat, DOMAIN version[i] = 0 .. n - 1,
         NEW versions \in [0 .. n -> Version],
         \A v \in 0 .. n : versions[v].status = "ACTIVE" => v = n,
         version' = [version EXCEPT ![i] = versions],
         form' \in [Editors -> SUBSET (TariffIds \X Nat)],
         \A e \in Editors : form'[e] \subseteq form[e]
  PROVE  TariffInv'
<1>1. PICK count \in [TariffIds -> Nat] :
        /\ version \in [TariffIds -> UNION {[0 .. k - 1 -> Version] : k \in Nat}]
        /\ VersionsCounted(count)
        /\ \A j \in TariffIds : \A v \in InForce(j) : v = count[j] - 1
  BY DEF TariffInv
<1> DEFINE counted == [count EXCEPT ![i] = n + 1]
<1>2. counted \in [TariffIds -> Nat]
  BY <1>1
<1>3. versions \in UNION {[0 .. k - 1 -> Version] : k \in Nat}
  <2>1. n + 1 \in Nat /\ 0 .. (n + 1) - 1 = 0 .. n
    OBVIOUS
  <2> QED
    BY <2>1
<1>4. version' \in [TariffIds -> UNION {[0 .. k - 1 -> Version] : k \in Nat}]
  BY <1>1, <1>3
<1>5. version'[i] = versions /\ \A j \in TariffIds \ {i} : version'[j] = version[j]
  BY <1>1
<1>6. counted[i] = n + 1 /\ \A j \in TariffIds \ {i} : counted[j] = count[j]
  BY <1>1
<1> HIDE DEF counted
<1>7. \A j \in TariffIds : DOMAIN version'[j] = 0 .. counted[j] - 1
  BY <1>1, <1>5, <1>6 DEF VersionsCounted
<1>8. \A j \in TariffIds : \A v \in InForce(j)' : v = counted[j] - 1
  BY <1>1, <1>5, <1>6 DEF InForce
<1>9. \A e \in Editors : \A f \in form'[e] : f[2] \in DOMAIN version'[f[1]]
  <2>1. SUFFICES ASSUME NEW e \in Editors, NEW f \in form'[e]
                 PROVE  f[2] \in DOMAIN version'[f[1]]
    OBVIOUS
  <2>2. f \in form[e] /\ f \in TariffIds \X Nat
    BY <2>1
  <2>3. f[2] \in DOMAIN version[f[1]] /\ f[1] \in TariffIds
    BY <2>2 DEF TariffInv
  <2>4. CASE f[1] = i
    BY <1>5, <2>3, <2>4
  <2>5. CASE f[1] # i
    BY <1>5, <2>3, <2>5
  <2> QED
    BY <2>4, <2>5
<1> QED
  BY <1>2, <1>4, <1>7, <1>8, <1>9 DEF TariffInv, VersionsCounted

\* What the versions of one tariff are.
LEMMA VersionsOf ==
  ASSUME TariffInv, NEW i \in TariffIds
  PROVE  \E n \in Nat : /\ DOMAIN version[i] = 0 .. n - 1
                        /\ version[i] \in [0 .. n - 1 -> Version]
                        /\ \A v \in 0 .. n - 1 : version[i][v].status = "ACTIVE" => v = n - 1
<1>1. PICK count \in [TariffIds -> Nat] :
        /\ version \in [TariffIds -> UNION {[0 .. k - 1 -> Version] : k \in Nat}]
        /\ VersionsCounted(count)
        /\ \A j \in TariffIds : \A v \in InForce(j) : v = count[j] - 1
  BY DEF TariffInv
<1>2. PICK k \in Nat : version[i] \in [0 .. k - 1 -> Version]
  <2>1. version[i] \in UNION {[0 .. k - 1 -> Version] : k \in Nat}
    BY <1>1
  <2> QED
    BY <2>1
<1>3. 0 .. k - 1 = 0 .. count[i] - 1 /\ count[i] \in Nat
  BY <1>1, <1>2 DEF VersionsCounted
<1>4. \A v \in 0 .. k - 1 : version[i][v].status = "ACTIVE" => v = count[i] - 1
  BY <1>1, <1>2 DEF InForce
<1> QED
  BY <1>2, <1>3, <1>4

LEMMA AddKeepsTariffs == TariffInv /\ AddNewTariff => TariffInv'
<1> SUFFICES ASSUME TariffInv, AddNewTariff PROVE TariffInv'
  OBVIOUS
<1>1. PICK i \in TariffIds, windows \in Day \X Day :
        /\ version[i] = << >>
        /\ version' = [version EXCEPT ![i] = Stores(i, 0, windows)] /\ UNCHANGED form
  BY DEF AddNewTariff
<1>2. DOMAIN version[i] = 0 .. 0 - 1
  BY <1>1
<1> DEFINE versions == Stores(i, 0, windows)
<1>3. versions \in [0 .. 0 -> Version] /\ \A v \in 0 .. 0 : versions[v].status = "ACTIVE" => v = 0
  BY <1>2 DEF Stores, New, Version
<1>4. form' \in [Editors -> SUBSET (TariffIds \X Nat)] /\ \A e \in Editors : form'[e] \subseteq form[e]
  BY <1>1 DEF TariffInv
<1> HIDE DEF versions
<1> QED
  BY <1>1, <1>2, <1>3, <1>4, VersionAdded DEF versions

\* Saving: the form showed the newest version, or the key refuses the next.
LEMMA SavedVersion ==
  ASSUME TariffInv, NEW e \in Editors, NEW f \in form[e],
         NextVersion(f[1], f[2]) \notin DOMAIN version[f[1]]
  PROVE  \E n \in Nat : /\ f[1] \in TariffIds /\ f[2] = n - 1
                        /\ n # 0
                        /\ DOMAIN version[f[1]] = 0 .. n - 1
                        /\ version[f[1]] \in [0 .. n - 1 -> Version]
                        /\ \A v \in 0 .. n - 1 : version[f[1]][v].status = "ACTIVE" => v = n - 1
<1>1. f[1] \in TariffIds /\ f[2] \in Nat /\ f[2] \in DOMAIN version[f[1]]
  BY DEF TariffInv
<1>2. PICK n \in Nat : /\ DOMAIN version[f[1]] = 0 .. n - 1
                       /\ version[f[1]] \in [0 .. n - 1 -> Version]
                       /\ \A v \in 0 .. n - 1 : version[f[1]][v].status = "ACTIVE" => v = n - 1
  BY <1>1, VersionsOf
<1>3. f[2] = n - 1 /\ n # 0
  BY <1>1, <1>2 DEF NextVersion
<1> QED
  BY <1>1, <1>2, <1>3

LEMMA SaveKeepsTariffs ==
  ASSUME TariffInv, NEW e \in Editors, SaveTariff(e)
  PROVE  TariffInv'
<1>1. PICK f \in form[e], windows \in Day \X Day :
        LET i == f[1]
            v == NextVersion(i, f[2])
        IN /\ v \notin DOMAIN version[i]
           /\ version' = [version EXCEPT ![i] = [Stores(i, v, windows) EXCEPT ![v - 1].status = "INACTIVE"]]
           /\ form' = [form EXCEPT ![e] = {}]
  BY DEF SaveTariff
<1>2. PICK n \in Nat : /\ f[1] \in TariffIds /\ f[2] = n - 1
                       /\ n # 0
                       /\ DOMAIN version[f[1]] = 0 .. n - 1
                       /\ version[f[1]] \in [0 .. n - 1 -> Version]
                       /\ \A v \in 0 .. n - 1 : version[f[1]][v].status = "ACTIVE" => v = n - 1
  BY <1>1, SavedVersion
<1> DEFINE i == f[1]
           versions == [Stores(i, n, windows) EXCEPT ![n - 1].status = "INACTIVE"]
<1>3. version' = [version EXCEPT ![i] = versions]
  <2>1. NextVersion(f[1], f[2]) = n
    BY <1>2 DEF NextVersion
  <2> QED
    BY <1>1, <2>1
<1>4. Stores(i, n, windows) \in [0 .. n -> Version]
  <2>1. (0 .. n - 1) \cup {n} = 0 .. n
    OBVIOUS
  <2>2. New(windows) \in Version
    BY DEF New, Version
  <2> QED
    BY <1>2, <2>1, <2>2 DEF Stores
<1>5. \A v \in 0 .. n : v # n => Stores(i, n, windows)[v] = version[i][v]
  BY <1>2 DEF Stores
<1>6. versions \in [0 .. n -> Version]
  BY <1>2, <1>4 DEF Version
<1>7. versions[n - 1].status = "INACTIVE"
  BY <1>2, <1>4 DEF Version
<1>8. \A v \in 0 .. n : v \notin {n, n - 1} => versions[v] = version[i][v]
  BY <1>2, <1>4, <1>5
<1>9. \A v \in 0 .. n : versions[v].status = "ACTIVE" => v = n
  <2> SUFFICES ASSUME NEW v \in 0 .. n, versions[v].status = "ACTIVE", v # n PROVE FALSE
    OBVIOUS
  <2>1. v # n - 1
    BY <1>7
  <2>2. version[i][v].status = "ACTIVE" /\ v \in 0 .. n - 1
    BY <1>2, <1>8, <2>1
  <2> QED
    BY <1>2, <2>1, <2>2
<1>10. form' \in [Editors -> SUBSET (TariffIds \X Nat)] /\ \A g \in Editors : form'[g] \subseteq form[g]
  BY <1>1 DEF TariffInv
<1> HIDE DEF versions
<1> QED
  BY <1>2, <1>3, <1>6, <1>9, <1>10, VersionAdded

LEMMA ArchiveKeepsTariffs == TariffInv /\ ArchiveTariff => TariffInv'
<1> SUFFICES ASSUME TariffInv, ArchiveTariff PROVE TariffInv'
  OBVIOUS
<1>1. PICK i \in TariffIds :
        /\ version' = [version EXCEPT ![i] = [v \in DOMAIN version[i] |->
                                                [version[i][v] EXCEPT !.status = "ARCHIVED"]]]
        /\ UNCHANGED form
  BY DEF ArchiveTariff
<1>2. PICK count \in [TariffIds -> Nat] :
        /\ version \in [TariffIds -> UNION {[0 .. k - 1 -> Version] : k \in Nat}]
        /\ VersionsCounted(count)
        /\ \A j \in TariffIds : \A v \in InForce(j) : v = count[j] - 1
  BY DEF TariffInv
<1> DEFINE versions == [v \in DOMAIN version[i] |-> [version[i][v] EXCEPT !.status = "ARCHIVED"]]
<1>3. PICK k \in Nat : version[i] \in [0 .. k - 1 -> Version]
  <2>1. version[i] \in UNION {[0 .. k - 1 -> Version] : k \in Nat}
    BY <1>2
  <2> QED
    BY <2>1
<1>4. versions \in [0 .. k - 1 -> Version] /\ \A v \in DOMAIN versions : versions[v].status = "ARCHIVED"
  BY <1>3 DEF Version
<1>5. DOMAIN versions = DOMAIN version[i]
  OBVIOUS
<1>6. version'[i] = versions /\ \A j \in TariffIds \ {i} : version'[j] = version[j]
  BY <1>1, <1>2
<1> HIDE DEF versions
<1>7. version' \in [TariffIds -> UNION {[0 .. n - 1 -> Version] : n \in Nat}]
  <2>1. versions \in UNION {[0 .. n - 1 -> Version] : n \in Nat}
    BY <1>4
  <2> QED
    BY <1>1, <1>2, <2>1 DEF versions
<1>8. \A j \in TariffIds : DOMAIN version'[j] = DOMAIN version[j]
  BY <1>5, <1>6
<1>9. \A j \in TariffIds : \A v \in InForce(j)' : v = count[j] - 1
  BY <1>2, <1>4, <1>6 DEF InForce
<1>10. VersionsCounted(count)'
  BY <1>2, <1>8 DEF VersionsCounted
<1>11. /\ form' \in [Editors -> SUBSET (TariffIds \X Nat)]
       /\ \A e \in Editors : \A f, g \in form'[e] : f = g
       /\ \A e \in Editors : \A f \in form'[e] : f[2] \in DOMAIN version'[f[1]]
  <2>1. \A e \in Editors : \A f \in form[e] : f[1] \in TariffIds
    BY DEF TariffInv
  <2> QED
    BY <1>1, <1>8, <2>1 DEF TariffInv
<1> QED
  BY <1>7, <1>9, <1>10, <1>11 DEF TariffInv

LEMMA TariffStep == TariffInv /\ [TariffsNext]_tariffVars => TariffInv'
<1> SUFFICES ASSUME TariffInv, [TariffsNext]_tariffVars PROVE TariffInv'
  OBVIOUS
<1>1. CASE \E e \in Editors : OpenTariff(e)
  <2>1. PICK e \in Editors, i \in TariffIds : \E v \in DOMAIN version[i] :
           /\ form' = [form EXCEPT ![e] = {<<i, v>>}] /\ UNCHANGED version
    BY <1>1 DEF OpenTariff
  <2>2. PICK v \in DOMAIN version[i] : form' = [form EXCEPT ![e] = {<<i, v>>}] /\ UNCHANGED version
    BY <2>1
  <2>3. v \in Nat
    <3>1. PICK n \in Nat : DOMAIN version[i] = 0 .. n - 1
      BY VersionsOf
    <3> QED
      BY <3>1
  <2>4. form' \in [Editors -> SUBSET (TariffIds \X Nat)]
    BY <2>2, <2>3 DEF TariffInv
  <2>5. \A g \in Editors : form'[g] = IF g = e THEN {<<i, v>>} ELSE form[g]
    BY <2>2 DEF TariffInv
  <2>6. \A g \in Editors : \A f \in form'[g] : f[2] \in DOMAIN version[f[1]]
    <3>1. <<i, v>>[2] \in DOMAIN version[<<i, v>>[1]]
      OBVIOUS
    <3>2. \A g \in Editors : \A f \in form[g] : f[2] \in DOMAIN version[f[1]]
      BY DEF TariffInv
    <3> QED
      BY <2>5, <3>1, <3>2
  <2>7. \A g \in Editors : \A f, h \in form'[g] : f = h
    BY <2>5 DEF TariffInv
  <2>8. \E count \in [TariffIds -> Nat] :
           /\ version' \in [TariffIds -> UNION {[0 .. n - 1 -> Version] : n \in Nat}]
           /\ VersionsCounted(count)'
           /\ \A j \in TariffIds : \A w \in InForce(j)' : w = count[j] - 1
    BY <2>2 DEF TariffInv, VersionsCounted, InForce
  <2> QED
    BY <2>2, <2>4, <2>6, <2>7, <2>8 DEF TariffInv
<1>2. CASE UNCHANGED <<version, form>>
  BY <1>2 DEF TariffInv, VersionsCounted, InForce
<1> QED
  BY <1>1, <1>2, AddKeepsTariffs, SaveKeepsTariffs, ArchiveKeepsTariffs
     DEF TariffsNext, AssignTariff, ReleaseTariff, tariffVars

LEMMA TariffInvariance == TariffsSpec => []TariffInv
BY TariffInitially, TariffStep, PTL DEF TariffsSpec

\* Billing finds at most one version of a tariff in force, the newest, although
\* forms are saved late, archived tariffs are saved again, and two editors save
\* the same one.
THEOREM NewestInForce == TariffsSpec => []OneInForce
<1>1. TariffInv => OneInForce
  <2> SUFFICES ASSUME TariffInv, NEW i \in TariffIds, NEW v \in InForce(i) PROVE v = Newest(i)
    BY DEF OneInForce
  <2>1. PICK n \in Nat : /\ DOMAIN version[i] = 0 .. n - 1
                         /\ \A w \in 0 .. n - 1 : version[i][w].status = "ACTIVE" => w = n - 1
    BY VersionsOf
  <2>2. v = n - 1 /\ n # 0
    BY <2>1 DEF InForce
  <2> QED
    BY <2>1, <2>2, NewestCounted
<1> QED
  BY <1>1, TariffInvariance, PTL

\* A step that closes a form: it showed the newest version.
SavedSeen == \A e \in Editors, i \in TariffIds, v \in Versions :
                <<i, v>> \in form[e] /\ form'[e] = {} => v = Newest(i)

LEMMA SavedSeenStep == TariffInv /\ [TariffsNext]_tariffVars => [SavedSeen]_tariffVars
<1> SUFFICES ASSUME TariffInv, TariffsNext,
                    NEW e \in Editors, NEW i \in TariffIds, NEW v \in Versions,
                    <<i, v>> \in form[e], form'[e] = {}
             PROVE  v = Newest(i)
  BY DEF SavedSeen
<1>1. CASE \E g \in Editors : SaveTariff(g)
  <2>1. PICK g \in Editors : SaveTariff(g)
    BY <1>1
  <2>2. PICK f \in form[g] : /\ NextVersion(f[1], f[2]) \notin DOMAIN version[f[1]]
                             /\ form' = [form EXCEPT ![g] = {}]
    BY <2>1 DEF SaveTariff
  <2>3. g = e
    BY <2>2 DEF TariffInv
  <2>4. PICK n \in Nat : /\ f[2] = n - 1 /\ n # 0 /\ DOMAIN version[f[1]] = 0 .. n - 1
    BY <2>2, SavedVersion
  <2>5. f = <<i, v>>
    BY <2>2, <2>3 DEF TariffInv
  <2> QED
    BY <2>4, <2>5, NewestCounted
<1>2. CASE \E g \in Editors : OpenTariff(g)
  <2>1. PICK g \in Editors, j \in TariffIds : \E w \in DOMAIN version[j] : form' = [form EXCEPT ![g] = {<<j, w>>}]
    BY <1>2 DEF OpenTariff
  <2>2. PICK w \in DOMAIN version[j] : form' = [form EXCEPT ![g] = {<<j, w>>}]
    BY <2>1
  <2>3. FALSE
    BY <2>2 DEF TariffInv
  <2> QED
    BY <2>3
<1>3. CASE AddNewTariff \/ ArchiveTariff \/ AssignTariff \/ ReleaseTariff
  BY <1>3 DEF AddNewTariff, ArchiveTariff, AssignTariff, ReleaseTariff
<1> QED
  BY <1>1, <1>2, <1>3 DEF TariffsNext

LEMMA SavedSeenInvariance == TariffsSpec => [][SavedSeen]_tariffVars
<1>1. TariffInv /\ [TariffsNext]_tariffVars => [SavedSeen]_tariffVars
  BY SavedSeenStep
<1> QED
  BY <1>1, TariffInvariance, PTL DEF TariffsSpec

\* Of two editors with the same version open, the second is refused.
THEOREM NoTariffOverwritten == TariffsSpec => NoTariffLost
BY SavedSeenInvariance DEF NoTariffLost, SavedSeen

-----------------------------------------------------------------------------
(* The prices of a tariff. *)

\* Quarter hours after midnight.
LEMMA Wrapped ==
  ASSUME NEW a \in Nat, a < 2 * Quarters
  PROVE  a % Quarters = IF a < Quarters THEN a ELSE a - Quarters
<1>1. Quarters \in Nat \ {0}
  BY QuarterAssumption
<1>2. CASE a < Quarters
  BY <1>1, <1>2
<1>3. CASE a >= Quarters
  BY <1>1, <1>3
<1> QED
  BY <1>1, <1>2, <1>3

\* Counting the quarter hours of a window one after the other, over midnight
\* too, finds no other than the comparison of its ends.
LEMMA AppliesIsContained ==
  ASSUME NEW w \in Day, NEW m \in 0 .. Quarters - 1, Applies(w, m), w.from # w.to
  PROVE  TimeWindowContains(w, m)
<1>1. /\ Quarters \in Nat \ {0}
      /\ w.from \in 0 .. Quarters - 1 /\ w.to \in 0 .. Quarters - 1
  BY QuarterAssumption, WindowAssumption DEF Applies
<1>2. PICK n \in 0 .. Quarters - 1 : /\ (w.from + n) % Quarters = m
                                     /\ \A l \in 0 .. n : (w.from + l) % Quarters # w.to
  BY DEF Applies
<1> DEFINE a == w.from
           b == w.to
           k == IF a < b THEN b - a ELSE b - a + Quarters
<1>3. k \in 0 .. Quarters - 1 /\ a + k < 2 * Quarters /\ a + k \in Nat
  BY <1>1
<1>4. (a + k) % Quarters = b
  <2>1. CASE a < b
    BY <1>1, <1>3, <2>1, Wrapped
  <2>2. CASE ~(a < b)
    BY <1>1, <1>3, <2>2, Wrapped
  <2> QED
    BY <2>1, <2>2
<1>5. n < k
  BY <1>2, <1>3, <1>4
<1>6. m = IF a + n < Quarters THEN a + n ELSE a + n - Quarters
  BY <1>1, <1>2, Wrapped
<1> QED
  BY <1>1, <1>2, <1>5, <1>6 DEF TimeWindowContains

\* Two windows that share a quarter hour contain the start of one of them.
LEMMA ApartIfStartsAre ==
  ASSUME NEW windows \in Day \X Day, ValidateTimeTariff(windows),
         NEW m \in 0 .. Quarters - 1, Applies(windows[1], m), Applies(windows[2], m)
  PROVE  FALSE
<1> DEFINE v == windows[1]
           w == windows[2]
<1>1. v \in Day \ {NoWindow} /\ w \in Day \ {NoWindow}
  BY DEF Applies
<1>2. v.from # v.to /\ w.from # w.to
  BY <1>1 DEF ValidateTimeTariff
<1>3. TimeWindowContains(v, m) /\ TimeWindowContains(w, m)
  BY <1>1, <1>2, AppliesIsContained
<1>4. ~TimeWindowContains(v, w.from) /\ ~TimeWindowContains(w, v.from)
  BY <1>1 DEF ValidateTimeTariff
<1>5. /\ v.from \in Nat /\ v.to \in Nat /\ w.from \in Nat /\ w.to \in Nat /\ m \in Nat
  BY <1>1, QuarterAssumption, WindowAssumption
<1> HIDE DEF v, w
<1> QED
  BY <1>2, <1>3, <1>4, <1>5 DEF TimeWindowContains

\* Nothing but a form that was checked writes windows.
WindowsChecked ==
  \A i \in TariffIds : \A v \in DOMAIN version[i] : ValidateTimeTariff(version[i][v].windows)

LEMMA WindowsStayChecked ==
  ASSUME TariffInv, WindowsChecked, [TariffsNext]_tariffVars
  PROVE  WindowsChecked'
<1>a. WindowsChecked' <=>
        \A i \in TariffIds : \A v \in DOMAIN version'[i] : ValidateTimeTariff(version'[i][v].windows)
  BY DEF WindowsChecked, ValidateTimeTariff, TimeWindowContains
<1>1. CASE AddNewTariff
  <2>1. PICK i \in TariffIds, windows \in Day \X Day :
          /\ version[i] = << >> /\ ValidateTimeTariff(windows)
          /\ version' = [version EXCEPT ![i] = Stores(i, 0, windows)]
    BY <1>1 DEF AddNewTariff
  <2>2. \A j \in TariffIds : version'[j] = IF j = i THEN Stores(i, 0, windows) ELSE version[j]
    BY <2>1 DEF TariffInv
  <2>3. DOMAIN Stores(i, 0, windows) = {0} /\ Stores(i, 0, windows)[0].windows = windows
    BY <2>1 DEF Stores, New
  <2> QED
    BY <1>a, <2>1, <2>2, <2>3 DEF WindowsChecked
<1>2. ASSUME NEW e \in Editors, SaveTariff(e)
      PROVE  WindowsChecked'
  <2>1. PICK f \in form[e], windows \in Day \X Day :
          /\ ValidateTimeTariff(windows)
          /\ NextVersion(f[1], f[2]) \notin DOMAIN version[f[1]]
          /\ version' = [version EXCEPT ![f[1]] =
                  [Stores(f[1], NextVersion(f[1], f[2]), windows) EXCEPT ![NextVersion(f[1], f[2]) - 1].status = "INACTIVE"]]
    BY <1>2 DEF SaveTariff
  <2> DEFINE i == f[1]
  <2>2. PICK n \in Nat : /\ i \in TariffIds /\ f[2] = n - 1 /\ n # 0
                         /\ DOMAIN version[i] = 0 .. n - 1
                         /\ version[i] \in [0 .. n - 1 -> Version]
    BY <2>1, SavedVersion
  <2>3. NextVersion(i, f[2]) = n
    BY <2>2 DEF NextVersion
  <2> DEFINE stored == Stores(i, n, windows)
             versions == [stored EXCEPT ![n - 1].status = "INACTIVE"]
  <2>4. \A j \in TariffIds : version'[j] = IF j = i THEN versions ELSE version[j]
    <3>1. version' = [version EXCEPT ![i] = versions]
      BY <2>1, <2>3
    <3> QED
      BY <3>1 DEF TariffInv
  <2>5. /\ stored \in [0 .. n -> Version] /\ stored[n].windows = windows
        /\ \A v \in 0 .. n - 1 : stored[v] = version[i][v]
    <3>1. (0 .. n - 1) \cup {n} = 0 .. n
      OBVIOUS
    <3>2. New(windows) \in Version /\ New(windows).windows = windows
      BY DEF New, Version
    <3> QED
      BY <2>2, <3>1, <3>2 DEF Stores
  <2>6. DOMAIN versions = 0 .. n /\ \A v \in 0 .. n : versions[v].windows = stored[v].windows
    <3>1. n - 1 \in 0 .. n
      BY <2>2
    <3> QED
      BY <2>5, <3>1 DEF Version
  <2> HIDE DEF versions, stored
  <2>7. \A v \in 0 .. n : ValidateTimeTariff(versions[v].windows)
    <3> SUFFICES ASSUME NEW v \in 0 .. n PROVE ValidateTimeTariff(versions[v].windows)
      OBVIOUS
    <3>1. CASE v = n
      BY <2>1, <2>5, <2>6, <3>1
    <3>2. CASE v # n
      <4>1. v \in DOMAIN version[i]
        BY <2>2, <3>2
      <4>2. versions[v].windows = version[i][v].windows
        BY <2>2, <2>5, <2>6, <4>1
      <4> QED
        BY <2>2, <4>1, <4>2 DEF WindowsChecked
    <3> QED
      BY <3>1, <3>2
  <2> QED
    BY <1>a, <2>4, <2>6, <2>7 DEF WindowsChecked
<1>3. CASE ArchiveTariff
  <2>1. PICK i \in TariffIds :
          version' = [version EXCEPT ![i] = [v \in DOMAIN version[i] |->
                                                [version[i][v] EXCEPT !.status = "ARCHIVED"]]]
    BY <1>3 DEF ArchiveTariff
  <2>2. PICK n \in Nat : version[i] \in [0 .. n - 1 -> Version]
    BY VersionsOf
  <2>3. /\ DOMAIN version'[i] = DOMAIN version[i]
        /\ \A v \in DOMAIN version[i] : version'[i][v].windows = version[i][v].windows
        /\ \A j \in TariffIds : j # i => version'[j] = version[j]
    BY <2>1, <2>2 DEF TariffInv, Version
  <2>4. \A j \in TariffIds : \A v \in DOMAIN version'[j] :
           v \in DOMAIN version[j] /\ version'[j][v].windows = version[j][v].windows
    BY <2>3
  <2> QED
    BY <1>a, <2>4 DEF WindowsChecked
<1>4. CASE UNCHANGED version
  BY <1>4, <1>a DEF WindowsChecked
<1> QED
  BY <1>1, <1>2, <1>3, <1>4 DEF TariffsNext, OpenTariff, AssignTariff, ReleaseTariff, tariffVars

\* At no quarter hour two prices of a tariff apply, in any version that was
\* ever stored, although only the starts of its windows are compared.
THEOREM OnePriceAtATime == TariffsSpec => []PricesUnambiguous
<1>1. TariffsInit => WindowsChecked
  BY DEF TariffsInit, WindowsChecked
<1>2. TariffInv /\ WindowsChecked => PricesUnambiguous
  <2> SUFFICES ASSUME TariffInv, WindowsChecked, NEW i \in TariffIds, NEW v \in DOMAIN version[i],
                      NEW m \in 0 .. Quarters - 1,
                      Applies(version[i][v].windows[1], m), Applies(version[i][v].windows[2], m)
               PROVE  FALSE
    BY DEF PricesUnambiguous
  <2>1. version[i][v].windows \in Day \X Day
    BY VersionsOf DEF Version
  <2>2. ValidateTimeTariff(version[i][v].windows)
    BY DEF WindowsChecked
  <2> QED
    BY <2>1, <2>2, ApartIfStartsAre
<1>3. TariffInv /\ WindowsChecked /\ [TariffsNext]_tariffVars => WindowsChecked'
  BY WindowsStayChecked
<1> QED
  BY <1>1, <1>2, <1>3, TariffInvariance, PTL DEF TariffsSpec

-----------------------------------------------------------------------------
(* Factors of participation. *)

FactorsTyped ==
  /\ entry \in [Meters -> [Owners -> {"none", "new", "active", "over", "former"}]]
  /\ DOMAIN share = Meters /\ share = [x \in Meters |-> share[x]]
  /\ \A x \in Meters : DOMAIN share[x] = Owners /\ share[x] = [m \in Owners |-> share[x][m]]
  /\ saving \subseteq Meters \X Owners \X Shares

\* The steps that concern one entry, of one member or of two.
EntryStep == \E x \in Meters, m \in Owners :
  \/ RegisterEntry(x, m) \/ EndEntry(x, m) \/ ArchiveEntry(x, m) \/ RemoveEntry(x, m)
  \/ \E n \in Owners : MoveEntry(x, m, n)

LEMMA EntryStepTyped == FactorsTyped /\ EntryStep => FactorsTyped'
<1> SUFFICES ASSUME FactorsTyped, NEW x \in Meters, NEW m \in Owners,
                    \/ RegisterEntry(x, m) \/ EndEntry(x, m) \/ ArchiveEntry(x, m) \/ RemoveEntry(x, m)
                    \/ \E n \in Owners : MoveEntry(x, m, n)
             PROVE  FactorsTyped'
  BY DEF EntryStep
<1> USE DEF FactorsTyped
<1>1. CASE RegisterEntry(x, m)
  <2>1. PICK f \in Shares : share' = [share EXCEPT ![x][m] = f] /\ UNCHANGED saving
    BY <1>1 DEF RegisterEntry
  <2>2. entry' = [entry EXCEPT ![x] = [n \in Owners |-> IF n = m THEN "new"
                                         ELSE IF n \in Current(x) THEN "former" ELSE @[n]]]
    BY <1>1 DEF RegisterEntry
  <2>3. entry' \in [Meters -> [Owners -> {"none", "new", "active", "over", "former"}]]
    BY <2>2
  <2> QED
    BY <2>1, <2>3
<1>2. CASE EndEntry(x, m)
  BY <1>2 DEF EndEntry
<1>3. CASE ArchiveEntry(x, m)
  BY <1>3 DEF ArchiveEntry
<1>4. CASE RemoveEntry(x, m)
  BY <1>4 DEF RemoveEntry
<1>5. ASSUME NEW n \in Owners, MoveEntry(x, m, n)
      PROVE  FactorsTyped'
  BY <1>5 DEF MoveEntry
<1> QED
  BY <1>1, <1>2, <1>3, <1>4, <1>5

LEMMA FactorsStepTyped == FactorsTyped /\ [FactorsNext]_factorVars => FactorsTyped'
<1> SUFFICES ASSUME FactorsTyped, [FactorsNext]_factorVars PROVE FactorsTyped'
  OBVIOUS
<1>1. CASE ListUpdates
  BY <1>1 DEF ListUpdates, FactorsTyped
<1>2. CASE BeginFactorForm
  BY <1>2 DEF BeginFactorForm, FactorsTyped
<1>3. CASE SaveFactorForm
  BY <1>3 DEF SaveFactorForm, MeteringPointChangePartFactor, FactorsTyped
<1>4. CASE EcPrtChange
  BY <1>4 DEF EcPrtChange, MeteringPointChangePartFactor, FactorsTyped
<1>5. CASE UNCHANGED <<entry, share, saving>>
  BY <1>5 DEF FactorsTyped
<1> QED
  BY <1>1, <1>2, <1>3, <1>4, <1>5, EntryStepTyped
     DEF FactorsNext, EntryStep, RequestChangePartitionFactor, factorVars

FormerFactorStays ==
  \A x \in Meters, m \in Owners :
     entry[x][m] = "former" /\ entry'[x][m] = "former" /\ share'[x][m] # share[x][m] =>
        <<x, m, share'[x][m]>> \in saving \ saving'

\* What is done to an entry leaves the factors of the others.
LEMMA EntryStepSparesFormer == FactorsTyped /\ EntryStep => FormerFactorStays
<1> SUFFICES ASSUME FactorsTyped, NEW x \in Meters, NEW m \in Owners,
                    \/ RegisterEntry(x, m) \/ EndEntry(x, m) \/ ArchiveEntry(x, m) \/ RemoveEntry(x, m)
                    \/ \E n \in Owners : MoveEntry(x, m, n),
                    NEW y \in Meters, NEW o \in Owners,
                    entry[y][o] = "former", entry'[y][o] = "former"
             PROVE  share'[y][o] = share[y][o]
  BY DEF EntryStep, FormerFactorStays
<1> USE DEF FactorsTyped
<1>1. CASE RegisterEntry(x, m)
  BY <1>1 DEF RegisterEntry
<1>2. CASE EndEntry(x, m) \/ ArchiveEntry(x, m)
  BY <1>2 DEF EndEntry, ArchiveEntry
<1>3. CASE RemoveEntry(x, m)
  BY <1>3 DEF RemoveEntry
<1>4. ASSUME NEW n \in Owners, MoveEntry(x, m, n)
      PROVE  share'[y][o] = share[y][o]
  BY <1>4 DEF MoveEntry
<1> QED
  BY <1>1, <1>2, <1>3, <1>4

LEMMA FactorsStep == FactorsTyped /\ [FactorsNext]_factorVars => [FormerFactorStays]_factorVars
<1> SUFFICES ASSUME FactorsTyped, FactorsNext PROVE FormerFactorStays
  OBVIOUS
<1>1. \A x \in Meters, m \in Owners : entry[x][m] = "former" => m \notin Current(x)
  BY DEF Current
<1>2. CASE ListUpdates
  BY <1>1, <1>2 DEF ListUpdates, FormerFactorStays
<1>3. CASE EcPrtChange
  BY <1>1, <1>3 DEF EcPrtChange, MeteringPointChangePartFactor, Addressed, FormerFactorStays
<1>4. CASE SaveFactorForm
  <2>1. PICK s \in saving :
          /\ MeteringPointChangePartFactor([x \in {s[1]} |-> s[3]], {s[2]})
          /\ saving' = saving \ {s}
    BY <1>4 DEF SaveFactorForm
  <2>2. s = <<s[1], s[2], s[3]>>
    BY DEF FactorsTyped
  <2>3. ASSUME NEW x \in Meters, NEW m \in Owners, share'[x][m] # share[x][m]
        PROVE  x = s[1] /\ m = s[2] /\ share'[x][m] = s[3]
    <3>1. {s[2]} # {}
      OBVIOUS
    <3> QED
      BY <2>1, <2>3, <3>1 DEF MeteringPointChangePartFactor, Addressed
  <2> QED
    BY <2>1, <2>2, <2>3 DEF FormerFactorStays
<1>5. CASE UNCHANGED share
  BY <1>5 DEF FormerFactorStays
<1> QED
  BY <1>2, <1>3, <1>4, <1>5, EntryStepSparesFormer
     DEF FactorsNext, EntryStep, BeginFactorForm, RequestChangePartitionFactor

\* The factor of a former member's entry changes only when his own form is
\* saved, however late a grid operator answers or lists.
THEOREM HistoryKeepsFactors == FactorsSpec => FormerFactorsStay
<1>1. FactorsInit => FactorsTyped
  BY DEF FactorsInit, FactorsTyped
<1>2. FactorsTyped /\ [FactorsNext]_factorVars => [FormerFactorStays]_factorVars
  BY FactorsStep
<1>3. FormerFactorsStay <=> [][FormerFactorStays]_factorVars
  BY DEF FormerFactorsStay, FormerFactorStays
<1> QED
  BY <1>1, <1>2, <1>3, FactorsStepTyped, PTL DEF FactorsSpec

-----------------------------------------------------------------------------
(* The settlement interval. *)

\* Months have a first one, and a last one if they are bounded.
LEMMA HasFirst ==
  ASSUME NEW T \in SUBSET Nat, T # {}
  PROVE  Min(T) \in T /\ \A y \in T : Min(T) <= y
<1> DEFINE Below == {ss \in Nat \X Nat : ss[1] < ss[2]}
<1>1. IsWellFoundedOn(Below, Nat)
  BY NatLessThanWellFounded DEF OpToRel
<1>2. PICK x \in T : \A y \in T : ~(<<y, x>> \in Below)
  <2> HIDE DEF Below
  <2> QED
    BY <1>1, WFMin
<1>3. \A y \in T : ~(y < x)
  BY <1>2
<1>4. \A y \in T : x <= y
  BY <1>3
<1> QED
  BY <1>4 DEF Min

LEMMA HasLast ==
  ASSUME NEW T \in SUBSET Nat, T # {}, NEW n \in Nat, \A y \in T : y <= n
  PROVE  Max(T) \in T /\ \A y \in T : y <= Max(T)
<1> DEFINE U == {n - y : y \in T}
<1>1. U \in SUBSET Nat /\ U # {}
  <2>1. \A y \in T : n - y \in Nat
    OBVIOUS
  <2> QED
    BY <2>1
<1> HIDE DEF U
<1>2. Min(U) \in U /\ \A u \in U : Min(U) <= u
  BY <1>1, HasFirst
<1>3. PICK x \in T : Min(U) = n - x
  BY <1>2 DEF U
<1>4. \A y \in T : n - y \in U
  BY DEF U
<1>5. \A y \in T : y <= x
  BY <1>2, <1>3, <1>4
<1> QED
  BY <1>5 DEF Max

LEMMA StartOf ==
  ASSUME NEW m \in Nat, NEW length \in Nat \ {0}
  PROVE  /\ Start(m, length) \in Nat
         /\ Start(m, length) <= m /\ m < Start(m, length) + length
BY DEF Start

\* All months of a period are of the same period.
LEMMA OnePeriod ==
  ASSUME NEW m \in Nat, NEW length \in Nat \ {0}, NEW k \in MonthsOf(PeriodOf(m, length))
  PROVE  k \in Nat /\ PeriodOf(k, length) = PeriodOf(m, length)
<1> DEFINE q == m \div length
           r == k \div length
<1>1. q \in Nat /\ q * length <= m /\ m < q * length + length
  OBVIOUS
<1>2. k \in Nat /\ q * length <= k /\ k < q * length + length
  BY <1>1 DEF MonthsOf, PeriodOf, Start
<1>3. r \in Nat /\ r * length <= k /\ k < r * length + length
  BY <1>2
<1> HIDE DEF q, r
<1>4. ~(q < r)
  <2> SUFFICES ASSUME q < r PROVE q * length + length <= r * length
    BY <1>1, <1>2, <1>3
  <2> QED
    BY <1>1, <1>3
<1>5. ~(r < q)
  <2> SUFFICES ASSUME r < q PROVE r * length + length <= q * length
    BY <1>1, <1>2, <1>3
  <2> QED
    BY <1>1, <1>3
<1>6. q = r
  BY <1>1, <1>3, <1>4, <1>5
<1> QED
  BY <1>2, <1>6 DEF PeriodOf, Start, q, r

\* Where a period starts, months after it have their period after it.
LEMMA PeriodAfter ==
  ASSUME NEW length \in Nat \ {0}, NEW start \in Nat, start % length = 0, NEW m \in Nat, start <= m
  PROVE  start <= Start(m, length)
<1> DEFINE q == m \div length
           r == start \div length
<1>1. q \in Nat /\ q * length <= m /\ m < q * length + length
  OBVIOUS
<1>2. r \in Nat /\ r * length = start
  OBVIOUS
<1> HIDE DEF q, r
<1>3. ~(q < r)
  <2> SUFFICES ASSUME q < r PROVE q * length + length <= r * length
    BY <1>1, <1>2
  <2> QED
    BY <1>1, <1>2
<1>4. r * length <= q * length
  BY <1>1, <1>2, <1>3
<1> QED
  BY <1>2, <1>4 DEF Start, q

-----------------------------------------------------------------------------
IsPeriod(p) == /\ p.first \in Nat /\ p.last \in Nat
               /\ p.first <= p.last /\ p.last < Horizon

\* From start on there are only periods of the interval in force, which begin
\* there; before it every month since the first settlement is settled or named.
CleanFrom(start) ==
  /\ start % PeriodMonths[interval] = 0
  /\ \A p \in final \cup running : p.last >= start => p = PeriodOf(p.first, PeriodMonths[interval])
  /\ \A m \in Nat : since <= m /\ m < start => m \in Covered(final) \cup named

IntervalInv ==
  /\ interval \in Intervals /\ outdated \in BOOLEAN
  /\ \A p \in final \cup running : IsPeriod(p)
  /\ outdated \/ (since \in Nat /\ \E start \in Nat : CleanFrom(start))

LEMMA IntervalInitially == IntervalInit => IntervalInv
<1> SUFFICES ASSUME IntervalInit PROVE IntervalInv
  OBVIOUS
<1>1. interval \in Intervals /\ PeriodMonths[interval] \in Nat \ {0}
  BY IntervalAssumption DEF IntervalInit
<1>2. 0 % PeriodMonths[interval] = 0
  BY <1>1
<1>3. CleanFrom(0)
  BY <1>2 DEF IntervalInit, CleanFrom
<1> QED
  BY <1>1, <1>3 DEF IntervalInit, IntervalInv

\* A run is of a period of the interval in force.
LEMMA BeginKeepsClean == IntervalInv /\ BeginRun => IntervalInv'
<1> SUFFICES ASSUME IntervalInv, BeginRun PROVE IntervalInv'
  OBVIOUS
<1> DEFINE length == PeriodMonths[interval]
<1>1. length \in Nat \ {0}
  BY IntervalAssumption DEF IntervalInv
<1>2. PICK m \in 0 .. Horizon - 1 :
        /\ PeriodOf(m, length).last < Horizon
        /\ running' = running \cup {PeriodOf(m, length)}
        /\ UNCHANGED <<interval, final, since, named, outdated>>
  BY DEF BeginRun
<1> DEFINE p == PeriodOf(m, length)
<1>3. m \in Nat /\ p.first = Start(m, length) /\ p.last = Start(m, length) + length - 1
  BY <1>2, IntervalAssumption DEF PeriodOf
<1>4. IsPeriod(p) /\ p.first \in MonthsOf(p)
  <2>1. Start(m, length) \in Nat
    BY <1>1, <1>3, StartOf
  <2> HIDE DEF length
  <2>2. p.first \in Nat /\ p.last \in Nat /\ p.first <= p.last
    BY <1>1, <1>3, <2>1
  <2> QED
    BY <1>2, <2>2 DEF IsPeriod, MonthsOf
<1>5. p = PeriodOf(p.first, length)
  BY <1>1, <1>3, <1>4, OnePeriod
<1> HIDE DEF length, p
<1>6. final' \cup running' = (final \cup running) \cup {p}
  BY <1>2 DEF p
<1>7. \A start \in Nat : CleanFrom(start) => CleanFrom(start)'
  BY <1>2, <1>5, <1>6 DEF CleanFrom, length
<1> QED
  BY <1>2, <1>4, <1>6, <1>7 DEF IntervalInv, IsPeriod

LEMMA EndKeepsClean == IntervalInv /\ EndRun => IntervalInv'
<1> SUFFICES ASSUME IntervalInv, EndRun PROVE IntervalInv'
  OBVIOUS
<1>1. /\ final' \cup running' \subseteq final \cup running /\ final \subseteq final'
      /\ UNCHANGED <<interval, since, named, outdated>>
  BY DEF EndRun
<1>2. Covered(final) \subseteq Covered(final')
  BY <1>1 DEF Covered
<1>3. \A start \in Nat : CleanFrom(start) => CleanFrom(start)'
  BY <1>1, <1>2 DEF CleanFrom, Covered
<1> QED
  BY <1>1, <1>3 DEF IntervalInv, IsPeriod

\* What the rule allows on lists that are true.
LEMMA AllowedIsClean ==
  ASSUME NEW new \in Intervals, DecideSettlementInterval(new, Lists).allowed
  PROVE  LET d == DecideSettlementInterval(new, Lists) IN
         \/ final = {} /\ running = {}
         \/ /\ final # {} /\ (LastMonth(final) + 1) % PeriodMonths[new] = 0
            /\ ~RunningFrom(running, LastMonth(final) + 1)
            /\ d.older = Uncovered(final)
<1>1. Lists.final = final /\ Lists.running = running
  BY DEF Lists
<1>2. \A e : ~Blocked(e).allowed
  BY DEF Blocked
<1>3. \A f, o : Allowed(f, o).older = o
  BY DEF Allowed
<1>4. CASE final = {}
  BY <1>1, <1>2, <1>4 DEF DecideSettlementInterval
<1>5. CASE final # {} /\ Recent(final) # {}
  BY <1>1, <1>2, <1>5 DEF DecideSettlementInterval
<1>6. CASE final # {} /\ Recent(final) = {} /\ (LastMonth(final) + 1) % PeriodMonths[new] # 0
  BY <1>1, <1>2, <1>6 DEF DecideSettlementInterval
<1>7. CASE final # {} /\ Recent(final) = {} /\ (LastMonth(final) + 1) % PeriodMonths[new] = 0
  BY <1>1, <1>2, <1>3, <1>7 DEF DecideSettlementInterval
<1> QED
  BY <1>4, <1>5, <1>6, <1>7

\* The first and the last month of periods.
LEMMA LastMonths ==
  ASSUME NEW periods, periods # {}, \A p \in periods : IsPeriod(p)
  PROVE  /\ Min({p.first : p \in periods}) \in Nat /\ LastMonth(periods) \in Nat
         /\ \A p \in periods : p.last <= LastMonth(periods)
<1> DEFINE F == {p.first : p \in periods}
           L == {p.last : p \in periods}
<1>1. F \in SUBSET Nat /\ F # {} /\ L \in SUBSET Nat /\ L # {} /\ \A y \in L : y <= Horizon
  BY IntervalAssumption DEF IsPeriod
<1>2. Horizon \in Nat /\ \A p \in periods : p.last \in L
  BY IntervalAssumption
<1> HIDE DEF F, L
<1>3. Min(F) \in Nat
  BY <1>1, HasFirst
<1>4. Max(L) \in Nat /\ \A y \in L : y <= Max(L)
  BY <1>1, <1>2, HasLast
<1> QED
  BY <1>2, <1>3, <1>4 DEF LastMonth, F, L

LEMMA ChangeKeepsClean ==
  ASSUME IntervalInv, NEW c \in Pages, ChangeSettlementInterval(c)
  PROVE  IntervalInv'
<1>1. PICK new \in Intervals, lists \in page[c] :
        LET d == DecideSettlementInterval(new, lists) IN
        /\ d.allowed
        /\ interval' = new
        /\ since' = IF lists.final = {} THEN 0 ELSE Min({p.first : p \in lists.final})
        /\ named' = named \cup d.older
        /\ outdated' = (outdated \/ lists # Lists)
        /\ UNCHANGED <<final, running>>
  BY DEF ChangeSettlementInterval, MayChange
<1>2. PeriodMonths[new] \in Nat \ {0} /\ outdated' \in BOOLEAN
  BY <1>1, IntervalAssumption DEF IntervalInv
<1>3. CASE lists # Lists
  <2>1. outdated' = TRUE
    BY <1>1, <1>3
  <2> QED
    BY <1>1, <2>1 DEF IntervalInv, IsPeriod
<1>4. CASE lists = Lists /\ final = {} /\ running = {}
  <2>1. since' = 0 /\ 0 % PeriodMonths[new] = 0
    BY <1>1, <1>2, <1>4 DEF Lists
  <2>2. CleanFrom(0)'
    BY <1>1, <1>4, <2>1 DEF CleanFrom
  <2> QED
    BY <1>1, <1>2, <1>4, <2>1, <2>2 DEF IntervalInv
<1>5. CASE lists = Lists /\ ~(final = {} /\ running = {})
  <2> DEFINE start == LastMonth(final) + 1
  <2>1. /\ final # {} /\ start % PeriodMonths[new] = 0
        /\ ~RunningFrom(running, start)
        /\ named' = named \cup Uncovered(final)
        /\ since' = Min({p.first : p \in final})
    BY <1>1, <1>5, AllowedIsClean DEF Lists
  <2>2. /\ since' \in Nat /\ LastMonth(final) \in Nat
        /\ \A p \in final : p.last <= LastMonth(final)
    BY <2>1, LastMonths DEF IntervalInv
  <2>3. \A p \in final \cup running : ~(p.last >= start)
    BY <2>1, <2>2 DEF RunningFrom, IntervalInv, IsPeriod
  <2>4. ASSUME NEW m \in Nat, since' <= m, m < start
        PROVE  m \in Covered(final) \cup named'
    <3>1. m \in since' .. LastMonth(final)
      BY <2>2, <2>4
    <3> QED
      BY <2>1, <3>1 DEF Uncovered
  <2>5. CleanFrom(start)'
    BY <1>1, <2>1, <2>3, <2>4 DEF CleanFrom, LastMonth, Covered
  <2>6. start \in Nat
    BY <2>2
  <2> HIDE DEF start
  <2>7. (\E s \in Nat : CleanFrom(s))'
    <3>1. PICK s \in Nat : s = start
      BY <2>6
    <3>2. start' = s
      BY <1>1, <3>1 DEF start, LastMonth
    <3>3. CleanFrom(s)'
      BY <2>5, <3>2
    <3> QED
      BY <3>3
  <2>8. \A p \in final' \cup running' : IsPeriod(p)
    BY <1>1 DEF IntervalInv
  <2> QED
    BY <1>1, <1>2, <2>2, <2>7, <2>8 DEF IntervalInv, IsPeriod
<1> QED
  BY <1>3, <1>4, <1>5

LEMMA IntervalStep == IntervalInv /\ [IntervalNext]_intervalVars => IntervalInv'
<1> SUFFICES ASSUME IntervalInv, [IntervalNext]_intervalVars PROVE IntervalInv'
  OBVIOUS
<1>1. CASE UNCHANGED <<interval, final, running, since, named, outdated>>
  BY <1>1 DEF IntervalInv, IsPeriod, CleanFrom, Covered
<1> QED
  BY <1>1, BeginKeepsClean, EndKeepsClean, ChangeKeepsClean DEF IntervalNext, ReadLists, intervalVars

\* What has not been settled since the first settlement can still be, in a
\* period of the interval in force, unless the change's own answer named it:
\* however often the interval was changed, and whatever billing settled, in
\* whichever order, before, between and during the changes.
THEOREM EveryMonthSettles == IntervalSpec => []NoMonthStranded
<1>1. IntervalInv => NoMonthStranded
  <2> SUFFICES ASSUME IntervalInv, ~outdated, final # {},
                      NEW m \in Uncovered(final) \ named, ~(m < since),
                      NEW k \in MonthsOf(PeriodOf(m, PeriodMonths[interval])), k \in Covered(final)
               PROVE  FALSE
    BY DEF NoMonthStranded
  <2> DEFINE length == PeriodMonths[interval]
  <2>1. length \in Nat \ {0} /\ since \in Nat
    BY IntervalAssumption DEF IntervalInv
  <2>2. m \in Nat /\ m \notin Covered(final)
    BY LastMonths DEF Uncovered, IntervalInv
  <2>3. PICK start \in Nat : CleanFrom(start)
    BY DEF IntervalInv
  <2>4. start <= m
    BY <2>1, <2>2, <2>3 DEF CleanFrom
  <2>5. PICK p \in final : k \in MonthsOf(p)
    BY DEF Covered
  <2>6. IsPeriod(p)
    BY DEF IntervalInv
  <2>7. k \in Nat /\ PeriodOf(k, length) = PeriodOf(m, length) /\ Start(m, length) <= k
    BY <2>1, <2>2, OnePeriod DEF MonthsOf, PeriodOf
  <2>8. start <= Start(m, length) /\ Start(m, length) \in Nat
    BY <2>1, <2>2, <2>3, <2>4, PeriodAfter, StartOf DEF CleanFrom
  <2>9. p.last >= start
    BY <2>5, <2>6, <2>7, <2>8 DEF IsPeriod, MonthsOf
  <2>10. p = PeriodOf(p.first, length)
    BY <2>3, <2>9 DEF CleanFrom
  <2>11. PeriodOf(k, length) = p
    BY <2>1, <2>5, <2>6, <2>10, OnePeriod DEF IsPeriod
  <2>12. m \in MonthsOf(p)
    <3>1. Start(m, length) <= m /\ m < Start(m, length) + length
      BY <2>1, <2>2, StartOf
    <3>2. p.first = Start(m, length) /\ p.last = Start(m, length) + length - 1
      BY <2>7, <2>11 DEF PeriodOf
    <3> HIDE DEF length
    <3> QED
      BY <2>1, <2>2, <2>8, <3>1, <3>2 DEF MonthsOf
  <2> QED
    BY <2>2, <2>12 DEF Covered
<1> QED
  BY <1>1, IntervalInitially, IntervalStep, PTL DEF IntervalSpec

-----------------------------------------------------------------------------
(* Communities: what they are, and who was checked against whom. *)

Community == [rc : Texts, area : {a.area : a \in Applications} \cup TwoKinds, ec : EcIds]
Stored == DOMAIN eeg
Check == [for : Applications, seen : SUBSET Texts]

CommunitiesTyped ==
  /\ Stored \subseteq Texts /\ eeg \in [Stored -> Community]
  /\ registrar \in [Registrars -> SUBSET Check]
  /\ asker \in [Askers -> SUBSET Texts] /\ requester \in [EcIds -> SUBSET Texts]
  /\ \A l \in list : l.area \in TwoKinds \cup {"other"}
  /\ asked \in [Texts -> Nat] /\ got \in [Texts -> Nat]

\* An application that was checked differs from every community it saw.
Differs(a, t) == /\ Upper[t] # Upper[a.tenant]
                 /\ a.area # "GEA" => Upper[eeg[t].rc] # Upper[a.rc]

ChecksHold ==
  \A r \in Registrars : \A d \in registrar[r] :
     \A t \in d.seen : t \in Stored /\ Differs(d.for, t)

CommunityInv == CommunitiesTyped /\ ChecksHold /\ RcOfOneCommunity

\* The steps after which every community is what it was, apart from LOCAL and
\* REGIONAL, keep what was checked.
KindsKept(t) == /\ eeg'[t].rc = eeg[t].rc /\ eeg'[t].ec = eeg[t].ec
                /\ eeg'[t].area = "GEA" <=> eeg[t].area = "GEA"

LEMMA SameCommunities ==
  ASSUME ChecksHold, RcOfOneCommunity, UNCHANGED overlapped,
         DOMAIN eeg' = DOMAIN eeg, \A t \in DOMAIN eeg : KindsKept(t),
         \A r \in Registrars : registrar'[r] \subseteq registrar[r]
  PROVE  ChecksHold' /\ RcOfOneCommunity'
<1>1. ChecksHold'
  BY DEF ChecksHold, Stored, Differs, KindsKept
<1>2. RcOfOneCommunity'
  BY DEF RcOfOneCommunity, SameRc, KindsKept
<1> QED
  BY <1>1, <1>2

LEMMA CommunitiesInitially == CommunitiesInit => CommunityInv
<1> SUFFICES ASSUME CommunitiesInit PROVE CommunityInv
  OBVIOUS
<1>1. DOMAIN eeg = {} /\ eeg \in [{} -> Community]
  BY DEF CommunitiesInit
<1>2. CommunitiesTyped
  BY <1>1 DEF CommunitiesInit, CommunitiesTyped, Stored
<1>3. ChecksHold /\ RcOfOneCommunity
  BY <1>1 DEF CommunitiesInit, ChecksHold, RcOfOneCommunity
<1> QED
  BY <1>2, <1>3 DEF CommunityInv

LEMMA CheckKeeps ==
  ASSUME CommunityInv, NEW r \in Registrars, CheckEeg(r)
  PROVE  CommunityInv'
<1>1. PICK a \in Applications :
        /\ ~EegExists(a)
        /\ registrar' = [registrar EXCEPT ![r] = {[for |-> a, seen |-> DOMAIN eeg]}]
        /\ UNCHANGED <<eeg, overlapped, asker, requester, list, asked, got>>
  BY DEF CheckEeg
<1> DEFINE d == [for |-> a, seen |-> DOMAIN eeg]
<1>2. d \in Check
  BY DEF CommunityInv, CommunitiesTyped, Check, Stored
<1>3. CommunitiesTyped'
  BY <1>1, <1>2 DEF CommunityInv, CommunitiesTyped, Stored
<1>4. \A t \in d.seen : t \in Stored /\ Differs(d.for, t)
  BY <1>1 DEF EegExists, Differs, Stored
<1>5. \A s \in Registrars : registrar'[s] = IF s = r THEN {d} ELSE registrar[s]
  BY <1>1 DEF CommunityInv, CommunitiesTyped
<1> HIDE DEF d
<1>6. ChecksHold'
  BY <1>1, <1>4, <1>5 DEF CommunityInv, ChecksHold, Differs, Stored
<1>7. RcOfOneCommunity'
  BY <1>1 DEF CommunityInv, RcOfOneCommunity, SameRc
<1> QED
  BY <1>3, <1>6, <1>7 DEF CommunityInv

LEMMA InsertKeeps ==
  ASSUME CommunityInv, NEW r \in Registrars, InsertEeg(r)
  PROVE  CommunityInv'
<1>1. PICK d \in registrar[r] :
        /\ registrar' = [registrar EXCEPT ![r] = {}]
        /\ IF d.for.tenant \in DOMAIN eeg THEN UNCHANGED <<eeg, overlapped>>
           ELSE /\ eeg' = [t \in DOMAIN eeg \cup {d.for.tenant} |->
                             IF t = d.for.tenant THEN [rc |-> d.for.rc, area |-> d.for.area, ec |-> d.for.ec]
                             ELSE eeg[t]]
                /\ overlapped' = overlapped \cup {{t, d.for.tenant} : t \in DOMAIN eeg \ d.seen}
        /\ UNCHANGED <<asker, requester, list, asked, got>>
  BY DEF InsertEeg
<1> DEFINE a == d.for
<1>2. a \in Applications /\ d.seen \subseteq DOMAIN eeg /\ \A t \in d.seen : Differs(a, t)
  BY DEF CommunityInv, CommunitiesTyped, Check, ChecksHold, Stored
<1>3. /\ registrar' \in [Registrars -> SUBSET Check]
      /\ \A s \in Registrars : registrar'[s] \subseteq registrar[s]
  BY <1>1 DEF CommunityInv, CommunitiesTyped
<1>4. CASE a.tenant \in DOMAIN eeg
  <2>1. CommunitiesTyped'
    BY <1>1, <1>3, <1>4 DEF CommunityInv, CommunitiesTyped, Stored
  <2> QED
    BY <1>1, <1>3, <1>4, <2>1, SameCommunities DEF CommunityInv, KindsKept
<1>5. CASE a.tenant \notin DOMAIN eeg
  <2> DEFINE new == [rc |-> a.rc, area |-> a.area, ec |-> a.ec]
  <2>1. new \in Community /\ a.tenant \in Texts
    BY <1>2, ApplicationAssumption DEF Community
  <2>2. /\ DOMAIN eeg' = DOMAIN eeg \cup {a.tenant} /\ eeg'[a.tenant] = new
        /\ \A t \in DOMAIN eeg : eeg'[t] = eeg[t]
    BY <1>1, <1>5
  <2>3. CommunitiesTyped'
    BY <1>1, <1>3, <1>5, <2>1 DEF CommunityInv, CommunitiesTyped, Stored
  <2>4. ChecksHold'
    BY <1>3, <2>2 DEF CommunityInv, ChecksHold, Differs, Stored
  <2>5. overlapped' = overlapped \cup {{t, a.tenant} : t \in DOMAIN eeg \ d.seen}
    BY <1>1, <1>5
  <2>6. \A t \in DOMAIN eeg : t \notin d.seen => {t, a.tenant} \in overlapped'
    BY <2>5
  <2>7. \A t, u \in DOMAIN eeg : t # u /\ (Upper[t] = Upper[u] \/ SameRc(t, u)) => {t, u} \in overlapped'
    BY <2>5 DEF CommunityInv, RcOfOneCommunity
  <2>8. new.rc = a.rc /\ new.area = a.area
    OBVIOUS
  <2> HIDE DEF new
  <2>9. ASSUME NEW t \in DOMAIN eeg, Upper[t] = Upper[a.tenant] \/ SameRc(t, a.tenant)' \/ SameRc(a.tenant, t)'
        PROVE  {t, a.tenant} \in overlapped'
    <3>1. t \notin d.seen
      BY <1>2, <2>2, <2>8, <2>9 DEF Differs, SameRc
    <3> QED
      BY <2>6, <3>1
  <2>10. RcOfOneCommunity'
    <3> SUFFICES ASSUME NEW t \in DOMAIN eeg', NEW u \in DOMAIN eeg', t # u,
                        Upper[t] = Upper[u] \/ SameRc(t, u)'
                 PROVE  {t, u} \in overlapped'
      BY DEF RcOfOneCommunity
    <3>1. CASE t \in DOMAIN eeg /\ u \in DOMAIN eeg
      BY <2>2, <2>7, <3>1 DEF SameRc
    <3>2. CASE t = a.tenant
      <4>1. {u, t} = {t, u} /\ u \in DOMAIN eeg
        BY <2>2, <3>2
      <4> QED
        BY <2>9, <3>2, <4>1
    <3>3. CASE u = a.tenant
      <4>1. t \in DOMAIN eeg
        BY <2>2, <3>3
      <4> QED
        BY <2>9, <3>3, <4>1
    <3> QED
      BY <2>2, <3>1, <3>2, <3>3
  <2> QED
    BY <2>3, <2>4, <2>10 DEF CommunityInv
<1> QED
  BY <1>4, <1>5

\* The fields of a community that tell it from others are protected.
LEMMA UpdateKeeps ==
  ASSUME CommunityInv, UpdateEegPartial
  PROVE  CommunityInv' /\ UNCHANGED eeg
<1>1. PICK t \in DOMAIN eeg, saved \in Applications :
        /\ eeg' = [eeg EXCEPT ![t] = [x \in DOMAIN eeg[t] |-> IF x \in eegProtectedUpdateFields THEN eeg[t][x]
                                                            ELSE saved[x]]]
        /\ UNCHANGED <<registrar, overlapped, asker, requester, list, asked, got>>
  BY DEF UpdateEegPartial
<1>2. eeg \in [DOMAIN eeg -> Community] /\ eeg[t] \in Community
  BY DEF CommunityInv, CommunitiesTyped, Stored
<1>3. [x \in DOMAIN eeg[t] |-> IF x \in eegProtectedUpdateFields THEN eeg[t][x] ELSE saved[x]] = eeg[t]
  BY <1>2 DEF Community, eegProtectedUpdateFields
<1>4. eeg' = eeg
  BY <1>1, <1>2, <1>3
<1>5. CommunitiesTyped'
  BY <1>1, <1>4 DEF CommunityInv, CommunitiesTyped, Stored
<1>6. ChecksHold' /\ RcOfOneCommunity'
  BY <1>1, <1>4, SameCommunities DEF CommunityInv, KindsKept
<1> QED
  BY <1>4, <1>5, <1>6 DEF CommunityInv

\* A list moves communities between LOCAL and REGIONAL only.
LEMMA AreaKeeps ==
  ASSUME CommunityInv, ZpListArea
  PROVE  CommunityInv' /\ DOMAIN eeg' = DOMAIN eeg /\ \A t \in DOMAIN eeg : KindsKept(t)
<1>1. PICK l \in list :
        /\ eeg' \in {eeg, [t \in DOMAIN eeg |-> IF t \in TakesAreaOfList(l) THEN [eeg[t] EXCEPT !.area = l.area]
                                                 ELSE eeg[t]]}
        /\ list' = {} /\ UNCHANGED <<registrar, overlapped, asker, requester, asked, got>>
  BY DEF ZpListArea
<1>2. eeg \in [DOMAIN eeg -> Community]
  BY DEF CommunityInv, CommunitiesTyped, Stored
<1>3. ASSUME NEW t \in DOMAIN eeg
      PROVE  KindsKept(t) /\ eeg'[t] \in Community /\ DOMAIN eeg' = DOMAIN eeg
  <2>1. CASE eeg'[t] = eeg[t] /\ DOMAIN eeg' = DOMAIN eeg
    BY <1>2, <2>1 DEF KindsKept
  <2>2. CASE t \in TakesAreaOfList(l) /\ eeg'[t] = [eeg[t] EXCEPT !.area = l.area] /\ DOMAIN eeg' = DOMAIN eeg
    <3>1. l.area \in TwoKinds /\ eeg[t].area \in TwoKinds
      BY <2>2 DEF TakesAreaOfList, CommunityInv, CommunitiesTyped
    <3> QED
      BY <1>2, <2>2, <3>1 DEF KindsKept, Community, TwoKinds
  <2> QED
    BY <1>1, <2>1, <2>2
<1>4. eeg' \in [DOMAIN eeg -> Community] /\ DOMAIN eeg' = DOMAIN eeg
  BY <1>1, <1>2, <1>3
<1>5. CommunitiesTyped'
  BY <1>1, <1>4 DEF CommunityInv, CommunitiesTyped, Stored
<1>6. ChecksHold' /\ RcOfOneCommunity'
  BY <1>1, <1>3, <1>4, SameCommunities DEF CommunityInv
<1> QED
  BY <1>3, <1>4, <1>5, <1>6 DEF CommunityInv

LEMMA CommunityStep == CommunityInv /\ [CommunitiesNext]_communityVars => CommunityInv'
<1> SUFFICES ASSUME CommunityInv, [CommunitiesNext]_communityVars PROVE CommunityInv'
  OBVIOUS
<1>0. CommunitiesTyped
  BY DEF CommunityInv
<1>1. CASE \E c \in Askers : RequestingMeteringPointList(c)
  <2>1. PICK c \in Askers, t \in DOMAIN eeg :
           /\ asker' = [asker EXCEPT ![c] = {t}] /\ asked' = [asked EXCEPT ![t] = @ + 1]
           /\ UNCHANGED <<eeg, registrar, overlapped, requester, list, got>>
    BY <1>1, Zenon DEF RequestingMeteringPointList
  <2>2. CommunitiesTyped'
    BY <1>0, <2>1 DEF CommunitiesTyped, Stored
  <2> QED
    BY <2>1, <2>2, SameCommunities DEF CommunityInv, KindsKept
<1>2. CASE \E c \in Askers : RememberZpListRequester(c)
  <2>1. PICK c \in Askers : RememberZpListRequester(c)
    BY <1>2
  <2>2. PICK t \in asker[c] :
           /\ requester' = [requester EXCEPT ![eeg[t].ec] = {t}] /\ asker' = [asker EXCEPT ![c] = {}]
           /\ UNCHANGED <<eeg, registrar, overlapped, list, asked, got>>
    BY <2>1 DEF RememberZpListRequester
  <2>3. CommunitiesTyped'
    BY <1>0, <2>2 DEF CommunitiesTyped, Stored
  <2> QED
    BY <2>2, <2>3, SameCommunities DEF CommunityInv, KindsKept
<1>3. CASE ReceiveZpList
  <2>1. PICK ec \in EcIds, area \in TwoKinds \cup {"other"} :
           /\ list' = {[ec |-> ec, area |-> area, to |-> ZpListEeg(ec)]}
           /\ got' \in {got, [got EXCEPT ![ZpListEeg(ec)] = @ + 1]}
           /\ requester' = TakeZpListRequester(ec)
           /\ UNCHANGED <<eeg, registrar, overlapped, asker, asked>>
    BY <1>3 DEF ReceiveZpList
  <2>2. CommunitiesTyped'
    <3>1. got' \in [Texts -> Nat] /\ requester' \in [EcIds -> SUBSET Texts]
      BY <1>0, <2>1 DEF CommunitiesTyped, TakeZpListRequester
    <3>2. \A l \in list' : l.area \in TwoKinds \cup {"other"}
      BY <2>1
    <3> QED
      BY <1>0, <2>1, <3>1, <3>2 DEF CommunitiesTyped, Stored
  <2> QED
    BY <2>1, <2>2, SameCommunities DEF CommunityInv, KindsKept
<1>4. CASE RejectZpList
  <2>1. PICK ec \in EcIds :
           /\ requester' = TakeZpListRequester(ec)
           /\ UNCHANGED <<eeg, registrar, overlapped, asker, list, asked, got>>
    BY <1>4 DEF RejectZpList
  <2>2. CommunitiesTyped'
    BY <1>0, <2>1 DEF CommunitiesTyped, Stored, TakeZpListRequester
  <2> QED
    BY <2>1, <2>2, SameCommunities DEF CommunityInv, KindsKept
<1>5. CASE Restart
  <2>1. CommunitiesTyped'
    BY <1>0, <1>5 DEF Restart, CommunitiesTyped, Stored
  <2>2. \A r \in Registrars : registrar'[r] \subseteq registrar[r]
    BY <1>5 DEF Restart
  <2> QED
    BY <1>5, <2>1, <2>2, SameCommunities DEF Restart, CommunityInv, KindsKept
<1>6. CASE UNCHANGED communityVars
  <2>1. CommunitiesTyped'
    BY <1>0, <1>6 DEF communityVars, CommunitiesTyped, Stored
  <2> QED
    BY <1>6, <2>1, SameCommunities DEF communityVars, CommunityInv, KindsKept
<1> QED
  BY <1>1, <1>2, <1>3, <1>4, <1>5, <1>6, CheckKeeps, InsertKeeps, UpdateKeeps, AreaKeeps
     DEF CommunitiesNext

LEMMA CommunityInvariance == CommunitiesSpec => []CommunityInv
BY CommunitiesInitially, CommunityStep, PTL DEF CommunitiesSpec

\* Outside GEA an RC number belongs to one community, and no two communities
\* are spelled alike, but for registrations that overlapped.
THEOREM CommunitiesDiffer == CommunitiesSpec => []RcOfOneCommunity
<1>1. CommunityInv => RcOfOneCommunity
  BY DEF CommunityInv
<1> QED
  BY <1>1, CommunityInvariance, PTL

-----------------------------------------------------------------------------
(* Who gets a list. *)

\* Lists that a community asked for and may still get: its requests that are
\* not remembered yet, and the one that is.
Pending(t) == {c \in Askers : asker[c] = {t}}
Noted(t) == IF requester[eeg[t].ec] = {t} THEN 1 ELSE 0

AskersKnown ==
  /\ \A c \in Askers : \A t \in asker[c] : t \in DOMAIN eeg /\ asker[c] = {t}
  /\ \A ec \in EcIds : \A t \in requester[ec] :
        t \in DOMAIN eeg /\ eeg[t].ec = ec /\ requester[ec] = {t}

ListsAskedFor ==
  /\ \A t \in DOMAIN eeg : got[t] + Cardinality(Pending(t)) + Noted(t) <= asked[t]
  /\ ListToAsker

ListInv == CommunityInv /\ AskersKnown /\ ListsAskedFor

LEMMA PendingFinite ==
  ASSUME NEW t
  PROVE  IsFiniteSet(Pending(t)) /\ Cardinality(Pending(t)) \in Nat
BY AskersAssumption, FS_Subset, FS_CardinalityType DEF Pending

\* Nothing more is asked for or got, and no request is added.
LEMMA FewerRequests ==
  ASSUME ListInv, CommunityInv', UNCHANGED <<asked, got>>,
         DOMAIN eeg' = DOMAIN eeg, \A t \in DOMAIN eeg : eeg'[t].ec = eeg[t].ec,
         \A c \in Askers : asker'[c] \subseteq asker[c],
         \A ec \in EcIds : requester'[ec] \subseteq requester[ec]
  PROVE  ListInv'
<1>1. AskersKnown'
  BY DEF ListInv, AskersKnown
<1>2. ASSUME NEW t \in DOMAIN eeg
      PROVE  got[t] + Cardinality(Pending(t)') + Noted(t)' <= asked[t]
  <2>1. Pending(t)' \subseteq Pending(t)
    BY DEF Pending, ListInv, AskersKnown
  <2>2. Cardinality(Pending(t)') <= Cardinality(Pending(t))
    BY <2>1, PendingFinite, FS_Subset
  <2>3. Cardinality(Pending(t)') \in Nat
    BY <2>1, PendingFinite, FS_Subset, FS_CardinalityType
  <2>4. eeg[t].ec \in EcIds /\ t \in Texts
    BY DEF ListInv, CommunityInv, CommunitiesTyped, Community, Stored
  <2>5. Noted(t)' <= Noted(t) /\ Noted(t) \in 0 .. 1 /\ Noted(t)' \in 0 .. 1
    BY <2>4 DEF Noted, ListInv, AskersKnown
  <2>6. got[t] \in Nat /\ asked[t] \in Nat
    BY <2>4 DEF ListInv, CommunityInv, CommunitiesTyped
  <2>7. got[t] + Cardinality(Pending(t)) + Noted(t) <= asked[t] /\ Cardinality(Pending(t)) \in Nat
    BY PendingFinite DEF ListInv, ListsAskedFor
  <2> HIDE DEF Pending, Noted
  <2> QED
    BY <2>2, <2>3, <2>5, <2>6, <2>7
<1>3. ListsAskedFor'
  BY <1>2 DEF ListInv, ListsAskedFor, ListToAsker
<1> QED
  BY <1>1, <1>3 DEF ListInv

LEMMA ListInitially == CommunitiesInit => ListInv
<1> SUFFICES ASSUME CommunitiesInit PROVE ListInv
  OBVIOUS
<1>1. CommunityInv
  BY CommunitiesInitially
<1>2. AskersKnown /\ ListsAskedFor
  BY DEF CommunitiesInit, AskersKnown, ListsAskedFor, ListToAsker
<1> QED
  BY <1>1, <1>2 DEF ListInv

LEMMA AskKeeps ==
  ASSUME ListInv, CommunityInv', NEW c \in Askers, RequestingMeteringPointList(c)
  PROVE  ListInv'
<1>1. PICK t \in DOMAIN eeg :
        /\ asker[c] = {}
        /\ asker' = [asker EXCEPT ![c] = {t}] /\ asked' = [asked EXCEPT ![t] = @ + 1]
        /\ UNCHANGED <<eeg, requester, got>>
  BY Zenon DEF RequestingMeteringPointList
<1>2. CommunitiesTyped /\ AskersKnown /\ t \in Texts
  BY DEF ListInv, CommunityInv, CommunitiesTyped, Stored
<1>3. asker'[c] = {t} /\ \A b \in Askers \ {c} : asker'[b] = asker[b]
  BY <1>1, <1>2 DEF CommunitiesTyped
<1>4. asked'[t] = asked[t] + 1 /\ \A u \in Texts \ {t} : asked'[u] = asked[u]
  BY <1>1, <1>2 DEF CommunitiesTyped
<1>5. AskersKnown'
  BY <1>1, <1>2, <1>3 DEF AskersKnown
<1>6. Pending(t)' = Pending(t) \cup {c} /\ c \notin Pending(t)
  BY <1>1, <1>3 DEF Pending
<1>7. Cardinality(Pending(t)') = Cardinality(Pending(t)) + 1
  BY <1>6, PendingFinite, FS_AddElement
<1>8. \A u \in DOMAIN eeg \ {t} : Pending(u)' = Pending(u)
  BY <1>1, <1>3 DEF Pending
<1>9. \A u \in DOMAIN eeg : Noted(u)' = Noted(u) /\ Noted(u) \in 0 .. 1 /\ u \in Texts
  BY <1>1, <1>2 DEF Noted, CommunitiesTyped, Stored
<1>10. \A u \in Texts : got[u] \in Nat /\ asked[u] \in Nat
  BY <1>2 DEF CommunitiesTyped
<1>11. \A u \in DOMAIN eeg : got[u] + Cardinality(Pending(u)) + Noted(u) <= asked[u]
                             /\ Cardinality(Pending(u)) \in Nat
  BY PendingFinite DEF ListInv, ListsAskedFor
<1>12. \A u \in DOMAIN eeg : got'[u] + Cardinality(Pending(u)') + Noted(u)' <= asked'[u]
  <2> SUFFICES ASSUME NEW u \in DOMAIN eeg
               PROVE  got[u] + Cardinality(Pending(u)') + Noted(u) <= asked'[u]
    BY <1>1, <1>9
  <2>1. CASE u = t
    BY <1>4, <1>7, <1>9, <1>10, <1>11, <2>1
  <2>2. CASE u # t
    BY <1>4, <1>8, <1>9, <1>10, <1>11, <2>2
  <2> QED
    BY <2>1, <2>2
<1>13. ListToAsker'
  BY <1>1, <1>2, <1>4, <1>10 DEF ListInv, ListsAskedFor, ListToAsker
<1> QED
  BY <1>1, <1>5, <1>12, <1>13 DEF ListInv, ListsAskedFor

\* A request moves from those pending to the one that is remembered.
LEMMA RememberKeeps ==
  ASSUME ListInv, CommunityInv', NEW c \in Askers, RememberZpListRequester(c)
  PROVE  ListInv'
<1>1. PICK t \in asker[c] :
        /\ requester' = [requester EXCEPT ![eeg[t].ec] = {t}]
        /\ asker' = [asker EXCEPT ![c] = {}]
        /\ UNCHANGED <<eeg, asked, got>>
  BY DEF RememberZpListRequester
<1>2. CommunitiesTyped /\ AskersKnown /\ t \in DOMAIN eeg /\ asker[c] = {t}
  BY DEF ListInv, CommunityInv, AskersKnown
<1>3. \A u \in DOMAIN eeg : u \in Texts /\ eeg[u].ec \in EcIds
  BY <1>2 DEF CommunitiesTyped, Community, Stored
<1>4. asker'[c] = {} /\ \A b \in Askers \ {c} : asker'[b] = asker[b]
  BY <1>1, <1>2 DEF CommunitiesTyped
<1>5. /\ requester'[eeg[t].ec] = {t}
      /\ \A ec \in EcIds \ {eeg[t].ec} : requester'[ec] = requester[ec]
  BY <1>1, <1>2, <1>3 DEF CommunitiesTyped
<1>6. AskersKnown'
  BY <1>1, <1>2, <1>4, <1>5 DEF AskersKnown
<1>7. Pending(t)' = Pending(t) \ {c} /\ c \in Pending(t)
  BY <1>2, <1>4 DEF Pending
<1>8. Cardinality(Pending(t)') = Cardinality(Pending(t)) - 1
  BY <1>7, PendingFinite, FS_RemoveElement
<1>9. \A u \in DOMAIN eeg \ {t} : Pending(u)' = Pending(u)
  BY <1>2, <1>4 DEF Pending
<1>10. \A u \in DOMAIN eeg \ {t} : Noted(u)' <= Noted(u)
  BY <1>1, <1>2, <1>3, <1>5 DEF Noted, AskersKnown
<1>11. Noted(t)' <= Noted(t) + 1
  BY DEF Noted
<1>12. \A u \in DOMAIN eeg : Noted(u) \in 0 .. 1 /\ Noted(u)' \in 0 .. 1
  BY DEF Noted
<1>13. \A u \in DOMAIN eeg : got[u] \in Nat /\ asked[u] \in Nat
  BY <1>2, <1>3 DEF CommunitiesTyped
<1>14. \A u \in DOMAIN eeg : got[u] + Cardinality(Pending(u)) + Noted(u) <= asked[u]
                             /\ Cardinality(Pending(u)) \in Nat
  BY PendingFinite DEF ListInv, ListsAskedFor
<1>15. ASSUME NEW u \in DOMAIN eeg
       PROVE  got[u] + Cardinality(Pending(u)') + Noted(u)' <= asked[u]
  <2>1. CASE u = t
    BY <1>8, <1>11, <1>12, <1>13, <1>14, <2>1
  <2>2. CASE u # t
    <3>1. Pending(u)' = Pending(u) /\ Noted(u)' <= Noted(u)
      BY <1>9, <1>10, <2>2
    <3>2. Noted(u) \in 0 .. 1 /\ Noted(u)' \in 0 .. 1 /\ got[u] \in Nat /\ asked[u] \in Nat
      BY <1>12, <1>13
    <3>3. got[u] + Cardinality(Pending(u)) + Noted(u) <= asked[u] /\ Cardinality(Pending(u)) \in Nat
      BY <1>14
    <3> QED
      BY <3>1, <3>2, <3>3
  <2> QED
    BY <2>1, <2>2
<1>16. ListToAsker'
  BY <1>1 DEF ListInv, ListsAskedFor, ListToAsker
<1> QED
  BY <1>1, <1>6, <1>15, <1>16 DEF ListInv, ListsAskedFor

\* A list that goes to another community than the base takes its note along.
LEMMA ReceiveKeeps ==
  ASSUME ListInv, CommunityInv', ReceiveZpList
  PROVE  ListInv'
<1>1. PICK ec \in EcIds :
        /\ got' = IF ZpListEeg(ec) = GetBaseEegByEcId(ec) THEN got
                  ELSE [got EXCEPT ![ZpListEeg(ec)] = @ + 1]
        /\ requester' = [requester EXCEPT ![ec] = {}]
        /\ UNCHANGED <<eeg, asker, asked>>
  BY DEF ReceiveZpList, TakeZpListRequester
<1>2. CommunitiesTyped /\ AskersKnown
  BY DEF ListInv, CommunityInv
<1>3. \A e \in EcIds : requester'[e] = IF e = ec THEN {} ELSE requester[e]
  BY <1>1, <1>2 DEF CommunitiesTyped
<1>4. CASE got' = got
  BY <1>1, <1>3, <1>4, FewerRequests
<1>5. CASE ZpListEeg(ec) # GetBaseEegByEcId(ec)
  <2>0. PICK to : to = ZpListEeg(ec)
    OBVIOUS
  <2>1. to \in requester[ec]
    BY <1>5, <2>0 DEF ZpListEeg
  <2>2. to \in DOMAIN eeg /\ eeg[to].ec = ec /\ requester[ec] = {to} /\ to \in Texts
    BY <1>2, <2>1 DEF AskersKnown, CommunitiesTyped, Stored
  <2>3. got' = [got EXCEPT ![to] = @ + 1]
    BY <1>1, <1>5, <2>0
  <2>4. got'[to] = got[to] + 1 /\ \A u \in Texts \ {to} : got'[u] = got[u]
    BY <1>2, <2>2, <2>3 DEF CommunitiesTyped
  <2>5. AskersKnown'
    BY <1>1, <1>2, <1>3 DEF AskersKnown
  <2>6. \A u \in DOMAIN eeg : Pending(u)' = Pending(u) /\ u \in Texts /\ eeg[u].ec \in EcIds
    BY <1>1, <1>2 DEF Pending, CommunitiesTyped, Community, Stored
  <2>7. Noted(to) = 1 /\ Noted(to)' = 0
    BY <1>1, <1>3, <2>2 DEF Noted
  <2>8. \A u \in DOMAIN eeg : Noted(u)' <= Noted(u) /\ Noted(u) \in 0 .. 1 /\ Noted(u)' \in 0 .. 1
    BY <1>1, <1>3, <2>6 DEF Noted
  <2>9. \A u \in Texts : got[u] \in Nat /\ asked[u] \in Nat
    BY <1>2 DEF CommunitiesTyped
  <2>10. \A u \in DOMAIN eeg : got[u] + Cardinality(Pending(u)) + Noted(u) <= asked[u]
                               /\ Cardinality(Pending(u)) \in Nat
    BY PendingFinite DEF ListInv, ListsAskedFor
  <2>11. ASSUME NEW u \in DOMAIN eeg
         PROVE  got'[u] + Cardinality(Pending(u)') + Noted(u)' <= asked[u]
    <3>1. u \in Texts /\ Pending(u)' = Pending(u) /\ got[u] \in Nat /\ asked[u] \in Nat
      BY <2>6, <2>9
    <3>2. got[u] + Cardinality(Pending(u)) + Noted(u) <= asked[u] /\ Cardinality(Pending(u)) \in Nat
      BY <2>10
    <3>3. CASE u = to
      BY <2>4, <2>7, <3>1, <3>2, <3>3
    <3>4. CASE u # to
      <4>1. got'[u] = got[u] /\ Noted(u)' <= Noted(u) /\ Noted(u) \in 0 .. 1 /\ Noted(u)' \in 0 .. 1
        BY <2>4, <2>8, <3>1, <3>4
      <4> QED
        BY <3>1, <3>2, <4>1
    <3> QED
      BY <3>3, <3>4
  <2>12. ListToAsker'
    <3> SUFFICES ASSUME NEW u \in Texts PROVE got'[u] <= asked[u]
      BY <1>1 DEF ListToAsker
    <3>1. CASE u = to
      <4>1. got'[to] + Cardinality(Pending(to)') + Noted(to)' <= asked[to] /\ Cardinality(Pending(to)) \in Nat
        BY <2>2, <2>10, <2>11
      <4>2. Pending(to)' = Pending(to) /\ got'[to] \in Nat /\ asked[to] \in Nat
        BY <2>2, <2>4, <2>6, <2>9
      <4> QED
        BY <2>7, <3>1, <4>1, <4>2
    <3>2. CASE u # to
      BY <2>4, <3>2 DEF ListInv, ListsAskedFor, ListToAsker
    <3> QED
      BY <3>1, <3>2
  <2> QED
    BY <1>1, <2>5, <2>11, <2>12 DEF ListInv, ListsAskedFor
<1> QED
  BY <1>1, <1>4, <1>5

\* A community that is stored now has asked for nothing yet.
LEMMA InsertKeepsLists ==
  ASSUME ListInv, CommunityInv', NEW r \in Registrars, InsertEeg(r)
  PROVE  ListInv'
<1>1. PICK d \in registrar[r] :
        /\ IF d.for.tenant \in DOMAIN eeg THEN UNCHANGED eeg
           ELSE eeg' = [t \in DOMAIN eeg \cup {d.for.tenant} |->
                          IF t = d.for.tenant THEN [rc |-> d.for.rc, area |-> d.for.area, ec |-> d.for.ec]
                          ELSE eeg[t]]
        /\ UNCHANGED <<asker, requester, asked, got>>
  BY DEF InsertEeg
<1>2. CASE UNCHANGED eeg
  BY <1>1, <1>2, FewerRequests
<1>3. CASE d.for.tenant \notin DOMAIN eeg
  <2> DEFINE new == d.for.tenant
  <2>1. DOMAIN eeg' = DOMAIN eeg \cup {new} /\ \A t \in DOMAIN eeg : eeg'[t] = eeg[t]
    BY <1>1, <1>3
  <2>2. CommunitiesTyped /\ AskersKnown /\ CommunitiesTyped'
    BY DEF ListInv, CommunityInv
  <2>3. AskersKnown'
    BY <1>1, <2>1, <2>2 DEF AskersKnown
  <2>4. new \in Texts /\ eeg'[new].ec \in EcIds
    BY <2>1, <2>2 DEF CommunitiesTyped, Community, Stored
  <2> HIDE DEF new
  <2>5. \A t \in DOMAIN eeg : Pending(t)' = Pending(t) /\ Noted(t)' = Noted(t)
    BY <1>1, <2>1 DEF Pending, Noted
  <2>6. Pending(new)' = {}
    BY <1>1, <1>3, <2>2 DEF Pending, AskersKnown, new
  <2>7. Noted(new)' = 0
    BY <1>1, <1>3, <2>2, <2>4 DEF Noted, AskersKnown, new
  <2>8. got[new] <= asked[new] /\ got[new] \in Nat /\ asked[new] \in Nat
    BY <2>2, <2>4 DEF ListInv, ListsAskedFor, ListToAsker, CommunitiesTyped
  <2>9. got[new] + Cardinality(Pending(new)') + Noted(new)' <= asked[new]
    BY <2>6, <2>7, <2>8, FS_EmptySet
  <2>10. ListsAskedFor'
    BY <1>1, <2>1, <2>5, <2>9 DEF ListInv, ListsAskedFor, ListToAsker
  <2> QED
    BY <2>3, <2>10 DEF ListInv
<1> QED
  BY <1>1, <1>2, <1>3

LEMMA ListStep == ListInv /\ [CommunitiesNext]_communityVars => ListInv'
<1> SUFFICES ASSUME ListInv, [CommunitiesNext]_communityVars PROVE ListInv'
  OBVIOUS
<1>1. CommunityInv'
  BY CommunityStep DEF ListInv
<1>2. CASE \E r \in Registrars : CheckEeg(r)
  BY <1>1, <1>2, FewerRequests DEF CheckEeg
<1>3. CASE UpdateEegPartial
  <2>1. UNCHANGED <<eeg, asker, requester, asked, got>>
    BY <1>3, UpdateKeeps DEF ListInv, UpdateEegPartial
  <2> QED
    BY <1>1, <2>1, FewerRequests
<1>4. CASE ZpListArea
  <2>1. DOMAIN eeg' = DOMAIN eeg /\ \A t \in DOMAIN eeg : eeg'[t].ec = eeg[t].ec
    BY <1>4, AreaKeeps DEF ListInv, KindsKept
  <2> QED
    BY <1>1, <1>4, <2>1, FewerRequests DEF ZpListArea
<1>5. CASE RejectZpList
  <2>1. PICK ec \in EcIds : requester' = [requester EXCEPT ![ec] = {}] /\ UNCHANGED <<eeg, asker, asked, got>>
    BY <1>5 DEF RejectZpList, TakeZpListRequester
  <2>2. \A e \in EcIds : requester'[e] \subseteq requester[e]
    BY <2>1 DEF ListInv, CommunityInv, CommunitiesTyped
  <2> QED
    BY <1>1, <2>1, <2>2, FewerRequests
<1>6. CASE Restart
  BY <1>1, <1>6, FewerRequests DEF Restart
<1>7. CASE UNCHANGED communityVars
  BY <1>1, <1>7, FewerRequests DEF communityVars
<1> QED
  BY <1>1, <1>2, <1>3, <1>4, <1>5, <1>6, <1>7, AskKeeps, RememberKeeps, ReceiveKeeps, InsertKeepsLists
     DEF CommunitiesNext

\* Beside the base only a community that asked gets a list, and no more than it
\* asked for, whichever answers are early, late, repeated or unasked.
THEOREM ListsToAskers == CommunitiesSpec => []ListToAsker
<1>1. ListInv => ListToAsker
  BY DEF ListInv, ListsAskedFor
<1> QED
  BY <1>1, ListInitially, ListStep, PTL DEF CommunitiesSpec
-----------------------------------------------------------------------------
(* The cache of the list of messages. *)

\* The cache is empty and nothing is written when the process starts.
LEMMA CacheStarts == CacheInit => CacheInv
BY DEF CacheInit, CacheInv, CacheTypeOK, KeepableRows, NoStaleEntry

\* A write does not touch what is kept or read; it is the newest.
LEMMA WriteKeeps ==
  ASSUME CacheInv, NEW w \in Writers, Write(w)
  PROVE  CacheInv'
<1> USE DEF CacheInv, Write
<1>1. CacheTypeOK'
  BY DEF CacheTypeOK
<1>2. KeepableRows'
  BY DEF CacheTypeOK, KeepableRows
<1>3. NoStaleEntry'
  BY DEF CacheTypeOK, NoStaleEntry
<1> QED
  BY <1>1, <1>2, <1>3

\* After a clear there is no entry, and nobody has rows that may be kept.
LEMMA ClearKeeps ==
  ASSUME CacheInv, NEW w \in Writers, ClearCommunityCache(w)
  PROVE  CacheInv'
<1> USE DEF CacheInv, ClearCommunityCache
<1>1. CacheTypeOK'
  BY DEF CacheTypeOK
<1>2. KeepableRows'
  <2>1. done' <= written'
    BY DEF CacheTypeOK, KeepableRows
  <2>2. \A u \in Writers : writer'[u].write <= written'
    BY DEF CacheTypeOK, KeepableRows
  <2>3. ASSUME NEW r \in Readers
        PROVE  reader'[r].generation <= generation' /\ reader'[r].generation # generation'
    BY DEF CacheTypeOK, KeepableRows
  <2> QED
    BY <2>1, <2>2, <2>3 DEF KeepableRows
<1>3. NoStaleEntry'
  BY DEF NoStaleEntry
<1> QED
  BY <1>1, <1>2, <1>3

\* A reader reads all that is written; what it keeps was read since the clear.
LEMMA ReadKeeps ==
  ASSUME CacheInv, NEW r \in Readers,
         ReadRows(r) \/ ReadFails(r) \/ (\E t \in Tenants : Miss(r, t))
  PROVE  CacheInv'
<1> USE DEF CacheInv
<1>1. CASE ReadRows(r)
  BY <1>1 DEF ReadRows, CacheTypeOK, KeepableRows, NoStaleEntry
<1>2. CASE ReadFails(r)
  BY <1>2 DEF ReadFails, CacheTypeOK, KeepableRows, NoStaleEntry
<1>3. ASSUME NEW t \in Tenants, Miss(r, t)
      PROVE  CacheInv'
  BY <1>3 DEF Miss, CacheTypeOK, KeepableRows, NoStaleEntry
<1> QED
  BY <1>1, <1>2, <1>3

LEMMA StoreKeeps ==
  ASSUME CacheInv, NEW r \in Readers, StoreCommunityRows(r)
  PROVE  CacheInv'
<1> USE DEF CacheInv, StoreCommunityRows
<1>1. CacheTypeOK'
  BY DEF CacheTypeOK
<1>2. KeepableRows'
  BY DEF CacheTypeOK, KeepableRows
<1>3. NoStaleEntry'
  <2>1. CASE reader[r].generation = generation
    <3>1. done <= reader[r].rows
      BY <2>1 DEF KeepableRows
    <3> QED
      BY <2>1, <3>1 DEF CacheTypeOK, NoStaleEntry
  <2>2. CASE reader[r].generation # generation
    BY <2>2 DEF NoStaleEntry
  <2> QED
    BY <2>1, <2>2
<1> QED
  BY <1>1, <1>2, <1>3

\* The inductive invariant holds in every reachable state.
THEOREM CacheCorrect == CacheSpec => []CacheInv
<1>1. CacheInv /\ [CacheNext]_cacheVars => CacheInv'
  <2> SUFFICES ASSUME CacheInv, [CacheNext]_cacheVars
               PROVE  CacheInv'
    OBVIOUS
  <2>1. CASE CacheNext
    BY <2>1, WriteKeeps, ClearKeeps, ReadKeeps, StoreKeeps DEF CacheNext
  <2>2. CASE UNCHANGED cacheVars
    BY <2>2 DEF cacheVars, CacheInv, CacheTypeOK, KeepableRows, NoStaleEntry
  <2> QED
    BY <2>1, <2>2
<1> QED
  BY CacheStarts, <1>1, PTL DEF CacheSpec

\* Whoever has requested energy data sees the request in the list.
THEOREM ListsAreCurrent == CacheSpec => []NoStaleEntry
<1>1. CacheInv => NoStaleEntry
  BY DEF CacheInv
<1> QED
  BY CacheCorrect, <1>1, PTL

-----------------------------------------------------------------------------
(* The parts together.  A step of the administration is one of one part    *)
(* and leaves the others alone.                                            *)

PartsStep ==
  /\ [TariffsNext]_tariffVars
  /\ [FactorsNext]_factorVars
  /\ [IntervalNext]_intervalVars
  /\ [CommunitiesNext]_communityVars
  /\ [CacheNext]_cacheVars

LEMMA AdministrationSteps == [AdministrationNext]_administrationVars => PartsStep
<1>1. ASSUME AdministrationNext PROVE PartsStep
  <2>1. CASE MembersTopic
    BY <2>1 DEF MembersTopic, PartsStep
  <2>2. CASE TariffsTopic
    BY <2>2 DEF TariffsTopic, PartsStep
  <2>3. CASE FactorsTopic
    BY <2>3 DEF FactorsTopic, PartsStep
  <2>4. CASE IntervalTopic
    BY <2>4 DEF IntervalTopic, PartsStep
  <2>5. CASE CommunitiesTopic
    BY <2>5 DEF CommunitiesTopic, PartsStep
  <2>6. CASE CacheTopic
    BY <2>6 DEF CacheTopic, PartsStep
  <2> QED
    BY <1>1, <2>1, <2>2, <2>3, <2>4, <2>5, <2>6 DEF AdministrationNext
<1>2. UNCHANGED administrationVars => PartsStep
  BY DEF administrationVars, PartsStep
<1> QED
  BY <1>1, <1>2

\* Everything that is proved of a part holds of it in the administration, whose
\* steps are those of all the parts.
THEOREM AdministrationCorrect ==
  AdministrationSpec =>
    /\ TariffsSpec /\ FactorsSpec /\ IntervalSpec /\ CommunitiesSpec /\ CacheSpec
    /\ NoTariffLost /\ FormerFactorsStay
    /\ [](PricesUnambiguous /\ NoMonthStranded /\ RcOfOneCommunity /\ ListToAsker /\ NoStaleEntry)
<1>1. AdministrationInit => TariffsInit /\ FactorsInit /\ IntervalInit /\ CommunitiesInit /\ CacheInit
  BY DEF AdministrationInit
<1>2. [AdministrationNext]_administrationVars => PartsStep
  BY AdministrationSteps
<1>3. AdministrationSpec => TariffsSpec
  <2>1. PartsStep => [TariffsNext]_tariffVars
    BY DEF PartsStep
  <2> QED
    BY <1>1, <1>2, <2>1, PTL DEF AdministrationSpec, TariffsSpec
<1>4. AdministrationSpec => FactorsSpec
  <2>1. PartsStep => [FactorsNext]_factorVars
    BY DEF PartsStep
  <2> QED
    BY <1>1, <1>2, <2>1, PTL DEF AdministrationSpec, FactorsSpec
<1>5. AdministrationSpec => IntervalSpec
  <2>1. PartsStep => [IntervalNext]_intervalVars
    BY DEF PartsStep
  <2> QED
    BY <1>1, <1>2, <2>1, PTL DEF AdministrationSpec, IntervalSpec
<1>6. AdministrationSpec => CommunitiesSpec
  <2>1. PartsStep => [CommunitiesNext]_communityVars
    BY DEF PartsStep
  <2> QED
    BY <1>1, <1>2, <2>1, PTL DEF AdministrationSpec, CommunitiesSpec
<1>7. AdministrationSpec => CacheSpec
  <2>1. PartsStep => [CacheNext]_cacheVars
    BY DEF PartsStep
  <2> QED
    BY <1>1, <1>2, <2>1, PTL DEF AdministrationSpec, CacheSpec
<1> QED
  BY <1>3, <1>4, <1>5, <1>6, <1>7, NoTariffOverwritten, HistoryKeepsFactors, OnePriceAtATime,
     EveryMonthSettles, CommunitiesDiffer, ListsToAskers, ListsAreCurrent, PTL
=============================================================================
