---------------------------- MODULE PromiseProofs ----------------------------
(***************************************************************************)
(* The register implements Participation, for any number of metering       *)
(* points, members, communities, consents and days.                        *)
(*                                                                         *)
(* Every operation and message falls into one of three kinds, read off the *)
(* CASE expressions of its statement: it lets rows take part and touches   *)
(* no other row's part or first day (Begins); it touches no first day and  *)
(* lets nobody take part who did not (Ends); or it hands one row over to   *)
(* an unused key (Relocates).  That nobody else takes part with the same   *)
(* metering point, which Begin and Continue demand, is AtMostOneActive     *)
(* after the step.                                                         *)
(*                                                                         *)
(* At the end, what is left of it in the two modules that show where the   *)
(* register falls short: late answers, and late forms.                     *)
(***************************************************************************)
EXTENDS MeteringPointProofs, MeteringPointAnswers, MeteringPointForms

\* The invariants that the refinement rests on.
Safe == TypeOK /\ AllDated /\ AtMostOneActive

LEMMA SafeInvariance == Spec => []Safe
<1>1. Spec => []AtMostOneActive
  BY SpecIsSupported, OneMemberTakesPart, PTL
<1> QED
  BY <1>1, DatedInvariance, PTL DEF Safe

\* What the promise says of an entry, before and after a step.
LEMMA ReadOff ==
  /\ active \in [Keys -> BOOLEAN] /\ active' \in [Keys -> BOOLEAN]
  /\ first = [k \in Keys |-> first[k]] /\ first' = [k \in Keys |-> first'[k]]
  /\ \A k \in Keys :
       /\ active[k] <=> row[k] # NoRow /\ row[k].status = "ACTIVE"
       /\ active'[k] <=> row'[k] # NoRow /\ row'[k].status = "ACTIVE"
       /\ first[k] = IF row[k] # NoRow THEN row[k].since ELSE NoDate
       /\ first'[k] = IF row'[k] # NoRow THEN row'[k].since ELSE NoDate
BY DEF active, first, Stored, TakesPart

LEMMA SameNames ==
  Promise!Entries = Keys /\ Promise!Dates = Dates /\ Promise!NoDate = NoDate
BY DEF Promise!Entries, Keys, Promise!Dates, Dates, Promise!NoDate, NoDate

-----------------------------------------------------------------------------
(* The three kinds of steps. *)

SameEntry(k) == (active'[k] <=> active[k]) /\ first'[k] = first[k]

Begins(B) ==
  \A k \in Keys :
     IF k \in B THEN /\ active'[k] /\ first'[k] \in Dates
                     /\ first[k] = NoDate \/ first'[k] <= first[k]
                ELSE SameEntry(k)

Ends == \A k \in Keys : first'[k] = first[k] /\ (active'[k] => active[k])

LEMMA FirstTyped == Safe => first \in [Keys -> Dates \cup {NoDate}]
<1> SUFFICES ASSUME Safe, NEW k \in Keys PROVE first[k] \in Dates \cup {NoDate}
  BY ReadOff
<1>1. row[k] \in Row \cup {NoRow}
  BY DEF Safe, TypeOK
<1> QED
  BY <1>1, ReadOff DEF Row

\* Of two rivals, one at most takes part.
LEMMA RivalsExclude ==
  ASSUME Safe, NEW k \in Keys, NEW l \in Keys, Promise!Rivals(k, l), active[k]
  PROVE  ~active[l]
<1>1. Rivals(k, l)
  BY DEF Promise!Rivals, Rivals, Tenant
<1> QED
  BY <1>1, ReadOff DEF Safe, AtMostOneActive, Stored, TakesPart

LEMMA RivalsExcludeNext ==
  ASSUME Safe', NEW k \in Keys, NEW l \in Keys, Promise!Rivals(k, l), active'[k]
  PROVE  ~active'[l]
<1>1. Rivals(k, l)
  BY DEF Promise!Rivals, Rivals, Tenant
<1> QED
  BY <1>1, ReadOff DEF Safe, AtMostOneActive, Stored, TakesPart

LEMMA BeginsIsBegin ==
  ASSUME Safe, Safe', NEW B \in SUBSET Keys, Begins(B)
  PROVE  Promise!Begin(B)
<1>1. ASSUME NEW k \in B, NEW l \in Promise!Entries, Promise!Rivals(k, l)
      PROVE  l \notin B /\ ~active[l]
  <2>1. l \in Keys
    BY SameNames
  <2>2. ~active'[l]
    BY <1>1, <2>1, RivalsExcludeNext DEF Begins
  <2> QED
    BY <2>1, <2>2 DEF Begins, SameEntry
<1>2. active' = [k \in Promise!Entries |-> active[k] \/ k \in B]
  <2>1. \A k \in Keys : active'[k] = (active[k] \/ k \in B)
    BY ReadOff DEF Begins, SameEntry
  <2> QED
    BY <2>1, ReadOff, SameNames
<1>3. first' \in [Promise!Entries -> Promise!Dates \cup {Promise!NoDate}]
  <2>1. \A k \in Keys : first'[k] \in Dates \cup {NoDate}
    BY FirstTyped DEF Begins, SameEntry
  <2> QED
    BY <2>1, ReadOff, SameNames
<1>4. \A k \in Promise!Entries :
        IF k \in B
          THEN first'[k] \in Promise!Dates /\ (first[k] = Promise!NoDate \/ first'[k] <= first[k])
          ELSE first'[k] = first[k]
  BY SameNames DEF Begins, SameEntry
<1> QED
  BY <1>1, <1>2, <1>3, <1>4, Zenon DEF Promise!Begin

LEMMA EndsIsEnd ==
  ASSUME Ends
  PROVE  \E B \in SUBSET Keys : Promise!End(B)
<1> DEFINE B == {k \in Keys : ~active'[k]}
<1>1. active' = [k \in Keys |-> active[k] /\ k \notin B]
  <2>1. \A k \in Keys : active'[k] = (active[k] /\ k \notin B)
    BY ReadOff DEF Ends
  <2> QED
    BY <2>1, ReadOff
<1>2. first' = first
  BY ReadOff DEF Ends
<1> QED
  BY <1>1, <1>2 DEF Promise!End, Promise!Entries, Keys

LEMMA RelocatesIsContinue ==
  ASSUME Safe, Safe', Relocates
  PROVE  \E k, l \in Promise!Entries : k # l /\ Promise!Continue(k, l)
<1>1. PICK k \in Stored, l \in Keys \ Stored :
         Tenant(l) = Tenant(k) /\ row' = [row EXCEPT ![k] = NoRow, ![l] = row[k]]
  BY DEF Relocates
<1>2. k \in Keys /\ l \in Keys /\ k # l /\ row[k] # NoRow /\ row[l] = NoRow
  BY DEF Stored
<1>3. /\ row'[k] = NoRow /\ row'[l] = row[k]
      /\ \A g \in Keys \ {k, l} : row'[g] = row[g]
  BY <1>1, <1>2 DEF Safe, TypeOK
<1>4. ~active[l] /\ first[l] = NoDate
  BY <1>2, ReadOff
<1>5. active' = [active EXCEPT ![k] = FALSE, ![l] = active[k]]
  <2>1. active'[k] = FALSE /\ active'[l] = active[k]
    BY <1>2, <1>3, ReadOff
  <2>2. \A g \in Keys \ {k, l} : active'[g] = active[g]
    BY <1>3, ReadOff
  <2> QED
    BY <1>2, <2>1, <2>2, ReadOff
<1>6. first' = [first EXCEPT ![k] = NoDate, ![l] = first[k]]
  <2>1. first'[k] = NoDate /\ first'[l] = first[k]
    BY <1>2, <1>3, ReadOff
  <2>2. \A g \in Keys \ {k, l} : first'[g] = first[g]
    BY <1>3, ReadOff
  <2> QED
    BY <1>2, <2>1, <2>2, ReadOff
<1>7. ASSUME active[k], NEW g \in Keys \ {k}, Promise!Rivals(l, g)
      PROVE  ~active[g]
  <2>1. g # l
    BY <1>7 DEF Promise!Rivals
  <2>2. active'[l]
    BY <1>2, <1>3, <1>7, ReadOff
  <2>3. ~active'[g]
    BY <1>2, <1>7, <2>2, RivalsExcludeNext
  <2> QED
    BY <1>3, <1>7, <2>1, <2>3, ReadOff
<1>8. TenantOf[k[2]] = TenantOf[l[2]]
  BY <1>1 DEF Tenant
<1>9. Promise!Continue(k, l)
  BY <1>4, <1>5, <1>6, <1>7, <1>8, SameNames, Zenon DEF Promise!Continue
<1> QED
  BY <1>2, <1>9, SameNames

-----------------------------------------------------------------------------
(* Every step is of one of the three kinds. *)

\* The rows B are active after a step in which every row evolves.
LEMMA EvolvesBegins ==
  ASSUME Safe, RowsEvolve, NEW B \in SUBSET Keys,
         \A k \in B : row'[k] # NoRow /\ row'[k].status = "ACTIVE",
         \A k \in Keys \ B : SameEntry(k)
  PROVE  Begins(B)
<1> SUFFICES ASSUME NEW k \in B
             PROVE  /\ active'[k] /\ first'[k] \in Dates
                    /\ first[k] = NoDate \/ first'[k] <= first[k]
  BY DEF Begins
<1>1. active'[k] /\ first'[k] = row'[k].since
  BY ReadOff
<1>2. row'[k] \in Row /\ Dated(row'[k])
  BY DEF RowsEvolve, Evolves
<1>3. first'[k] \in Dates
  BY <1>1, <1>2 DEF Row, Dated
<1>4. CASE k \in Stored
  <2>1. first[k] = row[k].since /\ Evolves(row[k], row'[k])
    BY <1>4, ReadOff DEF RowsEvolve, Stored
  <2> QED
    BY <1>1, <1>3, <2>1 DEF Evolves
<1>5. CASE k \notin Stored
  BY <1>1, <1>3, <1>5, ReadOff DEF Stored
<1> QED
  BY <1>4, <1>5

\* No row is activated, and none that stays changes its first day.
LEMMA EvolvesEnds ==
  ASSUME Safe,
         \A k \in Keys :
           \/ row'[k] = row[k]
           \/ /\ row[k] # NoRow => row[k].since = NoDate
              /\ row'[k] # NoRow => row'[k].since = NoDate /\ row'[k].status # "ACTIVE"
           \/ /\ row[k] # NoRow /\ row'[k] # NoRow
              /\ row'[k].since = row[k].since
              /\ row'[k].status = "ACTIVE" => row[k].status = "ACTIVE"
  PROVE  Ends
BY ReadOff DEF Ends

StepKind == (\E B \in SUBSET Keys : Begins(B)) \/ Ends \/ Relocates

\* A registration begins the participation of what it inserts as active; the
\* rows it leaves behind had ended.
LEMMA RegisterKind ==
  ASSUME Safe, NEW p \in Participants, Register(p), RowsEvolve
  PROVE  StepKind
<1>1. PICK M \in SUBSET Meters, ps \in InsertStates, since \in Dates,
           until \in Dates \cup {Far}, c \in ConsentIds \cup {NoConsent} :
           SaveMeteringPoint(p, M, NewRow(ps, since, until, c))
  BY DEF Register
<1> DEFINE new == NewRow(ps, since, until, c)
           B == {k \in Keys : k[1] \in M /\ k[2] = p}
<1>2. /\ new.since = IF ps = "ACTIVE" THEN since ELSE NoDate
      /\ new.status = CalcState(ps)
      /\ new \in Row /\ NoRow \notin Row
  BY InsertAssumption, NewRowTyped, TenantAssumption DEF NewRow
<1>3. SaveMeteringPoint(p, M, new)
  BY <1>1
<1> HIDE DEF new
<1>4. ASSUME NEW k \in Former(TenantOf[p], M)
      PROVE  /\ row[k] # NoRow /\ row[k].status = "INACTIVE"
             /\ FormerRow(row[k]).since = row[k].since
             /\ FormerRow(row[k]).status = "INACTIVE"
             /\ FormerRow(row[k]) # NoRow
  <2>1. k \in Stored /\ row[k].status = "INACTIVE"
    BY DEF Former, Of
  <2>2. row[k] \in Row
    BY <2>1, StoredRow DEF Safe
  <2>3. FormerRow(row[k]) \in Row
    BY <2>2, DateAssumption, RewrittenTyped DEF Dates
  <2> QED
    BY <2>1, <2>2, <2>3, TenantAssumption DEF FormerRow, Row, Stored
<1>5. ASSUME NEW k \in B
      PROVE  row[k] = NoRow /\ row'[k] = new
  <2>1. k = <<k[1], p>> /\ k[1] \in M
    BY DEF Keys
  <2>2. k \notin Stored
    BY <1>3, <2>1 DEF SaveMeteringPoint
  <2>3. k \notin Former(TenantOf[p], M)
    BY <2>2 DEF Former, Of
  <2> QED
    BY <1>3, <2>1, <2>2, <2>3 DEF SaveMeteringPoint, Stored
<1>6. ASSUME NEW k \in Keys \ B
      PROVE  \/ row'[k] = row[k]
             \/ /\ row[k] # NoRow /\ row'[k] # NoRow /\ row'[k].since = row[k].since
                /\ row[k].status = "INACTIVE" /\ row'[k].status = "INACTIVE"
  BY <1>3, <1>4 DEF SaveMeteringPoint
<1>7. CASE ps = "ACTIVE"
  <2>1. new # NoRow /\ new.status = "ACTIVE"
    BY <1>2, <1>7 DEF CalcState
  <2>2. \A k \in Keys \ B : SameEntry(k)
    BY <1>6, ReadOff DEF SameEntry
  <2>3. Begins(B)
    BY <1>5, <2>1, <2>2, EvolvesBegins
  <2> QED
    BY <2>3 DEF StepKind
<1>8. CASE ps # "ACTIVE"
  <2>1. new.since = NoDate /\ new.status # "ACTIVE"
    BY <1>2, <1>8 DEF CalcState
  <2>2. Ends
    BY <1>5, <1>6, <2>1, EvolvesEnds
  <2> QED
    BY <2>2 DEF StepKind
<1> QED
  BY <1>7, <1>8

LEMMA AdministrationKind ==
  ASSUME Safe, Administration
  PROVE  StepKind
<1>1. CASE Relocates
  BY <1>1 DEF StepKind
<1>2. CASE RowsEvolve
  <2>1. CASE \E p \in Participants : Register(p)
    BY <1>2, <2>1, RegisterKind
  <2>2. CASE \E p \in Participants : DeleteParticipant(p)
    <3>1. PICK p \in Participants : DeleteParticipant(p)
      BY <2>2
    <3>2. ASSUME NEW k \in Keys
          PROVE  IF k[2] = p THEN row'[k] = NoRow /\ (row[k] # NoRow => row[k].since = NoDate)
                             ELSE row'[k] = row[k]
      BY <3>1 DEF DeleteParticipant, NeverTookPart, Stored
    <3> QED
      BY <3>2, EvolvesEnds DEF StepKind
  <2>3. CASE \E k \in Keys : Remove(k)
    <3>1. PICK k \in Keys : Remove(k)
      BY <2>3
    <3>2. row'[k] = NoRow /\ row[k].since = NoDate
      BY <3>1 DEF Remove, Safe, TypeOK, AllDated, Dated
    <3>3. \A l \in Keys \ {k} : row'[l] = row[l]
      BY <3>1 DEF Remove, Safe, TypeOK
    <3> QED
      BY <3>2, <3>3, EvolvesEnds DEF StepKind
  <2>4. CASE \E k \in Keys : Archive(k)
    <3>1. PICK k \in Keys : Archive(k)
      BY <2>4
    <3>2. row[k] # NoRow /\ row[k] \in Row /\ ArchivedRow(row[k]) \in Row
      BY <3>1, StoredRow, ArchivedRowTyped DEF Archive, Safe, Stored
    <3>3. /\ row'[k] # NoRow /\ row'[k].since = row[k].since /\ row'[k].status # "ACTIVE"
          /\ \A l \in Keys \ {k} : row'[l] = row[l]
      BY <3>1, <3>2, TenantAssumption DEF Archive, ArchivedRow, Row, Safe, TypeOK
    <3> QED
      BY <3>2, <3>3, EvolvesEnds DEF StepKind
  <2>5. CASE \/ \E k \in Keys, q \in Participants : Move(k, q)
             \/ \E k \in Keys, n \in Meters : Renumber(k, n)
    <3>1. Relocates
      <4>1. CASE \E k \in Keys, q \in Participants : Move(k, q)
        BY <4>1 DEF Move, Relocates, Keys, Tenant
      <4>2. CASE \E k \in Keys, n \in Meters : Renumber(k, n)
        BY <4>2 DEF Renumber, Relocates, Keys, Tenant
      <4> QED
        BY <2>5, <4>1, <4>2
    <3> QED
      BY <3>1 DEF StepKind
  <2> QED
    BY <2>1, <2>2, <2>3, <2>4, <2>5 DEF Administration
<1> QED
  BY <1>1, <1>2, AdministrationSteps DEF Safe

LEMMA RegistrationKind ==
  ASSUME Safe, NEW t \in Tenants, Registration(t), RowsEvolve
  PROVE  StepKind
<1>1. PICK M \in SUBSET Meters, msg \in RegistrationMessages : SetStatus(t, M, msg)
  BY DEF Registration
<1>2. ASSUME NEW k \in Assigned(t, M)
      PROVE  /\ k \in Keys /\ row[k] # NoRow /\ row'[k] = StatusRow(row[k], msg)
             /\ row[k] \in Row /\ StatusRow(row[k], msg) # NoRow
             /\ StatusRow(row[k], msg).status =
                  IF msg.state = "ACTIVE" THEN "ACTIVE" ELSE row[k].status
             /\ StatusRow(row[k], msg).since =
                  IF row[k].since = NoDate THEN msg.since ELSE row[k].since
  <2>1. k \in Stored
    BY DEF Assigned, Of
  <2>2. row[k] \in Row
    BY <2>1, StoredRow DEF Safe
  <2>3. StatusRow(row[k], msg) \in Row
    BY <2>2, MessagesTyped, StatusRowTyped
  <2>4. k \in Keys /\ row[k] # NoRow
    BY <2>1 DEF Stored
  <2>5. row'[k] = StatusRow(row[k], msg)
    BY <1>1, <2>4 DEF SetStatus
  <2>6. /\ StatusRow(row[k], msg).status =
             IF msg.state = "ACTIVE" THEN "ACTIVE" ELSE row[k].status
        /\ StatusRow(row[k], msg).since =
             IF row[k].since = NoDate THEN msg.since ELSE row[k].since
    BY <2>2 DEF StatusRow, Row
  <2> QED
    BY <2>2, <2>3, <2>4, <2>5, <2>6, TenantAssumption
<1>3. \A k \in Keys \ Assigned(t, M) : row'[k] = row[k]
  BY <1>1 DEF SetStatus
<1>4. CASE msg.state = "ACTIVE"
  <2>1. \A k \in Keys \ Assigned(t, M) : SameEntry(k)
    BY <1>3, ReadOff DEF SameEntry
  <2>2. Assigned(t, M) \in SUBSET Keys
    BY <1>2
  <2>3. Begins(Assigned(t, M))
    BY <1>2, <1>4, <2>1, <2>2, EvolvesBegins
  <2> QED
    BY <2>2, <2>3 DEF StepKind
<1>5. CASE msg.state # "ACTIVE"
  <2>1. msg.since = NoDate
    BY <1>5 DEF RegistrationMessages
  <2>2. Ends
    BY <1>2, <1>3, <1>5, <2>1, EvolvesEnds
  <2> QED
    BY <2>2 DEF StepKind
<1> QED
  BY <1>4, <1>5

\* The grid operator's list begins what it names and may move a first day
\* earlier.
LEMMA SynchroniseKind ==
  ASSUME Safe, NEW t \in Tenants, Synchronise(t), RowsEvolve
  PROVE  StepKind
<1>1. PICK M \in SUBSET Meters, c \in ConsentIds \cup {NoConsent} :
         \E list \in [M -> Dates] : UpdateActiveMeteringPoints(t, list, c)
  BY DEF Synchronise
<1>2. PICK list \in [M -> Dates] : UpdateActiveMeteringPoints(t, list, c)
  BY <1>1
<1> DEFINE B == Assigned(t, DOMAIN list)
<1>3. ASSUME NEW k \in B
      PROVE  k \in Keys /\ row'[k] # NoRow /\ row'[k].status = "ACTIVE"
  <2>1. k \in Stored /\ k[1] \in DOMAIN list
    BY DEF Assigned, Of
  <2>2. row[k] \in Row /\ list[k[1]] \in Dates
    BY <2>1, StoredRow DEF Safe
  <2>3. /\ ListedRow(row[k], list[k[1]], c) \in Row
        /\ ListedRow(row[k], list[k[1]], c).status = "ACTIVE"
    <3>1. ListedRow(row[k], list[k[1]], c) \in Row
      BY <2>2, RewrittenTyped
    <3>2. ListedRow(row[k], list[k[1]], c).status = "ACTIVE"
      BY <2>2 DEF ListedRow, Row
    <3> QED
      BY <3>1, <3>2
  <2>4. k \in Keys /\ row'[k] = ListedRow(row[k], list[k[1]], c)
    BY <1>2, <2>1 DEF UpdateActiveMeteringPoints, Stored
  <2> QED
    BY <2>3, <2>4, TenantAssumption
<1>4. \A k \in Keys \ B : SameEntry(k)
  BY <1>2, ReadOff DEF UpdateActiveMeteringPoints, SameEntry
<1>5. B \in SUBSET Keys
  BY <1>3
<1>6. Begins(B)
  BY <1>3, <1>4, <1>5, EvolvesBegins
<1> QED
  BY <1>5, <1>6 DEF StepKind

\* The other messages change no first day and let nobody take part.
LEMMA KeepsFirstDay ==
  ASSUME NEW r \in Row, NEW d \in Dates
  PROVE  /\ \A s \in {RestoredRow(r), RevokedRow(r, d), ConsentRevokedRow(r, d)} :
              /\ s # NoRow /\ s.since = r.since
              /\ s.status = "ACTIVE" => r.status = "ACTIVE"
<1>1. /\ RestoredRow(r) # NoRow /\ RestoredRow(r).since = r.since
      /\ RestoredRow(r).status = r.status
  <2>1. RestoredRow(r) \in Row
    BY RewrittenTyped
  <2>2. RestoredRow(r).since = r.since /\ RestoredRow(r).status = r.status
    BY DEF RestoredRow, Row
  <2> QED
    BY <2>1, <2>2, TenantAssumption
<1>2. /\ RevokedRow(r, d) # NoRow /\ RevokedRow(r, d).since = r.since
      /\ RevokedRow(r, d).status # "ACTIVE"
  <2>1. RevokedRow(r, d) \in Row
    BY RewrittenTyped
  <2>2. RevokedRow(r, d).since = r.since /\ RevokedRow(r, d).status # "ACTIVE"
    BY DEF RevokedRow, Row
  <2> QED
    BY <2>1, <2>2, TenantAssumption
<1>3. /\ ConsentRevokedRow(r, d) # NoRow /\ ConsentRevokedRow(r, d).since = r.since
      /\ ConsentRevokedRow(r, d).status # "ACTIVE"
  <2>1. ConsentRevokedRow(r, d) \in Row
    BY RewrittenTyped
  <2>2. /\ ConsentRevokedRow(r, d).since = r.since
        /\ ConsentRevokedRow(r, d).status # "ACTIVE"
    BY DEF ConsentRevokedRow, Row
  <2> QED
    BY <2>1, <2>2, TenantAssumption
<1> QED
  BY <1>1, <1>2, <1>3

LEMMA GridOperatorKind ==
  ASSUME Safe, GridOperator
  PROVE  StepKind
<1>1. RowsEvolve
  BY GridOperatorSteps DEF Safe
<1>2. CASE \E t \in Tenants : Registration(t)
  BY <1>1, <1>2, RegistrationKind
<1>3. CASE \E t \in Tenants : Synchronise(t)
  BY <1>1, <1>3, SynchroniseKind
<1>4. CASE \A k \in Keys : \/ row'[k] = row[k]
                           \/ /\ k \in Stored
                              /\ \E d \in Dates : row'[k] \in {RestoredRow(row[k]),
                                   RevokedRow(row[k], d), ConsentRevokedRow(row[k], d)}
  <2>1. ASSUME NEW k \in Keys, row'[k] # row[k]
        PROVE  /\ row[k] # NoRow /\ row'[k] # NoRow /\ row'[k].since = row[k].since
               /\ row'[k].status = "ACTIVE" => row[k].status = "ACTIVE"
    <3>1. row[k] \in Row /\ row[k] # NoRow
      BY <1>4, <2>1, StoredRow DEF Safe, Stored
    <3> QED
      BY <1>4, <2>1, <3>1, KeepsFirstDay
  <2>2. Ends
    BY <2>1, EvolvesEnds
  <2> QED
    BY <2>2 DEF StepKind
<1>5. ASSUME NEW t \in Tenants, NEW m \in Meters, Restore(t, m)
      PROVE  StepKind
  <2>1. PICK d \in Dates : TRUE
    BY DateAssumption DEF Dates
  <2> QED
    BY <1>4, <1>5, <2>1 DEF Restore, Assigned, Of
<1>6. ASSUME NEW t \in Tenants, NEW m \in Meters, NEW d \in Dates, RevokeActive(t, m, d)
      PROVE  StepKind
  BY <1>4, <1>6 DEF RevokeActive, Assigned, Of
<1>7. ASSUME NEW rc \in Receivers, NEW c \in ConsentIds \cup {NoConsent}, NEW m \in Meters,
             NEW d \in Dates, RevokeByConsentId(rc, c, m, d)
      PROVE  StepKind
  <2>1. RevocationHits(rc, c, m) \subseteq Stored
    BY DEF RevocationHits
  <2> QED
    BY <1>4, <1>7, <2>1 DEF RevokeByConsentId
<1> QED
  BY <1>2, <1>3, <1>5, <1>6, <1>7 DEF GridOperator

-----------------------------------------------------------------------------
LEMMA InitIsInit == Init => Promise!Init
<1> SUFFICES ASSUME Init PROVE Promise!Init
  OBVIOUS
<1>1. \A k \in Keys : row[k] = NoRow
  BY DEF Init
<1>2. active = [k \in Keys |-> FALSE] /\ first = [k \in Keys |-> NoDate]
  BY <1>1 DEF active, first, Stored
<1> QED
  BY <1>2, SameNames DEF Promise!Init

LEMMA StepIsStep == Safe /\ Safe' /\ [Next]_row => [Promise!Next]_(Promise!vars)
<1> SUFFICES ASSUME Safe, Safe', [Next]_row PROVE Promise!Next \/ UNCHANGED Promise!vars
  OBVIOUS
<1>1. CASE UNCHANGED row
  <2>1. UNCHANGED <<active, first>>
    BY <1>1, ReadOff
  <2> QED
    BY <2>1 DEF Promise!vars
<1>2. CASE StepKind
  <2>1. CASE \E B \in SUBSET Keys : Begins(B)
    BY <2>1, BeginsIsBegin, SameNames DEF Promise!Next
  <2>2. CASE Ends
    BY <2>2, EndsIsEnd, SameNames DEF Promise!Next
  <2>3. CASE Relocates
    BY <2>3, RelocatesIsContinue DEF Promise!Next
  <2> QED
    BY <1>2, <2>1, <2>2, <2>3 DEF StepKind
<1> QED
  BY <1>1, <1>2, AdministrationKind, GridOperatorKind DEF Next

\* No sequence of operations of the administration and messages of the grid
\* operators loses a participation or its first day, moves that day later, or
\* lets two members of a community take part with one metering point.
THEOREM PromiseKept == Spec => KeepsPromise
<1>1. Init => Promise!Init
  BY InitIsInit
<1>2. Safe /\ Safe' /\ [Next]_row => [Promise!Next]_(Promise!vars)
  BY StepIsStep
<1> QED
  BY <1>1, <1>2, SafeInvariance, PTL DEF Spec, KeepsPromise, Promise!Spec

-----------------------------------------------------------------------------
(* Registrations and deregistrations alone.                                *)

LEMMA AnswersStep == [AnswersNext]_answerVars => [Next]_row
<1>1. ASSUME NEW p \in Participants, Register(p) PROVE Next
  BY <1>1 DEF Next, Administration
<1>2. ASSUME NEW t \in Tenants, NEW m \in Meters, NEW d \in Dates, Complete(t, m, d) PROVE Next
  <2> DEFINE msg == [state |-> "ACTIVE", keep |-> FALSE, since |-> d, consent |-> NoConsent]
  <2>1. SetStatus(t, {m}, msg)
    BY <1>2 DEF Complete
  <2>2. {m} \in (SUBSET Meters) \ {{}} /\ msg \in RegistrationMessages /\ msg.consent = NoConsent
    BY DEF RegistrationMessages
  <2> HIDE DEF msg
  <2>3. Registration(t)
    BY <2>1, <2>2 DEF Registration
  <2> QED
    BY <2>3 DEF Next, GridOperator
<1>3. ASSUME NEW t \in Tenants, NEW m \in Meters, NEW d \in Dates, Answer(t, m, d) PROVE Next
  BY <1>3 DEF Answer, Next, GridOperator
<1>4. UNCHANGED answerVars => UNCHANGED row
  BY DEF answerVars
<1> QED
  BY <1>1, <1>2, <1>3, <1>4 DEF AnswersNext

\* The registrations and deregistrations in which a late answer ends a newer
\* participation are behaviours of the register.  So the promise to billing is
\* kept even then: such an answer ends the participation too early, but nobody
\* loses his first day, and no two members take part with a metering point.
THEOREM AnswersImplementRegister == AnswersSpec => Spec /\ KeepsPromise
<1>1. AnswersInit => Init
  BY DEF AnswersInit
<1>2. AnswersSpec => Spec
  BY <1>1, AnswersStep, PTL DEF AnswersSpec, Spec
<1> QED
  BY <1>2, PromiseKept, PTL

-----------------------------------------------------------------------------
(* The register with the edit form.  A form that is saved late writes the  *)
(* state of a participation that has ended into the row left behind, which *)
(* nothing said of such rows can survive; but it writes what a row said.   *)

FormInv == /\ Core({})
           /\ form # NoForm => form.key \in Keys /\ form.read \in Row /\ Agrees(form.read, {})

LEMMA WrittenRowTyped ==
  ASSUME NEW r \in Row, NEW read \in Row, Agrees(read, {})
  PROVE  /\ WrittenRow(r, read) \in Row /\ WrittenRow(r, read).flag = r.flag
         /\ Agrees(WrittenRow(r, read), {})
<1> DEFINE since == IF read.since # NoDate THEN read.since ELSE r.since
<1>1. read.status \in Statuses /\ read.ps \in ProcessStates /\ since \in Dates \cup {NoDate}
  BY DEF Row
<1>2. WrittenRow(r, read) = [r EXCEPT !.status = read.status, !.ps = read.ps, !.since = since]
  BY DEF WrittenRow
<1> HIDE DEF since
<1>3. WrittenRow(r, read) \in Row /\ WrittenRow(r, read).flag = r.flag
  BY <1>1, <1>2 DEF Row
<1>4. Agrees(WrittenRow(r, read), {})
  BY <1>2 DEF Agrees, Row
<1> QED
  BY <1>3, <1>4

LEMMA SaveFormKeeps ==
  ASSUME FormInv, SaveForm
  PROVE  Core({})'
<1>1. form.key \in Keys /\ form.read \in Row /\ Agrees(form.read, {})
  BY DEF FormInv, SaveForm
<1>2. row' = [k \in Keys |-> IF k = form.key /\ k \in Stored
                               THEN WrittenRow(row[k], form.read) ELSE row[k]]
  BY DEF SaveForm
<1>3. ASSUME NEW k \in Stored
      PROVE  /\ WrittenRow(row[k], form.read) \in Row /\ Agrees(WrittenRow(row[k], form.read), {})
             /\ WrittenRow(row[k], form.read).flag = row[k].flag
  BY <1>1, StoredRow, WrittenRowTyped DEF FormInv, Core
<1>4. row' \in [Keys -> Row \cup {NoRow}]
  BY <1>2, <1>3 DEF FormInv, Core, TypeOK
<1>5. {} \in SUBSET LeftBehind
  OBVIOUS
<1> QED
  BY <1>2, <1>3, <1>4, <1>5, RewriteStep DEF FormInv

LEMMA FormStep == FormInv /\ [FormNext]_formVars => FormInv'
<1> SUFFICES ASSUME FormInv, [FormNext]_formVars PROVE FormInv'
  OBVIOUS
<1>1. {} \in SUBSET LeftBehind
  OBVIOUS
<1>2. CASE Next /\ UNCHANGED form
  <2>1. Core({})'
    BY <1>1, <1>2, CoreStep DEF FormInv
  <2> QED
    BY <1>2, <2>1 DEF FormInv, Agrees
<1>3. ASSUME NEW k \in Keys, OpenForm(k) PROVE FormInv'
  <2>1. k \in Keys /\ row[k] \in Row /\ Agrees(row[k], {})
    BY <1>3, StoredRow DEF OpenForm, FormInv, Core
  <2>2. Core({})'
    BY <1>1, <1>3, CoreStep DEF OpenForm, FormInv
  <2> QED
    BY <1>3, <2>1, <2>2 DEF OpenForm, FormInv, Agrees
<1>4. CASE SaveForm
  BY <1>4, SaveFormKeeps DEF SaveForm, FormInv
<1>5. CASE UNCHANGED formVars
  <2>1. Core({})'
    BY <1>1, <1>5, CoreStep DEF formVars, FormInv
  <2> QED
    BY <1>5, <2>1 DEF formVars, FormInv, Agrees
<1> QED
  BY <1>2, <1>3, <1>4, <1>5 DEF FormNext

\* What a form that is saved late leaves intact: in a community one row at most
\* is assigned to a metering point, and process state and status agree.  (It
\* does not leave AtMostOneActive and NeverBackToInit intact.)
THEOREM FormsSpareAssignment == FormSpec => [](OneAssigned /\ StatesAgree)
<1>1. FormInit => FormInv
  <2> SUFFICES ASSUME FormInit PROVE FormInv
    OBVIOUS
  <2>1. Init /\ form = NoForm /\ {} \in SUBSET LeftBehind
    BY DEF FormInit
  <2>2. Core({})
    BY <2>1, CoreInit
  <2> QED
    BY <2>1, <2>2 DEF FormInv
<1>2. FormInv => OneAssigned /\ StatesAgree
  BY DEF FormInv, Core, StatesAgree, Agrees
<1> QED
  BY <1>1, <1>2, FormStep, PTL DEF FormSpec
=============================================================================
