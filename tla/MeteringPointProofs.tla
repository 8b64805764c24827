------------------------ MODULE MeteringPointProofs ------------------------
(***************************************************************************)
(* Proofs about MeteringPoint, for any number of metering points, members, *)
(* communities, consents and days.                                         *)
(***************************************************************************)
EXTENDS MeteringPoint, TLAPS

\* The messages that any operation applies.
Messages == [state : ProcessStates, keep : BOOLEAN, since : Dates \cup {NoDate},
             consent : ConsentIds \cup {NoConsent}]

\* What StatesAgree and FormerRowsInactive say of one row; the latter of rows
\* with one of the given flags, since a form that is saved late breaks it.
Agrees(r, Flags) == /\ r.ps = "ACTIVE" => r.status = "ACTIVE"
                    /\ r.ps = "INACTIVE" => r.status = "INACTIVE"
                    /\ r.flag \in Flags => r.status = "INACTIVE"

LeftBehind == {F_MOVED, F_DELETED}

USE DEF NoDate, F_MOVED, F_ASSIGNED, F_DELETED

-----------------------------------------------------------------------------
(* What the statements make of a row. *)

\* The messages of the handlers and of the support tool are messages; none
\* reports INACTIVE.
LEMMA MessagesTyped ==
  ASSUME NEW msg \in RegistrationMessages \cup CorrectionMessages
  PROVE  msg \in Messages /\ msg.state # "INACTIVE"
BY DEF RegistrationMessages, CorrectionMessages, Messages, ProcessStates, Rejections

\* A message leaves a row that is typed, and agrees if it did before.
LEMMA StatusRowTyped ==
  ASSUME NEW r \in Row, NEW msg \in Messages
  PROVE  /\ StatusRow(r, msg) \in Row
         /\ StatusRow(r, msg).flag = r.flag
<1>1. MessageState(r, msg) \in ProcessStates
  BY DEF MessageState, KeptState, Row, Messages, ProcessStates
<1> DEFINE last == IF msg.state \in Rejections /\ Kept(r, msg) THEN msg.state ELSE "NULL"
           status == IF msg.state = "ACTIVE" THEN "ACTIVE" ELSE r.status
           since == IF r.since = NoDate THEN msg.since ELSE r.since
           until == IF msg.since # NoDate THEN Far ELSE r.until
           consent == IF msg.consent # NoConsent THEN msg.consent ELSE r.consent
<1>2. /\ last \in Rejections \cup {"NULL"}
      /\ status \in Statuses
      /\ since \in Dates \cup {NoDate}
      /\ until \in Dates \cup {NoDate, Far}
      /\ consent \in ConsentIds \cup {NoConsent}
  BY DEF Row, Messages, Statuses
<1>3. StatusRow(r, msg) = [r EXCEPT !.ps = MessageState(r, msg), !.last = last,
                             !.status = status, !.since = since, !.until = until,
                             !.consent = consent]
  BY DEF StatusRow
<1> HIDE DEF last, status, since, until, consent
<1> QED
  BY <1>1, <1>2, <1>3, ZenonT(60) DEF Row

LEMMA StatusRowAgrees ==
  ASSUME NEW Flags \in SUBSET LeftBehind,
         NEW r \in Row, NEW msg \in Messages, Agrees(r, Flags), r.flag = F_ASSIGNED,
         msg.state # "INACTIVE"
  PROVE  Agrees(StatusRow(r, msg), Flags)
BY DEF LeftBehind, Agrees, StatusRow, MessageState, Kept, KeptState, Ended, TakesPart, Row, Messages,
       Rejections

\* The other statements leave a typed row with the same flag.
LEMMA RewrittenTyped ==
  ASSUME NEW r \in Row, NEW d \in Dates, NEW c \in ConsentIds \cup {NoConsent}
  PROVE  /\ RestoredRow(r) \in Row /\ RestoredRow(r).flag = r.flag
         /\ RevokedRow(r, d) \in Row /\ RevokedRow(r, d).flag = r.flag
         /\ ConsentRevokedRow(r, d) \in Row /\ ConsentRevokedRow(r, d).flag = r.flag
         /\ ListedRow(r, d, c) \in Row /\ ListedRow(r, d, c).flag = r.flag
         /\ FormerRow(r) \in Row
<1>1. RestoredRow(r) \in Row /\ RestoredRow(r).flag = r.flag
  BY DEF RestoredRow, Row, ProcessStates
<1>2. RevokedRow(r, d) \in Row /\ RevokedRow(r, d).flag = r.flag
  BY DEF RevokedRow, Row, ProcessStates, Statuses
<1>3. ConsentRevokedRow(r, d) \in Row /\ ConsentRevokedRow(r, d).flag = r.flag
  <2>1. ConsentRevokedRow(r, d).ps \in ProcessStates /\ ConsentRevokedRow(r, d).status \in Statuses
    BY DEF ConsentRevokedRow, Row, ProcessStates, Statuses
  <2>2. CASE EndsRejected(r)
    BY <2>1, <2>2 DEF ConsentRevokedRow, EndsRejected, Row, Rejections, ProcessStates
  <2>3. CASE ~ EndsRejected(r)
    BY <2>1, <2>3 DEF ConsentRevokedRow, Row
  <2> QED BY <2>2, <2>3
<1>4. ListedRow(r, d, c) \in Row /\ ListedRow(r, d, c).flag = r.flag
  BY ZenonT(60) DEF ListedRow, Row, ProcessStates, Statuses
<1>5. FormerRow(r) \in Row
  BY DEF FormerRow, Row, ProcessStates
<1> QED
  BY <1>1, <1>2, <1>3, <1>4, <1>5

LEMMA RewrittenAgrees ==
  ASSUME NEW Flags \in SUBSET LeftBehind,
         NEW r \in Row, Agrees(r, Flags), NEW d \in Dates, NEW c \in ConsentIds \cup {NoConsent}
  PROVE  /\ Agrees(RestoredRow(r), Flags)
         /\ Agrees(RevokedRow(r, d), Flags)
         /\ Agrees(ConsentRevokedRow(r, d), Flags)
         /\ r.flag = F_ASSIGNED => Agrees(ListedRow(r, d, c), Flags)
         /\ r.status = "INACTIVE" => Agrees(FormerRow(r), Flags)
<1>1. Agrees(RestoredRow(r), Flags)
  BY DEF LeftBehind, Agrees, RestoredRow, Ended, Row
<1>2. Agrees(RevokedRow(r, d), Flags)
  BY DEF LeftBehind, Agrees, RevokedRow, Row
<1>3. Agrees(ConsentRevokedRow(r, d), Flags)
  BY DEF LeftBehind, Agrees, ConsentRevokedRow, EndsRejected, Row, Statuses, Rejections
<1>4. ASSUME r.flag = F_ASSIGNED PROVE Agrees(ListedRow(r, d, c), Flags)
  BY <1>4 DEF LeftBehind, Agrees, ListedRow, Row
<1>5. ASSUME r.status = "INACTIVE" PROVE Agrees(FormerRow(r), Flags)
  BY <1>5 DEF LeftBehind, Agrees, FormerRow, Row
<1> QED
  BY <1>1, <1>2, <1>3, <1>4, <1>5

\* A new row is typed, assigned, and agrees.
LEMMA NewRowTyped ==
  ASSUME NEW Flags \in SUBSET LeftBehind,
         NEW ps \in ProcessStates, NEW since \in Dates, NEW until \in Dates \cup {Far},
         NEW c \in ConsentIds \cup {NoConsent}
  PROVE  /\ NewRow(ps, since, until, c) \in Row
         /\ NewRow(ps, since, until, c).flag = F_ASSIGNED
         /\ Agrees(NewRow(ps, since, until, c), Flags)
<1>1. CalcState(ps) \in Statuses
  BY DEF CalcState, Statuses
<1>2. NewRow(ps, since, until, c) \in Row
  BY <1>1 DEF NewRow, Row
<1>3. Agrees(NewRow(ps, since, until, c), Flags)
  BY DEF LeftBehind, NewRow, Agrees, CalcState
<1> QED
  BY <1>2, <1>3 DEF NewRow

-----------------------------------------------------------------------------
(* One member at most takes part, also with corrections by the support tool. *)

Core(Flags) == /\ TypeOK
               /\ OneAssigned
               /\ \A k \in Stored : Agrees(row[k], Flags)

CoreInv == Core(LeftBehind)

\* A step that deletes rows, or rewrites rows into rows that agree and are
\* assigned only if they were, keeps the invariant.
LEMMA RewriteStep ==
  ASSUME NEW Flags \in SUBSET LeftBehind, Core(Flags), row' \in [Keys -> Row \cup {NoRow}],
         \A k \in Keys : \/ row'[k] = NoRow
                        \/ row'[k] = row[k]
                        \/ /\ k \in Stored /\ row'[k] \in Row /\ Agrees(row'[k], Flags)
                           /\ row'[k].flag = F_ASSIGNED => row[k].flag = F_ASSIGNED
  PROVE  Core(Flags)'
<1>1. \A k \in Stored' : /\ k \in Stored /\ Agrees(row'[k], Flags)
                         /\ row'[k].flag = F_ASSIGNED => row[k].flag = F_ASSIGNED
  BY DEF Core, Stored
<1>2. TypeOK'
  BY DEF TypeOK
<1>3. OneAssigned'
  BY <1>1 DEF Core, OneAssigned, Rivals, Tenant
<1>4. \A k \in Stored' : Agrees(row[k], Flags)'
  BY <1>1 DEF Agrees
<1> QED
  BY <1>2, <1>3, <1>4 DEF Core

\* Stored rows are rows.
LEMMA StoredRow ==
  ASSUME TypeOK, NEW k \in Stored
  PROVE  k \in Keys /\ row[k] \in Row
BY DEF TypeOK, Stored

LEMMA SetStatusKeepsCore ==
  ASSUME NEW Flags \in SUBSET LeftBehind,
         Core(Flags), NEW t, NEW M, NEW msg \in RegistrationMessages \cup CorrectionMessages,
         SetStatus(t, M, msg)
  PROVE  Core(Flags)'
<1>1. ASSUME NEW k \in Assigned(t, M)
      PROVE  /\ k \in Stored /\ StatusRow(row[k], msg) \in Row
             /\ Agrees(StatusRow(row[k], msg), Flags) /\ row[k].flag = F_ASSIGNED
  BY <1>1, MessagesTyped, StoredRow, StatusRowTyped, StatusRowAgrees
     DEF Assigned, Of, Core
<1> QED
  BY <1>1, RewriteStep DEF SetStatus, Core, TypeOK

LEMMA RestoreKeepsCore ==
  ASSUME NEW Flags \in SUBSET LeftBehind, Core(Flags), NEW t, NEW m, Restore(t, m)
  PROVE  Core(Flags)'
<1>1. ASSUME NEW k \in Assigned(t, {m})
      PROVE  /\ k \in Stored /\ RestoredRow(row[k]) \in Row
             /\ Agrees(RestoredRow(row[k]), Flags) /\ row[k].flag = F_ASSIGNED
  <2>1. PICK d \in Dates : TRUE
    BY DateAssumption DEF Dates
  <2> QED
    BY <2>1, StoredRow, RewrittenTyped, RewrittenAgrees DEF Assigned, Of, Core
<1> QED
  BY <1>1, RewriteStep DEF Restore, Core, TypeOK

LEMMA RevokedKeepsCore ==
  ASSUME NEW Flags \in SUBSET LeftBehind,
         Core(Flags), NEW t, NEW m, NEW S \in SUBSET Assigned(t, {m}), NEW d \in Dates,
         row' = [k \in Keys |-> IF k \in S THEN RevokedRow(row[k], d) ELSE row[k]]
  PROVE  Core(Flags)'
<1>1. ASSUME NEW k \in S
      PROVE  /\ k \in Stored /\ RevokedRow(row[k], d) \in Row
             /\ Agrees(RevokedRow(row[k], d), Flags) /\ row[k].flag = F_ASSIGNED
  BY StoredRow, RewrittenTyped, RewrittenAgrees DEF Assigned, Of, Core
<1> QED
  BY <1>1, RewriteStep DEF Core, TypeOK

\* The correction of the support tool that ends a participation.
LEMMA CorrectionKeepsCore ==
  ASSUME NEW Flags \in SUBSET LeftBehind, Core(Flags), NEW t, NEW m, NEW d \in Dates,
         row' = [k \in Keys |-> IF k \in Assigned(t, {m}) THEN RevokedRow(row[k], d) ELSE row[k]]
  PROVE  Core(Flags)'
<1>1. ASSUME NEW k \in Assigned(t, {m})
      PROVE  /\ k \in Stored /\ RevokedRow(row[k], d) \in Row
             /\ Agrees(RevokedRow(row[k], d), Flags) /\ row[k].flag = F_ASSIGNED
  BY StoredRow, RewrittenTyped, RewrittenAgrees DEF Assigned, Of, Core
<1> QED
  BY <1>1, RewriteStep DEF Core, TypeOK

LEMMA RevokeActiveKeepsCore ==
  ASSUME NEW Flags \in SUBSET LeftBehind,
         Core(Flags), NEW t, NEW m, NEW d \in Dates, RevokeActive(t, m, d)
  PROVE  Core(Flags)'
<1> DEFINE S == {k \in Assigned(t, {m}) : TakesPart(row[k]) /\ row[k].since <= d}
<1>1. row' = [k \in Keys |-> IF k \in S THEN RevokedRow(row[k], d) ELSE row[k]]
  BY DEF RevokeActive
<1>2. S \in SUBSET Assigned(t, {m})
  OBVIOUS
<1> HIDE DEF S
<1> QED
  BY <1>1, <1>2, RevokedKeepsCore, ZenonT(40)

LEMMA RevokeByConsentIdKeepsCore ==
  ASSUME NEW Flags \in SUBSET LeftBehind,
         Core(Flags), NEW rc, NEW c, NEW m, NEW d \in Dates, RevokeByConsentId(rc, c, m, d)
  PROVE  Core(Flags)'
<1>1. ASSUME NEW k \in RevocationHits(rc, c, m)
      PROVE  /\ k \in Stored /\ ConsentRevokedRow(row[k], d) \in Row
             /\ Agrees(ConsentRevokedRow(row[k], d), Flags)
             /\ ConsentRevokedRow(row[k], d).flag = row[k].flag
  <2>1. k \in Stored
    BY DEF RevocationHits
  <2> QED
    BY <2>1, StoredRow, RewrittenTyped, RewrittenAgrees DEF Core
<1> QED
  BY <1>1, RewriteStep DEF RevokeByConsentId, Core, TypeOK

LEMMA UpdateActiveKeepsCore ==
  ASSUME NEW Flags \in SUBSET LeftBehind,
         Core(Flags), NEW t, NEW M \in SUBSET Meters, NEW list \in [M -> Dates],
         NEW c \in ConsentIds \cup {NoConsent}, UpdateActiveMeteringPoints(t, list, c)
  PROVE  Core(Flags)'
<1>1. ASSUME NEW k \in Assigned(t, DOMAIN list)
      PROVE  /\ k \in Stored /\ ListedRow(row[k], list[k[1]], c) \in Row
             /\ Agrees(ListedRow(row[k], list[k[1]], c), Flags) /\ row[k].flag = F_ASSIGNED
  <2>1. k \in Stored /\ row[k].flag = F_ASSIGNED /\ list[k[1]] \in Dates
    BY DEF Assigned, Of
  <2> QED
    BY <2>1, StoredRow, RewrittenTyped, RewrittenAgrees DEF Core
<1> QED
  BY <1>1, RewriteStep DEF UpdateActiveMeteringPoints, Core, TypeOK

LEMMA ArchivedRowTyped ==
  ASSUME NEW Flags \in SUBSET LeftBehind, NEW r \in Row
  PROVE  ArchivedRow(r) \in Row /\ Agrees(ArchivedRow(r), Flags) /\ ArchivedRow(r).flag = F_DELETED
BY DEF ArchivedRow, Agrees, Row, Statuses, ProcessStates

LEMMA ArchiveKeepsCore ==
  ASSUME NEW Flags \in SUBSET LeftBehind, Core(Flags), NEW k \in Keys, Archive(k)
  PROVE  Core(Flags)'
BY StoredRow, ArchivedRowTyped, RewriteStep DEF Archive, Core, TypeOK

LEMMA DeletesKeepCore ==
  ASSUME NEW Flags \in SUBSET LeftBehind, Core(Flags), \/ \E k \in Keys : Remove(k)
                  \/ \E p \in Participants : DeleteParticipant(p)
  PROVE  Core(Flags)'
BY RewriteStep DEF Remove, DeleteParticipant, Core, TypeOK

\* The day a support correction writes changes neither status nor assignment.
LEMMA CorrectDatesKeepsCore ==
  ASSUME NEW Flags \in SUBSET LeftBehind, Core(Flags), NEW k \in Keys, CorrectDates(k)
  PROVE  Core(Flags)'
<1>1. k \in Stored /\ row[k] \in Row /\ Agrees(row[k], Flags)
  BY StoredRow DEF Core, CorrectDates
<1>2. PICK d \in Dates : \/ row' = [row EXCEPT ![k].since = d]
                         \/ row' = [row EXCEPT ![k].until = d]
  BY DEF CorrectDates
<1>3. CASE row' = [row EXCEPT ![k].since = d]
  <2>1. /\ [row[k] EXCEPT !.since = d] \in Row
        /\ Agrees([row[k] EXCEPT !.since = d], Flags)
        /\ [row[k] EXCEPT !.since = d].flag = row[k].flag
    BY <1>1 DEF Row, Agrees
  <2> QED
    BY <1>1, <1>3, <2>1, RewriteStep DEF Core, TypeOK
<1>4. CASE row' = [row EXCEPT ![k].until = d]
  <2>1. /\ [row[k] EXCEPT !.until = d] \in Row
        /\ Agrees([row[k] EXCEPT !.until = d], Flags)
        /\ [row[k] EXCEPT !.until = d].flag = row[k].flag
    BY <1>1 DEF Row, Agrees
  <2> QED
    BY <1>1, <1>4, <2>1, RewriteStep DEF Core, TypeOK
<1> QED
  BY <1>2, <1>3, <1>4

\* A registration: what is assigned already is inactive and becomes former.
LEMMA SaveKeepsCore ==
  ASSUME NEW Flags \in SUBSET LeftBehind, Core(Flags), NEW p \in Participants, NEW M \in SUBSET Meters,
         NEW new \in Row, Agrees(new, Flags), SaveMeteringPoint(p, M, new)
  PROVE  Core(Flags)'
<1> DEFINE t == TenantOf[p]
           F == Former(t, M)
<1>1. /\ \A m \in M : <<m, p>> \notin Stored
      /\ Assigned(t, M) \subseteq F
      /\ row' = [k \in Keys |-> CASE k[1] \in M /\ k[2] = p -> new
                                 [] k \in F -> FormerRow(row[k])
                                 [] OTHER -> row[k]]
  BY DEF SaveMeteringPoint
<1>2. ASSUME NEW k \in F
      PROVE  /\ k \in Stored /\ FormerRow(row[k]) \in Row
             /\ Agrees(FormerRow(row[k]), Flags) /\ FormerRow(row[k]).flag = F_MOVED
  <2>1. k \in Stored /\ row[k] \in Row /\ Agrees(row[k], Flags) /\ row[k].status = "INACTIVE"
    BY StoredRow DEF Former, Of, Core
  <2>2. PICK d \in Dates : TRUE
    BY DateAssumption DEF Dates
  <2>3. FormerRow(row[k]) \in Row /\ Agrees(FormerRow(row[k]), Flags)
    BY <2>1, <2>2, RewrittenTyped, RewrittenAgrees
  <2> QED
    BY <2>1, <2>3 DEF FormerRow, Row
<1>3. ASSUME NEW k \in Keys
      PROVE  \/ k[1] \in M /\ k[2] = p /\ row'[k] = new
             \/ k \in F /\ row'[k] = FormerRow(row[k]) /\ row'[k].flag = F_MOVED
             \/ ~(k[1] \in M /\ k[2] = p) /\ k \notin F /\ row'[k] = row[k]
  BY <1>1, <1>2
<1> HIDE DEF t, F
<1>4. TypeOK'
  <2>1. \A k \in Keys : row'[k] \in Row \cup {NoRow}
    BY <1>2, <1>3 DEF Core, TypeOK
  <2> QED
    BY <1>1, <2>1 DEF TypeOK
<1>5. \A k \in Stored' : Agrees(row[k], Flags)'
  BY <1>2, <1>3 DEF Core, Stored, Agrees
<1>6. ASSUME NEW k \in Stored', NEW l \in Stored', Rivals(k, l),
             row'[k].flag = F_ASSIGNED, row'[l].flag = F_ASSIGNED
      PROVE  FALSE
  <2>1. k \in Keys /\ l \in Keys
    BY DEF Stored
  <2>2. CASE k[1] \in M /\ k[2] = p
    <3>1. ~(l[1] \in M /\ l[2] = p)
      BY <1>6, <2>1, <2>2 DEF Rivals, Keys
    <3>2. row'[l] = row[l] /\ l \notin F
      BY <1>3, <1>6, <2>1, <3>1
    <3>3. l \in Assigned(t, M)
      BY <1>6, <2>1, <2>2, <3>2 DEF Assigned, Of, Stored, Rivals, Tenant, t
    <3> QED
      BY <1>1, <3>2, <3>3 DEF F, t
  <2>3. CASE l[1] \in M /\ l[2] = p
    <3>1. ~(k[1] \in M /\ k[2] = p)
      BY <1>6, <2>1, <2>3 DEF Rivals, Keys
    <3>2. row'[k] = row[k] /\ k \notin F
      BY <1>3, <1>6, <2>1, <3>1
    <3>3. k \in Assigned(t, M)
      BY <1>6, <2>1, <2>3, <3>2 DEF Assigned, Of, Stored, Rivals, Tenant, t
    <3> QED
      BY <1>1, <3>2, <3>3 DEF F, t
  <2>4. CASE ~(k[1] \in M /\ k[2] = p) /\ ~(l[1] \in M /\ l[2] = p)
    <3>1. row'[k] = row[k] /\ row'[l] = row[l]
      BY <1>3, <1>6, <2>1, <2>4
    <3> QED
      BY <1>6, <2>1, <3>1 DEF Core, OneAssigned, Stored, Rivals
  <2> QED
    BY <2>2, <2>3, <2>4
<1>7. OneAssigned'
  BY <1>6 DEF OneAssigned, Rivals, Tenant
<1> QED
  BY <1>4, <1>5, <1>7 DEF Core

\* A row that continues under an unused key: another member, another number.
LEMMA RelocationKeepsCore ==
  ASSUME NEW Flags \in SUBSET LeftBehind, Core(Flags), NEW k \in Stored, NEW l \in Keys \ Stored,
         row' = [row EXCEPT ![k] = NoRow, ![l] = row[k]],
         row[k].flag = F_ASSIGNED =>
            \A j \in Stored \ {k} : Rivals(l, j) => row[j].flag # F_ASSIGNED
  PROVE  Core(Flags)'
<1>1. k \in Keys /\ row[k] \in Row /\ Agrees(row[k], Flags) /\ k # l
  BY StoredRow DEF Core
<1>2. ASSUME NEW j \in Keys
      PROVE  row'[j] = IF j = l THEN row[k] ELSE IF j = k THEN NoRow ELSE row[j]
  BY <1>1 DEF Core, TypeOK
<1>3. TypeOK'
  BY <1>1 DEF Core, TypeOK
<1>4. Stored' = (Stored \ {k}) \cup {l}
  BY <1>1, <1>2, TenantAssumption DEF Stored
<1>5. \A j \in Stored' : Agrees(row[j], Flags)'
  BY <1>1, <1>2, <1>4 DEF Core, Agrees, Stored
<1>6. OneAssigned'
  <2>1. ASSUME NEW i \in Stored', NEW j \in Stored', Rivals(i, j),
               row'[i].flag = F_ASSIGNED, row'[j].flag = F_ASSIGNED
        PROVE  FALSE
    <3>1. i \in Keys /\ j \in Keys
      BY DEF Stored
    <3>2. CASE i = l
      <4>1. j \in Stored \ {k} /\ row'[j] = row[j] /\ row'[i] = row[k]
        BY <1>2, <1>4, <2>1, <3>1, <3>2 DEF Rivals
      <4> QED
        BY <2>1, <3>2, <4>1
    <3>3. CASE j = l
      <4>1. i \in Stored \ {k} /\ row'[i] = row[i] /\ row'[j] = row[k]
        BY <1>2, <1>4, <2>1, <3>1, <3>3 DEF Rivals
      <4>2. Rivals(l, i)
        BY <2>1, <3>3 DEF Rivals
      <4> QED
        BY <2>1, <4>1, <4>2
    <3>4. CASE i # l /\ j # l
      <4>1. i \in Stored /\ j \in Stored /\ row'[i] = row[i] /\ row'[j] = row[j]
        BY <1>2, <1>4, <2>1, <3>1, <3>4
      <4> QED
        BY <2>1, <4>1 DEF Core, OneAssigned
    <3> QED
      BY <3>2, <3>3, <3>4
  <2> QED
    BY <2>1 DEF OneAssigned, Rivals, Tenant
<1> QED
  BY <1>3, <1>5, <1>6 DEF Core

LEMMA MoveKeepsCore ==
  ASSUME NEW Flags \in SUBSET LeftBehind, Core(Flags), NEW k \in Keys, NEW q \in Participants, Move(k, q)
  PROVE  Core(Flags)'
<1> DEFINE l == <<k[1], q>>
<1>1. k \in Stored /\ l \in Keys \ Stored /\ Tenant(l) = Tenant(k) /\ l # k
  BY DEF Move, Keys, Tenant
<1>2. ASSUME row[k].flag = F_ASSIGNED, NEW j \in Stored \ {k}, Rivals(l, j)
      PROVE  row[j].flag # F_ASSIGNED
  <2>1. Rivals(k, j)
    BY <1>1, <1>2 DEF Rivals
  <2> QED
    BY <1>1, <1>2, <2>1 DEF Core, OneAssigned
<1>3. row' = [row EXCEPT ![k] = NoRow, ![l] = row[k]]
  BY DEF Move
<1> HIDE DEF l
<1> QED
  BY <1>1, <1>2, <1>3, RelocationKeepsCore

LEMMA RenumberKeepsCore ==
  ASSUME NEW Flags \in SUBSET LeftBehind, Core(Flags), NEW k \in Keys, NEW n \in Meters, Renumber(k, n)
  PROVE  Core(Flags)'
<1> DEFINE l == <<n, k[2]>>
<1>1. k \in Stored /\ l \in Keys \ Stored /\ Tenant(l) = Tenant(k) /\ l[1] = n
  BY DEF Renumber, Keys, Tenant
<1>2. ASSUME row[k].flag = F_ASSIGNED, NEW j \in Stored \ {k}, Rivals(l, j)
      PROVE  row[j].flag # F_ASSIGNED
  <2>1. j \in Of(Tenant(k), {n})
    BY <1>1, <1>2 DEF Rivals, Of
  <2>2. Assigned(Tenant(k), {n}) = {}
    BY <1>2 DEF Renumber
  <2> QED
    BY <2>1, <2>2 DEF Assigned
<1>3. row' = [row EXCEPT ![k] = NoRow, ![l] = row[k]]
  BY DEF Renumber
<1> HIDE DEF l
<1> QED
  BY <1>1, <1>2, <1>3, RelocationKeepsCore

LEMMA CoreStep ==
  ASSUME NEW Flags \in SUBSET LeftBehind, Core(Flags), [Next \/ Support]_row
  PROVE  Core(Flags)'
<1>1. CASE \E p \in Participants : Register(p)
  <2>1. PICK p \in Participants, M \in SUBSET Meters, ps \in InsertStates, since \in Dates,
             until \in Dates \cup {Far}, c \in ConsentIds \cup {NoConsent} :
             SaveMeteringPoint(p, M, NewRow(ps, since, until, c))
    BY <1>1 DEF Register
  <2> DEFINE new == NewRow(ps, since, until, c)
  <2>2. new \in Row /\ Agrees(new, Flags)
    BY InsertAssumption, NewRowTyped
  <2>3. SaveMeteringPoint(p, M, new)
    BY <2>1
  <2> HIDE DEF new
  <2> QED
    BY <2>2, <2>3, SaveKeepsCore
<1>2. CASE \/ \E k \in Keys : Remove(k)
           \/ \E p \in Participants : DeleteParticipant(p)
  BY <1>2, DeletesKeepCore
<1>3. CASE \E k \in Keys : Archive(k)
  BY <1>3, ArchiveKeepsCore
<1>4. CASE \E k \in Keys, q \in Participants : Move(k, q)
  BY <1>4, MoveKeepsCore
<1>5. CASE \E k \in Keys, n \in Meters : Renumber(k, n)
  BY <1>5, RenumberKeepsCore
<1>6. CASE \E t \in Tenants : Registration(t)
  BY <1>6, SetStatusKeepsCore DEF Registration
<1>7. CASE \E t \in Tenants : Synchronise(t)
  BY <1>7, UpdateActiveKeepsCore DEF Synchronise
<1>8. CASE \E t \in Tenants, m \in Meters : Restore(t, m)
  BY <1>8, RestoreKeepsCore
<1>9. CASE \E t \in Tenants, m \in Meters, d \in Dates : RevokeActive(t, m, d)
  BY <1>9, RevokeActiveKeepsCore
<1>10. CASE \E rc \in Receivers, c \in ConsentIds \cup {NoConsent}, m \in Meters, d \in Dates :
              RevokeByConsentId(rc, c, m, d)
  BY <1>10, RevokeByConsentIdKeepsCore
<1>11. CASE \E t \in Tenants, m \in Meters : Correct(t, m)
  <2>1. PICK t \in Tenants, m \in Meters : Correct(t, m)
    BY <1>11
  <2>2. CASE \E msg \in CorrectionMessages : SetStatus(t, {m}, msg)
    BY <2>2, SetStatusKeepsCore
  <2>3. CASE \E d \in Dates : row' = [k \in Keys |-> IF k \in Assigned(t, {m})
                                                     THEN RevokedRow(row[k], d) ELSE row[k]]
    <3>1. PICK d \in Dates : row' = [k \in Keys |-> IF k \in Assigned(t, {m})
                                                   THEN RevokedRow(row[k], d) ELSE row[k]]
      BY <2>3
    <3> QED
      BY <3>1, CorrectionKeepsCore
  <2> QED
    BY <2>1, <2>2, <2>3 DEF Correct
<1>12. CASE \E k \in Keys : CorrectDates(k)
  BY <1>12, CorrectDatesKeepsCore
<1>13. CASE \E p \in Participants : Confirm(p)
  BY <1>13, SetStatusKeepsCore DEF Confirm, CorrectionMessages
<1>14. CASE UNCHANGED row
  BY <1>14 DEF Core, TypeOK, OneAssigned, Rivals, Tenant, Stored
<1> QED
  BY <1>1, <1>2, <1>3, <1>4, <1>5, <1>6, <1>7, <1>8, <1>9, <1>10, <1>11, <1>12, <1>13, <1>14
     DEF Next, Administration, GridOperator, Support

LEMMA CoreInit ==
  ASSUME NEW Flags \in SUBSET LeftBehind, Init
  PROVE  Core(Flags)
BY DEF Init, Core, TypeOK, OneAssigned, Stored

\* Without the support tool is a special case of with it.
LEMMA SpecIsSupported == Spec => SupportedSpec
<1>1. [Next]_row => [Next \/ Support]_row
  OBVIOUS
<1> QED
  BY <1>1, PTL DEF Spec, SupportedSpec

LEMMA CoreInvariance == SupportedSpec => []CoreInv
<1>1. Init => CoreInv
  BY CoreInit DEF CoreInv
<1>2. CoreInv /\ [Next \/ Support]_row => CoreInv'
  BY CoreStep DEF CoreInv
<1> QED
  BY <1>1, <1>2, PTL DEF SupportedSpec

\* The table is well typed, with every operation of the backend and every
\* correction of the support tool.
THEOREM TypeCorrect == SupportedSpec => []TypeOK
<1>1. CoreInv => TypeOK
  BY DEF CoreInv, Core
<1> QED
  BY <1>1, CoreInvariance, PTL

\* No member's participation overlaps another's with the same metering point
\* in the same community, and process state and status agree, even when the
\* support tool sets states and dates by hand.
THEOREM OneMemberTakesPart == SupportedSpec => [](AtMostOneActive /\ StatesAgree)
<1>1. CoreInv => AtMostOneActive /\ StatesAgree
  <2> SUFFICES ASSUME CoreInv PROVE AtMostOneActive /\ StatesAgree
    OBVIOUS
  <2>1. AtMostOneActive
    BY DEF CoreInv, Core, AtMostOneActive, OneAssigned, Agrees, TakesPart, LeftBehind, TypeOK, Row, Stored
  <2>2. StatesAgree
    BY DEF CoreInv, Core, StatesAgree, Agrees
  <2> QED
    BY <2>1, <2>2
<1> QED
  BY <1>1, CoreInvariance, PTL

-----------------------------------------------------------------------------
(* Dates and status, without the support tool. *)

\* What DatesFollowStatus and EndedNeverRejected say of one row.
Dated(r) == /\ r.status = "ACTIVE" => r.since # NoDate
            /\ r.status = "INIT" => r.since = NoDate
            /\ r.since # NoDate => r.until # NoDate
            /\ Ended(r) => r.ps \notin Rejections

\* What an operation may make of a row: dated again, never back to INIT, the
\* first day kept or moved earlier.
Evolves(r, s) == /\ Dated(s)
                 /\ r.status # "INIT" => s.status # "INIT"
                 /\ r.since # NoDate => s.since # NoDate /\ s.since <= r.since

LEMMA DatesAreDays ==
  /\ \A d \in Dates : d \in Nat /\ d # NoDate
  /\ Far \in Nat /\ Far # NoDate
BY DateAssumption DEF Dates, Far

LEMMA StatusRowEvolves ==
  ASSUME NEW r \in Row, Dated(r), NEW msg \in RegistrationMessages
  PROVE  Evolves(r, StatusRow(r, msg))
<1> DEFINE s == StatusRow(r, msg)
<1>1. /\ s.ps = MessageState(r, msg)
      /\ s.status = IF msg.state = "ACTIVE" THEN "ACTIVE" ELSE r.status
      /\ s.since = IF r.since = NoDate THEN msg.since ELSE r.since
      /\ s.until = IF msg.since # NoDate THEN Far ELSE r.until
  BY DEF StatusRow, Row
<1>2. /\ msg.state = "ACTIVE" <=> msg.since # NoDate
      /\ msg.since # NoDate => msg.since \in Dates
      /\ msg.state # "INACTIVE"
  BY DatesAreDays DEF RegistrationMessages, Rejections
<1>3. r.since \in Nat /\ r.status \in Statuses
  BY DatesAreDays DEF Row
<1>4. /\ s.status = "ACTIVE" => s.since # NoDate
      /\ s.status = "INIT" => s.since = NoDate
      /\ s.since # NoDate => s.until # NoDate
  BY <1>1, <1>2, <1>3, DatesAreDays DEF Dated, Statuses
<1>5. Ended(s) => s.ps \notin Rejections
  <2>1. CASE msg.state \in Rejections
    <3>1. Ended(s) <=> Ended(r)
      BY <1>1, <1>2, <2>1 DEF Ended, Rejections
    <3> QED
      BY <1>1, <2>1, <3>1 DEF MessageState, Rejections
  <2>2. CASE msg.state \notin Rejections
    BY <1>1, <2>2 DEF MessageState, Rejections
  <2> QED
    BY <2>1, <2>2
<1>6. /\ r.status # "INIT" => s.status # "INIT"
      /\ r.since # NoDate => s.since # NoDate /\ s.since <= r.since
  BY <1>1, <1>3
<1> QED
  BY <1>4, <1>5, <1>6 DEF Evolves, Dated

LEMMA RewrittenEvolves ==
  ASSUME NEW r \in Row, Dated(r), NEW d \in Dates, NEW c \in ConsentIds \cup {NoConsent}
  PROVE  /\ Evolves(r, RestoredRow(r))
         /\ r.status = "ACTIVE" => Evolves(r, RevokedRow(r, d))
         /\ Evolves(r, ConsentRevokedRow(r, d))
         /\ Evolves(r, ListedRow(r, d, c))
         /\ Evolves(r, ArchivedRow(r))
         /\ Evolves(r, FormerRow(r))
         /\ Evolves(r, r)
<1>1. /\ r.since \in Nat /\ r.until \in Nat /\ r.status \in Statuses /\ r.ps \in ProcessStates
      /\ r.since <= r.since
      /\ d \in Nat /\ d # NoDate /\ Far # NoDate
  BY DatesAreDays DEF Row
<1>2. Evolves(r, RestoredRow(r))
  BY <1>1 DEF Evolves, Dated, RestoredRow, Ended, Row, Rejections
<1>3. r.status = "ACTIVE" => Evolves(r, RevokedRow(r, d))
  BY <1>1 DEF Evolves, Dated, RevokedRow, Ended, Row, Rejections
<1>4. Evolves(r, ConsentRevokedRow(r, d))
  BY <1>1 DEF Evolves, Dated, ConsentRevokedRow, EndsRejected, Ended, Row, Rejections, Statuses
<1>5. Evolves(r, ListedRow(r, d, c))
  BY <1>1 DEF Evolves, Dated, ListedRow, Ended, Row, Rejections
<1>6. Evolves(r, ArchivedRow(r))
  BY <1>1 DEF Evolves, Dated, ArchivedRow, Ended, Row, Rejections
<1>7. Evolves(r, FormerRow(r))
  BY <1>1 DEF Evolves, Dated, FormerRow, Ended, Row, Rejections
<1>8. Evolves(r, r)
  BY <1>1 DEF Evolves, Dated
<1> QED
  BY <1>2, <1>3, <1>4, <1>5, <1>6, <1>7, <1>8

LEMMA NewRowDated ==
  ASSUME NEW ps \in ProcessStates, NEW since \in Dates, NEW until \in Dates \cup {Far},
         NEW c \in ConsentIds \cup {NoConsent}
  PROVE  Dated(NewRow(ps, since, until, c))
BY DatesAreDays DEF NewRow, Dated, CalcState, Ended, Rejections

\* One operation or message: every row evolves or, still INIT, is deleted;
\* new rows are dated; or one row continues under an unused key.
RowsEvolve ==
  \A k \in Keys :
    IF k \in Stored THEN \/ row'[k] = NoRow /\ row[k].status = "INIT"
                         \/ row'[k] \in Row /\ Evolves(row[k], row'[k])
                    ELSE row'[k] = NoRow \/ (row'[k] \in Row /\ Dated(row'[k]))

Relocates ==
  \E k \in Stored, l \in Keys \ Stored :
     Tenant(l) = Tenant(k) /\ row' = [row EXCEPT ![k] = NoRow, ![l] = row[k]]

AllDated == \A k \in Stored : Dated(row[k])

LEMMA AdministrationSteps ==
  ASSUME TypeOK, AllDated, Administration
  PROVE  RowsEvolve \/ Relocates
<1>1. CASE \E p \in Participants : Register(p)
  <2>1. PICK p \in Participants, M \in SUBSET Meters, ps \in InsertStates, since \in Dates,
             until \in Dates \cup {Far}, c \in ConsentIds \cup {NoConsent} :
             SaveMeteringPoint(p, M, NewRow(ps, since, until, c))
    BY <1>1 DEF Register
  <2> DEFINE new == NewRow(ps, since, until, c)
  <2>2. new \in Row /\ Dated(new)
    BY InsertAssumption, NewRowTyped, NewRowDated
  <2>3. SaveMeteringPoint(p, M, new)
    BY <2>1
  <2> HIDE DEF new
  <2>4. \A k \in Stored : /\ FormerRow(row[k]) \in Row /\ Evolves(row[k], FormerRow(row[k]))
                          /\ row[k] \in Row /\ Evolves(row[k], row[k])
    BY <2>1, StoredRow, RewrittenTyped, RewrittenEvolves DEF AllDated
  <2>5. ASSUME NEW k \in Keys
        PROVE  \/ k \notin Stored /\ row'[k] = new
               \/ k \in Stored /\ row'[k] = FormerRow(row[k])
               \/ row'[k] = row[k]
    <3>1. k[1] \in M /\ k[2] = p => k \notin Stored
      BY <2>3 DEF SaveMeteringPoint, Keys
    <3>2. Former(TenantOf[p], M) \subseteq Stored
      BY DEF Former, Of
    <3> QED
      BY <2>3, <3>1, <3>2 DEF SaveMeteringPoint
  <2> QED
    BY <2>2, <2>4, <2>5 DEF RowsEvolve, Stored
<1>2. CASE \E p \in Participants : DeleteParticipant(p)
  <2>1. \A k \in Stored : row[k] \in Row /\ Evolves(row[k], row[k])
    BY StoredRow, RewrittenEvolves, DateAssumption DEF AllDated, Dates
  <2>2. PICK p \in Participants : DeleteParticipant(p)
    BY <1>2
  <2>3. ASSUME NEW k \in Keys
        PROVE  IF k[2] = p THEN row'[k] = NoRow /\ (k \in Stored => row[k].status = "INIT")
                           ELSE row'[k] = row[k]
    BY <2>2 DEF DeleteParticipant, NeverTookPart
  <2>4. \A k \in Keys : k \in Stored <=> row[k] # NoRow
    BY DEF Stored
  <2>5. \A k \in Keys :
           IF k \in Stored THEN \/ row'[k] = NoRow /\ row[k].status = "INIT"
                                \/ row'[k] \in Row /\ Evolves(row[k], row'[k])
                           ELSE row'[k] = NoRow
    BY <2>1, <2>3, <2>4, Zenon
  <2> QED
    BY <2>5 DEF RowsEvolve
<1>3. CASE \E k \in Keys : Remove(k) \/ Archive(k)
  <2>1. \A k \in Stored : /\ row[k] \in Row /\ Evolves(row[k], row[k])
                          /\ ArchivedRow(row[k]) \in Row /\ Evolves(row[k], ArchivedRow(row[k]))
    <3>1. PICK d \in Dates : TRUE
      BY DateAssumption DEF Dates
    <3> QED
      BY <3>1, StoredRow, RewrittenEvolves, ArchivedRowTyped DEF AllDated
  <2>2. PICK k \in Keys : Remove(k) \/ Archive(k)
    BY <1>3
  <2>3. \A l \in Keys \ {k} : row'[l] = row[l]
    BY <2>2 DEF Remove, Archive, TypeOK
  <2>4. \/ k \in Stored /\ row'[k] = NoRow /\ row[k].status = "INIT"
        \/ k \in Stored /\ row'[k] = ArchivedRow(row[k])
    BY <2>2 DEF Remove, Archive, TypeOK
  <2>5. \A l \in Keys : l \in Stored <=> row[l] # NoRow
    BY DEF Stored
  <2>6. ASSUME NEW l \in Keys
        PROVE  IF l \in Stored THEN \/ row'[l] = NoRow /\ row[l].status = "INIT"
                                    \/ row'[l] \in Row /\ Evolves(row[l], row'[l])
                               ELSE row'[l] = NoRow
    <3>1. CASE l = k
      BY <3>1, <2>1, <2>4, Zenon
    <3>2. CASE l # k
      BY <3>2, <2>1, <2>3, <2>5, Zenon
    <3> QED
      BY <3>1, <3>2
  <2> QED
    BY <2>6 DEF RowsEvolve
<1>4. CASE \E k \in Keys, q \in Participants : Move(k, q)
  <2>1. PICK k \in Keys, q \in Participants : Move(k, q)
    BY <1>4
  <2>2. <<k[1], q>> \in Keys \ Stored /\ Tenant(<<k[1], q>>) = Tenant(k)
    BY <2>1 DEF Move, Keys, Tenant
  <2> QED
    BY <2>1, <2>2 DEF Move, Relocates
<1>5. CASE \E k \in Keys, n \in Meters : Renumber(k, n)
  <2>1. PICK k \in Keys, n \in Meters : Renumber(k, n)
    BY <1>5
  <2>2. <<n, k[2]>> \in Keys \ Stored /\ Tenant(<<n, k[2]>>) = Tenant(k)
    BY <2>1 DEF Renumber, Keys, Tenant
  <2> QED
    BY <2>1, <2>2 DEF Renumber, Relocates
<1> QED
  BY <1>1, <1>2, <1>3, <1>4, <1>5 DEF Administration

LEMMA GridOperatorSteps ==
  ASSUME TypeOK, AllDated, GridOperator
  PROVE  RowsEvolve
<1>1. PICK d0 \in Dates : TRUE
  BY DateAssumption DEF Dates
<1>2. \A k \in Stored : row[k] \in Row /\ Evolves(row[k], row[k])
  BY <1>1, StoredRow, RewrittenEvolves DEF AllDated
<1>3. CASE \E t \in Tenants : Registration(t)
  <2>1. PICK t \in Tenants, M \in SUBSET Meters, msg \in RegistrationMessages : SetStatus(t, M, msg)
    BY <1>3 DEF Registration
  <2>2. \A k \in Stored : /\ StatusRow(row[k], msg) \in Row
                          /\ Evolves(row[k], StatusRow(row[k], msg))
    BY MessagesTyped, StoredRow, StatusRowTyped, StatusRowEvolves DEF AllDated
  <2> QED
    BY <1>2, <2>1, <2>2 DEF SetStatus, Assigned, Of, RowsEvolve, Stored
<1>4. CASE \E t \in Tenants : Synchronise(t)
  <2>0. PICK t \in Tenants, M \in SUBSET Meters, c \in ConsentIds \cup {NoConsent} :
             \E list \in [M -> Dates] : UpdateActiveMeteringPoints(t, list, c)
    BY <1>4 DEF Synchronise
  <2>1. PICK list \in [M -> Dates] : UpdateActiveMeteringPoints(t, list, c)
    BY <2>0
  <2>2. \A k \in Assigned(t, DOMAIN list) : /\ ListedRow(row[k], list[k[1]], c) \in Row
                                           /\ Evolves(row[k], ListedRow(row[k], list[k[1]], c))
    BY StoredRow, RewrittenTyped, RewrittenEvolves DEF AllDated, Assigned, Of
  <2> QED
    BY <1>2, <2>1, <2>2 DEF UpdateActiveMeteringPoints, Assigned, Of, RowsEvolve, Stored
<1>5. CASE \E t \in Tenants, m \in Meters : Restore(t, m)
  <2>1. \A k \in Stored : RestoredRow(row[k]) \in Row /\ Evolves(row[k], RestoredRow(row[k]))
    BY <1>1, StoredRow, RewrittenTyped, RewrittenEvolves DEF AllDated
  <2> QED
    BY <1>2, <1>5, <2>1 DEF Restore, Assigned, Of, RowsEvolve, Stored
<1>6. CASE \E t \in Tenants, m \in Meters, d \in Dates : RevokeActive(t, m, d)
  <2>1. PICK t \in Tenants, m \in Meters, d \in Dates : RevokeActive(t, m, d)
    BY <1>6
  <2>2. \A k \in Stored : TakesPart(row[k]) => /\ RevokedRow(row[k], d) \in Row
                                              /\ Evolves(row[k], RevokedRow(row[k], d))
    BY StoredRow, RewrittenTyped, RewrittenEvolves DEF AllDated, TakesPart
  <2> QED
    BY <1>2, <2>1, <2>2 DEF RevokeActive, Assigned, Of, RowsEvolve, Stored
<1>7. CASE \E rc \in Receivers, c \in ConsentIds \cup {NoConsent}, m \in Meters, d \in Dates :
             RevokeByConsentId(rc, c, m, d)
  <2>1. PICK rc \in Receivers, c \in ConsentIds \cup {NoConsent}, m \in Meters, d \in Dates :
             RevokeByConsentId(rc, c, m, d)
    BY <1>7
  <2>2. \A k \in Stored : /\ ConsentRevokedRow(row[k], d) \in Row
                          /\ Evolves(row[k], ConsentRevokedRow(row[k], d))
    BY StoredRow, RewrittenTyped, RewrittenEvolves DEF AllDated
  <2>3. RevocationHits(rc, c, m) \subseteq Stored
    BY DEF RevocationHits
  <2> QED
    BY <1>2, <2>1, <2>2, <2>3 DEF RevokeByConsentId, RowsEvolve, Stored
<1> QED
  BY <1>3, <1>4, <1>5, <1>6, <1>7 DEF GridOperator

LEMMA DatedStep == TypeOK /\ AllDated /\ [Next]_row => AllDated'
<1> SUFFICES ASSUME TypeOK, AllDated, [Next]_row PROVE AllDated'
  OBVIOUS
<1>1. CASE RowsEvolve
  BY <1>1 DEF RowsEvolve, AllDated, Stored, Evolves
<1>2. CASE Relocates
  <2>1. PICK k \in Stored, l \in Keys \ Stored : row' = [row EXCEPT ![k] = NoRow, ![l] = row[k]]
    BY <1>2 DEF Relocates
  <2> QED
    BY <2>1 DEF AllDated, Stored, TypeOK
<1>3. CASE UNCHANGED row
  BY <1>3 DEF AllDated, Stored
<1> QED
  BY <1>1, <1>2, <1>3, AdministrationSteps, GridOperatorSteps DEF Next

\* What one operation or message may not do to a row that took part or ended.
NoReturnToInit ==
  \A k \in Stored : row[k].status # "INIT" =>
     \/ row'[k] # NoRow /\ row'[k].status # "INIT"
     \/ HandedOver(k)

LEMMA NoReturnStep == TypeOK /\ AllDated /\ [Next]_row => [NoReturnToInit]_row
<1> SUFFICES ASSUME TypeOK, AllDated, Next PROVE NoReturnToInit
  OBVIOUS
<1>1. CASE RowsEvolve
  BY <1>1, TenantAssumption DEF RowsEvolve, NoReturnToInit, Stored, Evolves
<1>2. CASE Relocates
  <2>1. PICK k \in Stored, l \in Keys \ Stored : row' = [row EXCEPT ![k] = NoRow, ![l] = row[k]]
    BY <1>2 DEF Relocates
  <2>2. HandedOver(k)
    BY <2>1 DEF HandedOver, TypeOK, Stored
  <2>3. \A j \in Stored \ {k} : row'[j] = row[j]
    BY <2>1 DEF TypeOK, Stored
  <2> QED
    BY <2>2, <2>3 DEF NoReturnToInit, Stored
<1> QED
  BY <1>1, <1>2, AdministrationSteps, GridOperatorSteps DEF Next

LEMMA DatedInvariance == Spec => [](TypeOK /\ AllDated)
<1>1. Init => TypeOK /\ AllDated
  BY DEF Init, TypeOK, AllDated, Stored
<1>2. Spec => []TypeOK
  BY SpecIsSupported, TypeCorrect, PTL
<1>3. TypeOK /\ AllDated /\ [Next]_row => AllDated'
  BY DatedStep
<1> QED
  BY <1>1, <1>2, <1>3, PTL DEF Spec

\* The inductive invariant that TLC checks on instances holds in general: one
\* assigned row per community and number, former rows inactive, dates and
\* process state that follow the status, nothing over that looks rejected.
THEOREM RegisterCorrect == Spec => []RegisterInv
<1>1. CoreInv /\ AllDated => RegisterInv
  <2> SUFFICES ASSUME CoreInv, AllDated PROVE RegisterInv
    OBVIOUS
  <2>1. OneAssigned /\ FormerRowsInactive /\ StatesAgree
    BY DEF CoreInv, Core, FormerRowsInactive, StatesAgree, Agrees, LeftBehind, TypeOK, Row, Stored
  <2>2. DatesFollowStatus /\ EndedNeverRejected
    BY DEF AllDated, Dated, DatesFollowStatus, EndedNeverRejected
  <2> QED
    BY <2>1, <2>2 DEF RegisterInv
<1> QED
  BY <1>1, SpecIsSupported, CoreInvariance, DatedInvariance, PTL

\* A rejection never undoes a participation, before or after its end.
THEOREM NoEndedRowRejected == Spec => []EndedNeverRejected
<1>1. RegisterInv => EndedNeverRejected
  BY DEF RegisterInv
<1> QED
  BY <1>1, RegisterCorrect, PTL

\* No operation or message leads a row that was active or inactive back to
\* INIT, or deletes it.
THEOREM NoWayBackToInit == Spec => NeverBackToInit
<1>1. TypeOK /\ AllDated /\ [Next]_row => [NoReturnToInit]_row
  BY NoReturnStep
<1>2. Spec => [][NoReturnToInit]_row
  BY <1>1, DatedInvariance, PTL DEF Spec
<1> QED
  BY <1>2 DEF NeverBackToInit, NoReturnToInit
=============================================================================
