--------------------------- MODULE MeteringPoint ---------------------------
(***************************************************************************)
(* The table base.meteringpoint and every operation of the backend that    *)
(* changes the registration of a metering point (status, process state,    *)
(* rejection kept aside, assignment flag, participation dates, consent).   *)
(*                                                                         *)
(* A row is found under its primary key: the number of the metering point  *)
(* and the participant it belongs to (the tenant is the participant's).    *)
(* The operations come from three sides, in any order and any number of    *)
(* times: the members' administration (HTTP API), the answers of the grid  *)
(* operators (EDA messages over MQTT), and a support tool (gRPC).  Each    *)
(* operation is one SQL statement or one transaction that locks the rows   *)
(* it decides on, hence one action.  A message that is lost, repeated or   *)
(* overtaken by another is an action that does not happen, happens twice,  *)
(* or happens in another order: all of these are behaviours of this module.*)
(*                                                                         *)
(* Left out: columns that only describe (address, tariff, equipment,       *)
(* operator name, modification stamp, status code).                        *)
(***************************************************************************)
EXTENDS Naturals, FiniteSets

CONSTANTS Meters,         \* metering point numbers
          Participants,   \* members, of all tenants
          Tenants,        \* energy communities
          TenantOf,       \* the community of a member
          RcOf,           \* the RC number of a community
          Receivers,      \* what an inbound message can name as its receiver
          ConsentIds,     \* consent ids given by grid operators
          InsertStates,   \* process states a new row is inserted with
          MaxDate,        \* bound: the days that occur
          NoRow,          \* no row under this key
          NoConsent,      \* consent_id NULL, or the placeholder "Migration"
          Offline         \* communities without messages (eeg.online is false)

NoDate == 0               \* SQL NULL
Dates == 1 .. MaxDate
Far == MaxDate + 1        \* 2999-12-31, "until further notice"

F_MOVED == 0
F_ASSIGNED == 1
F_DELETED == 2

Statuses == {"INIT", "ACTIVE", "INACTIVE"}
ProcessStates == {"NEW", "INIT", "PENDING", "APPROVED", "ACTIVE", "INACTIVE",
                  "REJECTED", "REVOKED", "INVALID", "ARCHIVED"}
Rejections == {"INVALID", "REJECTED"}

Row == [status : Statuses, ps : ProcessStates, last : Rejections \cup {"NULL"},
        flag : {F_MOVED, F_ASSIGNED, F_DELETED},
        since : Dates \cup {NoDate}, until : Dates \cup {NoDate, Far},
        consent : ConsentIds \cup {NoConsent}]

ASSUME DateAssumption == MaxDate \in Nat \ {0}
ASSUME TenantAssumption == /\ TenantOf \in [Participants -> Tenants]
                           /\ NoRow \notin Row
ASSUME OfflineAssumption == Offline \subseteq Tenants
ASSUME InsertAssumption == InsertStates \subseteq ProcessStates
ASSUME ConsentAssumption == NoConsent \notin ConsentIds

VARIABLE row              \* row[k]: the row under primary key k

Keys == Meters \X Participants
Tenant(k) == TenantOf[k[2]]

Stored == {k \in Keys : row[k] # NoRow}
\* The rows of a community for the metering points M, and those of them that
\* messages and lists address.
Of(t, M) == {k \in Stored : k[1] \in M /\ Tenant(k) = t}
Assigned(t, M) == {k \in Of(t, M) : row[k].flag = F_ASSIGNED}

TypeOK == row \in [Keys -> Row \cup {NoRow}]

Init == row = [k \in Keys |-> NoRow]

-----------------------------------------------------------------------------
(* What the statements compute from a row. *)

\* The participation is over: it had a start and has an end.
Ended(r) == r.status = "INACTIVE" /\ r.until # NoDate /\ r.since # NoDate
TakesPart(r) == r.status = "ACTIVE"

\* The status a row is inserted with.
CalcState(ps) == CASE ps = "INACTIVE" -> "INACTIVE"
                   [] ps = "ACTIVE" -> "ACTIVE"
                   [] OTHER -> "INIT"

\* A new row: only an active one gets dates.
NewRow(ps, since, until, consent) ==
  [status |-> CalcState(ps), ps |-> ps, last |-> "NULL", flag |-> F_ASSIGNED,
   since |-> IF ps = "ACTIVE" THEN since ELSE NoDate,
   until |-> IF ps = "ACTIVE" THEN until ELSE NoDate,
   consent |-> consent]

\* The request just rejected is over, the participation is not.
KeptState(r) == IF r.ps \in {"INIT", "PENDING", "APPROVED"} THEN "ACTIVE" ELSE r.ps

\* A message is [state, keep, since, consent]: the process state it reports,
\* whether its rejection code concerns the request only
\* (REJECTED_KEEP_ACTIVE_CODES), the start day and the consent it carries.
KeptAlways(r, msg) == Ended(r) \/ msg.keep  \* (slip: also for who does not take part)

Kept(r, msg) == Ended(r) \/ (msg.keep /\ TakesPart(r))

MessageState(r, msg) ==
  CASE msg.state \in Rejections /\ Ended(r) -> "INACTIVE"
    [] msg.state \in Rejections /\ ~Ended(r) /\ Kept(r, msg) -> KeptState(r)
    [] msg.state = "APPROVED" /\ r.ps = "ACTIVE" -> "ACTIVE"
    [] OTHER -> msg.state

\* (slip: the request for a registration starts the row over)
StatusRowStartsOver(r, msg) ==
  [r EXCEPT !.ps = MessageState(r, msg), !.last = "NULL",
            !.status = CASE msg.state = "ACTIVE" -> "ACTIVE"
                         [] msg.state = "INIT" -> "INIT"
                         [] OTHER -> r.status,
            !.since = IF r.since = NoDate THEN msg.since ELSE r.since,
            !.until = IF msg.since # NoDate THEN Far ELSE r.until]

\* The row after a message of a registration.
StatusRow(r, msg) ==
  [r EXCEPT
     !.ps = MessageState(r, msg),
     !.last = IF msg.state \in Rejections /\ Kept(r, msg) THEN msg.state ELSE "NULL",
     !.status = IF msg.state = "ACTIVE" THEN "ACTIVE" ELSE r.status,
     !.since = IF r.since = NoDate THEN msg.since ELSE r.since,
     !.until = IF msg.since # NoDate THEN Far ELSE r.until,
     !.consent = IF msg.consent # NoConsent THEN msg.consent ELSE r.consent]

\* The row after an attempt that another community won.
RestoredRow(r) == IF Ended(r) /\ r.ps = "INIT" THEN [r EXCEPT !.ps = "INACTIVE"] ELSE r

\* The row after a deregistration.
RevokedRow(r, d) == [r EXCEPT !.ps = "INACTIVE", !.status = "INACTIVE", !.until = d]

\* The row after a revocation by the member or the grid operator.
EndsRejected(r) == /\ r.status # "INIT" /\ r.until # NoDate /\ r.since # NoDate
                   /\ r.ps \in Rejections

ConsentRevokedRow(r, d) ==
  [r EXCEPT
     !.ps = IF r.ps = "ACTIVE" \/ EndsRejected(r) THEN "INACTIVE" ELSE r.ps,
     !.last = IF EndsRejected(r) THEN r.ps ELSE r.last,
     !.status = IF r.status = "INIT" THEN "INIT" ELSE "INACTIVE",
     !.until = IF r.until # NoDate THEN d ELSE NoDate]

\* (slip: the list's start day replaces an earlier one)
ListedRowRestarted(r, d, c) ==
  [r EXCEPT !.ps = "ACTIVE", !.status = "ACTIVE", !.until = Far, !.since = d,
            !.consent = IF c # NoConsent THEN c ELSE r.consent]

\* The row after it appeared in the grid operator's list with start day d.
ListedRow(r, d, c) ==
  [r EXCEPT
     !.ps = "ACTIVE", !.status = "ACTIVE", !.until = Far,
     !.since = IF r.since = NoDate \/ r.since >= d THEN d ELSE r.since,
     !.consent = IF c # NoConsent THEN c ELSE r.consent]

ArchivedRow(r) == [r EXCEPT !.status = "INACTIVE", !.ps = "ARCHIVED", !.flag = F_DELETED]

\* A row left behind by a metering point that is registered again.
FormerRow(r) == [r EXCEPT !.flag = F_MOVED, !.ps = "INACTIVE"]

-----------------------------------------------------------------------------
(* The members' administration. *)

\* The rows a new registration of M leaves behind.
Former(t, M) == {k \in Of(t, M) : row[k].status = "INACTIVE"}

\* Insert rows for the metering points M of participant p, in one
\* transaction: the community's inactive rows of M become former ones, then
\* the primary key and the unique index on assigned rows let the insert pass
\* or roll everything back.
SaveMeteringPoint(p, M, new) ==
  LET t == TenantOf[p]
      former == Former(t, M)
  IN /\ \A m \in M : <<m, p>> \notin Stored
     /\ Assigned(t, M) \subseteq former
     /\ row' = [k \in Keys |->
                  CASE k[1] \in M /\ k[2] = p -> new
                    [] k \in former -> FormerRow(row[k])
                    [] OTHER -> row[k]]

Register(p) ==
  \E M \in (SUBSET Meters) \ {{}}, ps \in InsertStates, since \in Dates,
     until \in Dates \cup {Far}, consent \in ConsentIds \cup {NoConsent} :
        SaveMeteringPoint(p, M, NewRow(ps, since, until, consent))

\* Hand a row to another member of the community (only the owner changes).
Move(k, q) ==
  /\ k \in Stored /\ q # k[2] /\ TenantOf[q] = Tenant(k)
  /\ <<k[1], q>> \notin Stored
  /\ row' = [row EXCEPT ![k] = NoRow, ![<<k[1], q>>] = row[k]]

\* Correct the number of a metering point; the primary key and the unique
\* index may refuse.
Renumber(k, n) ==
  /\ k \in Stored /\ <<n, k[2]>> \notin Stored
  /\ row[k].flag = F_ASSIGNED => Assigned(Tenant(k), {n}) = {}
  /\ row' = [row EXCEPT ![k] = NoRow, ![<<n, k[2]>>] = row[k]]

Remove(k) ==
  /\ k \in Stored /\ row[k].ps \in {"INVALID", "NEW"} /\ row[k].status = "INIT"
  /\ row' = [row EXCEPT ![k] = NoRow]

\* Put a row away, whatever its state.
Archive(k) ==
  /\ k \in Stored
  /\ row' = [row EXCEPT ![k] = ArchivedRow(row[k])]

\* Delete a member with all its rows, only while none of them took part.
NeverTookPart(r) == /\ r.status = "INIT" /\ r.since = NoDate
                    /\ r.ps \in {"INVALID", "NEW", "REJECTED"}

DeleteParticipant(p) ==
  /\ \E k \in Stored : k[2] = p
  /\ \A k \in Stored : k[2] = p => NeverTookPart(row[k])
  /\ row' = [k \in Keys |-> IF k[2] = p THEN NoRow ELSE row[k]]

-----------------------------------------------------------------------------
(* The messages of the grid operators. *)

\* What protocolEcReqOnlHandler makes of the messages of a registration.
RegistrationMessages ==
  [state : {"INIT", "PENDING"}, keep : {FALSE}, since : {NoDate}, consent : {NoConsent}]
  \cup [state : {"APPROVED"}, keep : {FALSE}, since : {NoDate}, consent : ConsentIds \cup {NoConsent}]
  \cup [state : {"ACTIVE"}, keep : {FALSE}, since : Dates, consent : ConsentIds \cup {NoConsent}]
  \cup [state : Rejections, keep : BOOLEAN, since : {NoDate}, consent : {NoConsent}]

SetStatus(t, M, msg) ==
  row' = [k \in Keys |-> IF k \in Assigned(t, M) THEN StatusRow(row[k], msg) ELSE row[k]]

Registration(t) ==
  \E M \in (SUBSET Meters) \ {{}}, msg \in RegistrationMessages :
     /\ msg.state = "ACTIVE" /\ msg.consent # NoConsent => Cardinality(M) = 1
     /\ SetStatus(t, M, msg)

Restore(t, m) ==
  row' = [k \in Keys |-> IF k \in Assigned(t, {m}) THEN RestoredRow(row[k]) ELSE row[k]]

\* The answer to the community's own deregistration ends an active row that
\* started by then.
RevokeActive(t, m, d) ==
  row' = [k \in Keys |->
            IF k \in Assigned(t, {m}) /\ TakesPart(row[k]) /\ row[k].since <= d
              THEN RevokedRow(row[k], d) ELSE row[k]]

\* A revocation names no community: the rows with its consent id in the
\* communities of the receiver, else the assigned rows without one.
InReceiver(rc) == {t \in Tenants : RcOf[t] = rc \/ t = rc}

\* (slip: without an exact match any assigned row is taken)
RevocationHitsAny(rc, c, m) ==
  LET here == {k \in Stored : k[1] = m /\ Tenant(k) \in InReceiver(rc)}
      exact == {k \in here : c # NoConsent /\ row[k].consent = c}
  IN IF exact # {} THEN exact ELSE {k \in here : row[k].flag = F_ASSIGNED}

RevocationHits(rc, c, m) ==
  LET here == {k \in Stored : k[1] = m /\ Tenant(k) \in InReceiver(rc)}
      exact == {k \in here : c # NoConsent /\ row[k].consent = c}
  IN IF exact # {} THEN exact
     ELSE {k \in here : row[k].flag = F_ASSIGNED /\ (c = NoConsent \/ row[k].consent = NoConsent)}

RevokeByConsentId(rc, c, m, d) ==
  LET hits == RevocationHits(rc, c, m)
  IN /\ hits # {}
     /\ \A k, l \in hits : RcOf[Tenant(k)] = RcOf[Tenant(l)]
     /\ row' = [k \in Keys |-> IF k \in hits THEN ConsentRevokedRow(row[k], d) ELSE row[k]]

\* The grid operator's list of a community: its entries, each with a start day.
UpdateActiveMeteringPoints(t, list, c) ==
  row' = [k \in Keys |-> IF k \in Assigned(t, DOMAIN list)
                           THEN ListedRow(row[k], list[k[1]], c) ELSE row[k]]

Synchronise(t) ==
  \E M \in (SUBSET Meters) \ {{}}, c \in ConsentIds \cup {NoConsent} :
     \E list \in [M -> Dates] : UpdateActiveMeteringPoints(t, list, c)

-----------------------------------------------------------------------------
(* A community without messages: confirming a member makes his rows active, *)
(* those he had when he was read, a moment before.  The statement selects by *)
(* number, so that it also reaches the assigned row of another member of the *)
(* community for one of them.                                                *)
Confirm(p) ==
  \E M \in (SUBSET Meters) \ {{}} :
     /\ TenantOf[p] \in Offline
     /\ SetStatus(TenantOf[p], M, [state |-> "ACTIVE", keep |-> FALSE, since |-> NoDate, consent |-> NoConsent])

-----------------------------------------------------------------------------
(* The support tool. *)

\* What UpdateProcessStatus makes of a correction: a process state, ACTIVE
\* with or without a start day; INACTIVE ends the participation.
CorrectionMessages ==
  [state : {"NEW", "INIT", "PENDING", "APPROVED", "REVOKED"}, keep : {FALSE}, since : {NoDate},
   consent : {NoConsent}]
  \cup [state : {"ACTIVE"}, keep : {FALSE}, since : Dates \cup {NoDate}, consent : {NoConsent}]

Correct(t, m) ==
  \/ \E msg \in CorrectionMessages : SetStatus(t, {m}, msg)
  \/ \E d \in Dates :
        row' = [k \in Keys |-> IF k \in Assigned(t, {m}) THEN RevokedRow(row[k], d) ELSE row[k]]

CorrectDates(k) ==
  /\ k \in Stored
  /\ \E d \in Dates : \/ row' = [row EXCEPT ![k].since = d]
                      \/ row' = [row EXCEPT ![k].until = d]

-----------------------------------------------------------------------------
Administration ==
  \/ \E p \in Participants : Register(p) \/ DeleteParticipant(p)
  \/ \E k \in Keys : Remove(k) \/ Archive(k)
  \/ \E k \in Keys, q \in Participants : Move(k, q)
  \/ \E k \in Keys, n \in Meters : Renumber(k, n)

GridOperator ==
  \/ \E t \in Tenants : Registration(t) \/ Synchronise(t)
  \/ \E t \in Tenants, m \in Meters : Restore(t, m) \/ \E d \in Dates : RevokeActive(t, m, d)
  \/ \E rc \in Receivers, c \in ConsentIds \cup {NoConsent}, m \in Meters, d \in Dates :
        RevokeByConsentId(rc, c, m, d)

Support == \/ \E t \in Tenants, m \in Meters : Correct(t, m)
           \/ \E k \in Keys : CorrectDates(k)
           \/ \E p \in Participants : Confirm(p)

Next == Administration \/ GridOperator

Spec == Init /\ [][Next]_row
SupportedSpec == Init /\ [][Next \/ Support]_row

-----------------------------------------------------------------------------
(* Safety. *)

Rivals(k, l) == k # l /\ k[1] = l[1] /\ Tenant(k) = Tenant(l)

\* In a community at most one member takes part with a metering point,
\* whatever mixture of moves, new registrations, answers, lists and
\* revocations arrives: meteringPointsSetStatus relies on it ("requires that
\* only one metering point of a community is assigned"), and a second active
\* row would be billed twice.
AtMostOneActive ==
  \A k, l \in Stored : Rivals(k, l) => ~(TakesPart(row[k]) /\ TakesPart(row[l]))

\* The process state an administrator sees never contradicts the status that
\* is billed: ACTIVE and INACTIVE in process_state are what status says.  The
\* two columns are written by different CASE expressions in every statement.
StatesAgree ==
  \A k \in Stored : /\ row[k].ps = "ACTIVE" => row[k].status = "ACTIVE"
                    /\ row[k].ps = "INACTIVE" => row[k].status = "INACTIVE"

\* "A rejection does not undo a participation": a participation that is over
\* is never shown as rejected, whether the rejection came before or after its
\* end (endedParticipation, and endsRejected of a revocation).
EndedNeverRejected ==
  \A k \in Stored : Ended(row[k]) => row[k].ps \notin Rejections

\* Row k is handed over to another key as it is, by a move or a new number.
HandedOver(k) == /\ row'[k] = NoRow
                 /\ \E l \in Keys \ Stored : row'[l] = row[k]

\* "Never set the status to INIT once it has been activated": no operation
\* leads a row, once it was active or inactive, back to INIT (where it could
\* be deleted, with the history of its participation).
NeverBackToInit ==
  [][\A k \in Stored : row[k].status # "INIT" =>
        \/ row'[k] # NoRow /\ row'[k].status # "INIT"
        \/ HandedOver(k)]_row

\* A revocation that names a consent never ends a participation that runs
\* under another one, however late it arrives: the consent of the participation
\* that ended is not the consent of the one that has begun since.
ConsentProtects ==
  [][\A rc \in Receivers, c \in ConsentIds, m \in Meters, d \in Dates :
        RevokeByConsentId(rc, c, m, d) =>
           \A k \in Stored : row[k].consent \notin {c, NoConsent} => row'[k] = row[k]]_row

-----------------------------------------------------------------------------
(* The inductive invariant behind the safety properties. *)

\* The unique index: at most one assigned row per community and number.
OneAssigned ==
  \A k, l \in Stored : Rivals(k, l) => ~(row[k].flag = F_ASSIGNED /\ row[l].flag = F_ASSIGNED)

\* Rows that are no longer assigned do not take part, so no answer has to
\* reach them.
FormerRowsInactive ==
  \A k \in Stored : row[k].flag # F_ASSIGNED => row[k].status = "INACTIVE"

\* Who takes part has dates, who never did has none, a start comes with an end.
DatesFollowStatus ==
  \A k \in Stored : /\ row[k].status = "ACTIVE" => row[k].since # NoDate
                    /\ row[k].status = "INIT" => row[k].since = NoDate
                    /\ row[k].since # NoDate => row[k].until # NoDate

RegisterInv == /\ OneAssigned
               /\ FormerRowsInactive
               /\ DatesFollowStatus
               /\ StatesAgree
               /\ EndedNeverRejected

\* What the register promises to billing (see Participation), read off the rows.
active == [k \in Keys |-> k \in Stored /\ TakesPart(row[k])]
first == [k \in Keys |-> IF k \in Stored THEN row[k].since ELSE NoDate]

Promise == INSTANCE Participation
             WITH Meters <- Meters, Participants <- Participants, Tenants <- Tenants,
                  TenantOf <- TenantOf, MaxDate <- MaxDate, active <- active, first <- first

\* No sequence of operations and messages loses a participation or its first
\* day, moves that day later, or lets two members take part with one metering
\* point.
KeepsPromise == Promise!Spec
=============================================================================
