----------------------------- MODULE EdaProcess -----------------------------
(***************************************************************************)
(* The handlers of the grid operators' messages, step by step, beside the  *)
(* members' administration.                                                *)
(*                                                                         *)
(* The communities here share one community id (a GEA when there are       *)
(* several), so a handler first looks for the one that holds the metering  *)
(* points of a message, then writes the register, then looks for the       *)
(* member who gets a mail.  The messages are handled one at a time; the    *)
(* administration changes the register between any two of these steps, a   *)
(* statement may fail, and the process may be killed.                      *)
(*                                                                         *)
(* Left out: notifications, and history entries that nothing reads; the    *)
(* messages about energy data (see EnergyRequest) and factors.             *)
(***************************************************************************)
EXTENDS MeteringPoint

CONSTANTS Order,          \* the order of the communities' names
          Conversations,  \* deregistrations by a community
          MaxHandled,     \* bound: messages handled
          MaxOperations   \* bound: operations of the administration

ASSUME OrderAssumption == Order \in [Tenants -> Nat]

VARIABLES handler,        \* what the handler is doing
          asked,          \* asked[v]: the deregistration that was sent, as a set
          history,        \* <<v, t>>: its echo is in the history of t
          handled,        \* messages handled
          operations      \* operations of the administration

edaVars == <<row, handler, asked, history, handled, operations>>

NoHandler == [pc |-> "idle"]
Texts == {"portal", "active", "inactive"}

\* What a community asks for, and what a handler does.
Deregistration == [tenant : Tenants, meter : Meters, end : Dates]
Handler ==
  {NoHandler}
  \cup [pc : {"registration"}, meters : SUBSET Meters, to : Tenants, calm : BOOLEAN]
  \cup [pc : {"echo"}, of : Conversations, to : Tenants]
  \cup [pc : {"answer"}, of : Conversations, to : Tenants, end : Dates \cup {NoDate}]
  \cup [pc : {"list"}, todo : SUBSET Tenants, list : UNION {[M -> Dates] : M \in SUBSET Meters},
        consent : ConsentIds \cup {NoConsent}]
  \cup [pc : {"mail"}, text : Texts, meters : SUBSET Meters, tenants : SUBSET Tenants, calm : BOOLEAN]

EdaTypeOK == /\ TypeOK
             /\ handler \in Handler
             /\ asked \in [Conversations -> SUBSET Deregistration]
             /\ history \subseteq Conversations \X Tenants

EdaInit == /\ Init
           /\ handler = NoHandler
           /\ asked = [v \in Conversations |-> {}]
           /\ history = {}
           /\ handled = 0 /\ operations = 0

-----------------------------------------------------------------------------
(* The community of a message. *)

ByName(T) == CHOOSE t \in T : \A u \in T : Order[t] <= Order[u]

\* The base community is named like the RC number, else the first.
BaseEeg == LET named == {t \in Tenants : RcOf[t] = t}
           IN IF named # {} THEN ByName(named) ELSE ByName(Tenants)

\* A row that is assigned and not over comes first, then an assigned one, then any.
Claim(t, M) == CASE \E k \in Assigned(t, M) : row[k].status # "INACTIVE" -> 3
                 [] Assigned(t, M) # {} /\ \A k \in Assigned(t, M) : row[k].status = "INACTIVE" -> 2
                 [] Assigned(t, M) = {} /\ Of(t, M) # {} -> 1
                 [] OTHER -> 0

GetEegByEcIdAndMeters(M) ==
  IF \A t \in Tenants : Claim(t, M) = 0 THEN BaseEeg
  ELSE ByName({t \in Tenants : \A u \in Tenants : Claim(u, M) <= Claim(t, M)})

\* Only a message that came in under an RC number of the community id is handled.
ForReceivingRc(rc) == InReceiver(rc) # {}

-----------------------------------------------------------------------------
(* What a message of a registration makes of its codes.                     *)

Codes == {"competing", "assigned", "notFound", "refused", "sum", "other"}
Invalid == {"notFound", "refused"}
KeepActive == {"refused", "sum"}

Outcome(state, keep, since, consent, mail) ==
  [state |-> state, keep |-> keep, since |-> since, consent |-> consent, mail |-> mail]

\* The code that is stored concerns the request only if all candidates do.
RejectionOutcome(codes, today) ==
  CASE "competing" \in codes -> Outcome("RESTORE", FALSE, NoDate, NoConsent, "none")
    [] "competing" \notin codes /\ "assigned" \in codes -> Outcome("ACTIVE", FALSE, today, NoConsent, "none")
    [] codes \cap {"competing", "assigned"} = {} /\ codes \cap Invalid # {} ->
         Outcome("INVALID", codes \cap Invalid \subseteq KeepActive, NoDate, NoConsent, "none")
    [] OTHER -> Outcome("REJECTED", codes # {} /\ codes \subseteq KeepActive, NoDate, NoConsent, "none")

Outcomes ==
  {RejectionOutcome(codes, today) : codes \in SUBSET Codes, today \in Dates}
  \cup {Outcome("APPROVED", FALSE, NoDate, c, "none") : c \in ConsentIds \cup {NoConsent}}
  \cup {Outcome("INVALID", TRUE, NoDate, NoConsent, "none"),          \* consent refused, sum exceeded
        Outcome("INVALID", FALSE, NoDate, NoConsent, "none"),         \* no meter to read
        Outcome("PENDING", FALSE, NoDate, NoConsent, "portal"),       \* received
        Outcome("INIT", FALSE, NoDate, NoConsent, "none"),            \* our own request
        Outcome("REJECTED", FALSE, NoDate, NoConsent, "none")}        \* aborted
  \cup {Outcome("ACTIVE", FALSE, d, c, "active") : d \in Dates, c \in ConsentIds \cup {NoConsent}}

-----------------------------------------------------------------------------
(* A registration. *)

Receive == /\ handler = NoHandler /\ handled < MaxHandled
           /\ handled' = handled + 1
           /\ UNCHANGED <<asked, operations>>

ReceiveRegistration ==
  \E rc \in Receivers, M \in (SUBSET Meters) \ {{}} :
     /\ Receive /\ ForReceivingRc(rc)
     /\ handler' = [pc |-> "registration", meters |-> M, to |-> GetEegByEcIdAndMeters(M), calm |-> TRUE]
     /\ UNCHANGED <<row, history>>

\* The register is written, or the statement fails; the mail is queued anyway.
ThenMail(mail, meters, calm) ==
  handler' = IF mail = "none" THEN NoHandler
             ELSE [pc |-> "mail", text |-> mail, meters |-> meters, tenants |-> {}, calm |-> calm]

ProtocolEcReqOnlHandler ==
  \E msg \in Outcomes :
     /\ handler.pc = "registration"
     /\ msg.state = "ACTIVE" => Cardinality(handler.meters) = 1
     /\ \/ /\ msg.state = "RESTORE" /\ handler' = NoHandler
           /\ \E m \in handler.meters : Restore(handler.to, m)
        \/ /\ msg.state # "RESTORE" /\ SetStatus(handler.to, handler.meters, msg)
           /\ ThenMail(msg.mail, handler.meters, handler.calm)
        \/ UNCHANGED row /\ ThenMail(msg.mail, handler.meters, FALSE)
     /\ UNCHANGED <<asked, history, handled, operations>>

-----------------------------------------------------------------------------
(* A deregistration by the community: the web client's request goes out for *)
(* the active rows of the metering points, comes back as an echo, and is    *)
(* answered, in any order and any number of times.                          *)
RequestRevoke ==
  \E p \in Participants, m \in Meters, v \in Conversations, d \in Dates :
     /\ TenantOf[p] \notin Offline /\ asked[v] = {}
     /\ \E k \in Assigned(TenantOf[p], {m}) : TakesPart(row[k])
     /\ asked' = [asked EXCEPT ![v] = {[tenant |-> TenantOf[p], meter |-> m, end |-> d]}]
     /\ UNCHANGED <<row, handler, history, handled, operations>>

ReceiveDeregistration ==
  \E rc \in Receivers, v \in Conversations : \E d \in asked[v] :
     /\ Receive /\ ForReceivingRc(rc)
     /\ \/ handler' = [pc |-> "echo", of |-> v, to |-> GetEegByEcIdAndMeters({d.meter})]
        \/ \E end \in {d.end, NoDate} :
              handler' = [pc |-> "answer", of |-> v, to |-> GetEegByEcIdAndMeters({d.meter}), end |-> end]
     /\ UNCHANGED <<row, history>>

\* The echo changes nothing but the history, where the answer finds it.
HandleEcho ==
  /\ handler.pc = "echo"
  /\ history' \in {history, history \cup {<<handler.of, handler.to>>}}
  /\ handler' = NoHandler
  /\ UNCHANGED <<row, asked, handled, operations>>

\* (slip: any request for the metering point in the history of the community)
RevokeInactiveSinceAny(v, t, end, today) ==
  LET requests == UNION {asked[w] : w \in {x \in Conversations : <<x, t>> \in history}}
  IN IF requests # {} THEN (CHOOSE d \in requests : TRUE).end ELSE IF end # NoDate THEN end ELSE today

\* The day of the end: that of the request in the history, else that of the
\* answer, else today.
RevokeInactiveSince(v, t, end, today) ==
  IF <<v, t>> \in history THEN (CHOOSE d \in asked[v] : TRUE).end
  ELSE IF end # NoDate THEN end ELSE today

\* The communities whose members are told that the metering point left; the
\* rows K are about to end.
InactiveMailFor(K) == {Tenant(k) : k \in {l \in K : TakesPart(row[l])}}

ThenInactiveMail(m, T) ==
  handler' = IF T = {} THEN NoHandler
             ELSE [pc |-> "mail", text |-> "inactive", meters |-> {m}, tenants |-> T, calm |-> TRUE]

\* (slip: the member is told whether or not anything ended)
AnswerMailsAlways(t, m, d) == {t}

AnswerMails(t, m, d) == InactiveMailFor({k \in Assigned(t, {m}) : row[k].since <= d})

\* What an answer says of the metering point: it left the community, or was
\* refused because there is no data release any more, or anything else.
AnswerCodes == {"confirmed", "noRelease", "other"}

\* A confirmation ends the participation and tells the member, a rejection for
\* lack of a data release ends it silently, any other answer changes nothing.
RevokeAfterAnswer ==
  \E code \in AnswerCodes, today \in Dates :
     /\ handler.pc = "answer"
     /\ LET t == handler.to
            m == (CHOOSE d \in asked[handler.of] : TRUE).meter
            day == RevokeInactiveSince(handler.of, t, handler.end, today)
        IN \/ /\ code = "confirmed" /\ RevokeActive(t, m, day)
              /\ ThenInactiveMail(m, AnswerMails(t, m, day))
           \/ code = "noRelease" /\ RevokeActive(t, m, day) /\ handler' = NoHandler
           \/ UNCHANGED row /\ handler' = NoHandler
     /\ UNCHANGED <<asked, history, handled, operations>>

-----------------------------------------------------------------------------
(* A revocation by the member or the grid operator names no community.     *)
HandleRevocation ==
  \E rc \in Receivers, c \in ConsentIds \cup {NoConsent}, m \in Meters, d \in Dates :
     /\ Receive
     /\ RevokeByConsentId(rc, c, m, d)
     /\ ThenInactiveMail(m, InactiveMailFor(RevocationHits(rc, c, m)))
     /\ UNCHANGED history

-----------------------------------------------------------------------------
(* The list of a community: every community of the id takes its own rows.  *)
ReceiveList ==
  \E rc \in Receivers, M \in (SUBSET Meters) \ {{}}, c \in ConsentIds \cup {NoConsent} :
     \E list \in [M -> Dates] :
        /\ Receive /\ ForReceivingRc(rc)
        /\ handler' = [pc |-> "list", todo |-> Tenants, list |-> list, consent |-> c]
        /\ UNCHANGED <<row, history>>

SyncMeteringPoints ==
  /\ handler.pc = "list"
  /\ \E t \in handler.todo :
        /\ UpdateActiveMeteringPoints(t, handler.list, handler.consent) \/ UNCHANGED row
        /\ handler' = IF handler.todo = {t} THEN NoHandler ELSE [handler EXCEPT !.todo = @ \ {t}]
  /\ UNCHANGED <<asked, history, handled, operations>>

-----------------------------------------------------------------------------
(* The mail, after the register: its member is looked for anew.            *)

\* The communities whose assigned rows name the members that get the mail.
\* (slip: the community of a registration is found by the community id alone)
MailTenantsBase == IF handler.text = "inactive" THEN handler.tenants ELSE {BaseEeg}

MailTenants == IF handler.text = "inactive" THEN handler.tenants
               ELSE {GetEegByEcIdAndMeters(handler.meters)}
Told == UNION {Assigned(t, handler.meters) : t \in MailTenants}

QueueMail == /\ handler.pc = "mail"
             /\ handler' = NoHandler
             /\ UNCHANGED <<row, asked, history, handled, operations>>

\* The process is killed: the rest of the message is lost.
Kill == /\ handler # NoHandler
        /\ handler' = NoHandler
        /\ UNCHANGED <<row, asked, history, handled, operations>>

\* The administration goes on meanwhile.
Disturbed == IF handler.pc \in {"registration", "mail"} THEN [handler EXCEPT !.calm = FALSE] ELSE handler

Administer == /\ operations < MaxOperations
              /\ Administration \/ Support
              /\ operations' = operations + 1
              /\ handler' = Disturbed
              /\ UNCHANGED <<asked, history, handled>>

EdaNext == \/ ReceiveRegistration \/ ProtocolEcReqOnlHandler
           \/ RequestRevoke \/ ReceiveDeregistration \/ HandleEcho \/ RevokeAfterAnswer
           \/ HandleRevocation
           \/ ReceiveList \/ SyncMeteringPoints
           \/ QueueMail \/ Kill \/ Administer

EdaSpec == EdaInit /\ [][EdaNext]_edaVars

-----------------------------------------------------------------------------
\* A member is told that his metering point left the community only by the
\* message that ended his participation: not again by one that is repeated or
\* that another has overtaken ("no mail" where nothing was ACTIVE).
ToldOnce ==
  [][handler'.pc = "mail" /\ handler'.text = "inactive" /\ handler.pc # "mail" =>
       \A t \in handler'.tenants :
          \E k \in Of(t, handler'.meters) : TakesPart(row[k]) /\ ~TakesPart(row'[k])]_edaVars

\* A participation that ends with the answer to its community's deregistration
\* ends on the day chosen there, as far as the answer or the history knows it:
\* neither on the day of another deregistration nor on the day the answer came.
EndsOnChosenDay ==
  [][handler.pc = "answer" /\ handler' # handler =>
       \A k \in Stored : TakesPart(row[k]) /\ ~TakesPart(row'[k]) =>
          \/ \E d \in asked[handler.of] : row'[k].until = d.end
          \/ handler.end = NoDate /\ <<handler.of, Tenant(k)>> \notin history]_edaVars

\* Mails say what the register says: who is found for a mail, after the
\* register was written, has the state it tells him, although the community
\* and the member are looked for a second time.  Excepted are a statement that
\* failed and a change by the administration while the message is handled.
MailTellsTruth ==
  handler.pc = "mail" /\ handler.calm =>
     \A k \in Told : CASE handler.text = "portal" -> row[k].ps = "PENDING"
                       [] handler.text = "active" -> row[k].status = "ACTIVE" /\ row[k].ps = "ACTIVE"
                       [] handler.text = "inactive" -> row[k].status = "INACTIVE"
=============================================================================
