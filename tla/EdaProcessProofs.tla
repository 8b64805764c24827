-------------------------- MODULE EdaProcessProofs --------------------------
(***************************************************************************)
(* Proofs about EdaProcess: the handlers, taken step by step with every    *)
(* interruption, do to the register only what MeteringPoint's operations   *)
(* do, tell a member once, and end a participation on the chosen day.      *)
(***************************************************************************)
EXTENDS EdaProcess, MeteringPointProofs, WellFoundedInduction

USE DEF NoDate, F_MOVED, F_ASSIGNED, F_DELETED

-----------------------------------------------------------------------------
(* The community of a message. *)

\* Among communities there is a first one by name.
LEMMA FirstByName ==
  ASSUME NEW T \in SUBSET Tenants, T # {}
  PROVE  ByName(T) \in T
<1> DEFINE ranks == {Order[t] : t \in T}
<1>1. ranks \subseteq Nat /\ ranks # {}
  BY OrderAssumption
<1>2. PICK n \in ranks : \A i \in ranks : ~ (<<i, n>> \in OpToRel(<, Nat))
  BY <1>1, WFMin, NatLessThanWellFounded
<1>3. \A i \in ranks : ~ (i < n)
  BY <1>1, <1>2 DEF OpToRel
<1>4. PICK t \in T : Order[t] = n
  BY <1>2
<1>5. \A u \in T : Order[t] <= Order[u]
  BY <1>1, <1>3, <1>4
<1> QED
  BY <1>5 DEF ByName

\* Among the communities there is one with the highest claim.
LEMMA HighestClaim ==
  ASSUME NEW M, Tenants # {}
  PROVE  \E t \in Tenants : \A u \in Tenants : Claim(u, M) <= Claim(t, M)
<1>1. \A t \in Tenants : Claim(t, M) \in 0 .. 3
  BY DEF Claim
<1>2. CASE \E t \in Tenants : Claim(t, M) = 3
  BY <1>1, <1>2
<1>3. CASE ~ \E t \in Tenants : Claim(t, M) = 3
  <2>1. \A t \in Tenants : Claim(t, M) \in 0 .. 2
    BY <1>1, <1>3
  <2>2. CASE \E t \in Tenants : Claim(t, M) = 2
    BY <2>1, <2>2
  <2>3. CASE ~ \E t \in Tenants : Claim(t, M) = 2
    <3>1. \A t \in Tenants : Claim(t, M) \in 0 .. 1
      BY <2>1, <2>3
    <3> QED
      BY <3>1
  <2> QED
    BY <2>2, <2>3
<1> QED
  BY <1>2, <1>3

\* A message goes to a community, and to none with a lower claim than another.
LEMMA MessageCommunity ==
  ASSUME NEW M, Tenants # {}
  PROVE  /\ GetEegByEcIdAndMeters(M) \in Tenants
         /\ \/ \A t \in Tenants : Claim(t, M) = 0
            \/ \A t \in Tenants : Claim(t, M) <= Claim(GetEegByEcIdAndMeters(M), M)
<1>1. BaseEeg \in Tenants
  <2> DEFINE named == {t \in Tenants : RcOf[t] = t}
  <2>1. BaseEeg = IF named # {} THEN ByName(named) ELSE ByName(Tenants)
    BY DEF BaseEeg
  <2>2. named # {} => ByName(named) \in Tenants
    BY FirstByName
  <2> QED
    BY <2>1, <2>2, FirstByName
<1> DEFINE best == {t \in Tenants : \A u \in Tenants : Claim(u, M) <= Claim(t, M)}
<1>2. best # {}
  BY HighestClaim
<1>3. ByName(best) \in best
  BY <1>2, FirstByName
<1> QED
  BY <1>1, <1>3 DEF GetEegByEcIdAndMeters

\* A message that is handled names a community.
LEMMA ReceivedSomewhere ==
  ASSUME NEW rc, ForReceivingRc(rc)
  PROVE  Tenants # {}
BY DEF ForReceivingRc, InReceiver

-----------------------------------------------------------------------------
(* The state of the handlers. *)

\* What is known of the deregistration an echo or an answer belongs to: it was
\* sent, and the answer carries its day or none.
Conversation ==
  /\ \A v \in Conversations, t \in Tenants : <<v, t>> \in history => asked[v] # {}
  /\ handler.pc \in {"echo", "answer"} => asked[handler.of] # {}
  /\ handler.pc = "answer" =>
        handler.end = NoDate \/ \E d \in asked[handler.of] : handler.end = d.end

EdaInv == EdaTypeOK /\ CoreInv /\ Conversation

\* What each program counter says of the handler.
LEMMA HandlerFields ==
  ASSUME handler \in Handler
  PROVE  /\ handler.pc = "idle" => handler = NoHandler
         /\ handler.pc = "registration" =>
              /\ handler.meters \in SUBSET Meters /\ handler.to \in Tenants
              /\ handler.calm \in BOOLEAN
         /\ handler.pc \in {"echo", "answer"} =>
              handler.of \in Conversations /\ handler.to \in Tenants
         /\ handler.pc = "answer" => handler.end \in Dates \cup {NoDate}
         /\ handler.pc = "list" =>
              /\ handler.todo \in SUBSET Tenants
              /\ \E M \in SUBSET Meters : handler.list \in [M -> Dates]
              /\ handler.consent \in ConsentIds \cup {NoConsent}
         /\ handler.pc = "mail" =>
              /\ handler.text \in Texts /\ handler.meters \in SUBSET Meters
              /\ handler.tenants \in SUBSET Tenants /\ handler.calm \in BOOLEAN
         /\ handler.pc \in {"idle", "registration", "echo", "answer", "list", "mail"}
BY DEF Handler, NoHandler

\* The request of a conversation.
Request(v) == CHOOSE d \in asked[v] : TRUE

LEMMA RequestTyped ==
  ASSUME EdaTypeOK, NEW v \in Conversations, asked[v] # {}
  PROVE  /\ Request(v) \in asked[v] /\ Request(v) \in Deregistration
         /\ Request(v).meter \in Meters /\ Request(v).end \in Dates
BY DEF EdaTypeOK, Request, Deregistration

\* Only communities are told.
LEMMA MailCommunities ==
  ASSUME NEW K \in SUBSET Stored
  PROVE  InactiveMailFor(K) \in SUBSET Tenants
BY TenantAssumption DEF InactiveMailFor, Stored, Keys, Tenant

\* The day of an end is a day.
LEMMA ChosenDayTyped ==
  ASSUME EdaInv, handler.pc = "answer", NEW today \in Dates
  PROVE  RevokeInactiveSince(handler.of, handler.to, handler.end, today) \in Dates
<1>1. handler.of \in Conversations /\ handler.end \in Dates \cup {NoDate} /\ asked[handler.of] # {}
  BY HandlerFields DEF EdaInv, EdaTypeOK, Conversation
<1>2. Request(handler.of).end \in Dates
  BY <1>1, RequestTyped DEF EdaInv
<1> QED
  BY <1>1, <1>2 DEF RevokeInactiveSince, Request

-----------------------------------------------------------------------------
(* Every step of a handler is an operation of the register, or leaves it.  *)

\* The outcomes of the messages, by what the register and the mails need of them.
LEMMA OutcomeForms ==
  ASSUME NEW msg \in Outcomes
  PROVE  \/ msg = Outcome("RESTORE", FALSE, NoDate, NoConsent, "none")
         \/ \E state \in Rejections, keep \in BOOLEAN : msg = Outcome(state, keep, NoDate, NoConsent, "none")
         \/ \E d \in Dates, c \in ConsentIds \cup {NoConsent}, mail \in {"none", "active"} :
               msg = Outcome("ACTIVE", FALSE, d, c, mail)
         \/ \E c \in ConsentIds \cup {NoConsent} : msg = Outcome("APPROVED", FALSE, NoDate, c, "none")
         \/ \E state \in {"INIT", "PENDING"}, mail \in {"none", "portal"} :
               msg = Outcome(state, FALSE, NoDate, NoConsent, mail)
<1> DEFINE A == {RejectionOutcome(codes, today) : codes \in SUBSET Codes, today \in Dates}
           B == {Outcome("APPROVED", FALSE, NoDate, c, "none") : c \in ConsentIds \cup {NoConsent}}
           C == {Outcome("INVALID", TRUE, NoDate, NoConsent, "none"),
                 Outcome("INVALID", FALSE, NoDate, NoConsent, "none"),
                 Outcome("PENDING", FALSE, NoDate, NoConsent, "portal"),
                 Outcome("INIT", FALSE, NoDate, NoConsent, "none"),
                 Outcome("REJECTED", FALSE, NoDate, NoConsent, "none")}
           Act(d, c) == Outcome("ACTIVE", FALSE, d, c, "active")
           D == {Act(d, c) : d \in Dates, c \in ConsentIds \cup {NoConsent}}
<1>1. CASE msg \in A
  <2>1. PICK codes \in SUBSET Codes, today \in Dates : msg = RejectionOutcome(codes, today)
    BY <1>1
  <2>2. CASE "competing" \in codes
    <3>1. msg = Outcome("RESTORE", FALSE, NoDate, NoConsent, "none")
      BY <2>1, <2>2 DEF RejectionOutcome
    <3> QED
      BY <3>1, Zenon
  <2>3. CASE "competing" \notin codes /\ "assigned" \in codes
    <3>1. msg = Outcome("ACTIVE", FALSE, today, NoConsent, "none")
      BY <2>1, <2>3 DEF RejectionOutcome
    <3> QED
      BY <3>1, Zenon
  <2>4. CASE "competing" \notin codes /\ "assigned" \notin codes /\ codes \cap Invalid # {}
    <3> DEFINE keep == codes \cap Invalid \subseteq KeepActive
    <3>1. msg = Outcome("INVALID", keep, NoDate, NoConsent, "none")
      BY <2>1, <2>4 DEF RejectionOutcome
    <3>2. keep \in BOOLEAN
      OBVIOUS
    <3>3. "INVALID" \in Rejections
      BY DEF Rejections
    <3> HIDE DEF keep
    <3> QED
      BY <3>1, <3>2, <3>3, Zenon
  <2>5. CASE "competing" \notin codes /\ "assigned" \notin codes /\ codes \cap Invalid = {}
    <3> DEFINE keep == codes # {} /\ codes \subseteq KeepActive
    <3>1. msg = Outcome("REJECTED", keep, NoDate, NoConsent, "none")
      BY <2>1, <2>5 DEF RejectionOutcome
    <3>2. keep \in BOOLEAN
      OBVIOUS
    <3>3. "REJECTED" \in Rejections
      BY DEF Rejections
    <3> HIDE DEF keep
    <3> QED
      BY <3>1, <3>2, <3>3, Zenon
  <2> QED
    BY <2>2, <2>3, <2>4, <2>5
<1>2. CASE msg \in B
  BY <1>2, Zenon
<1>3. CASE msg \in C
  BY <1>3, Zenon DEF Rejections
<1>4. CASE msg \in D
  <2> HIDE DEF Act
  <2>1. PICK d \in Dates, c \in ConsentIds \cup {NoConsent} : msg = Act(d, c)
    BY <1>4
  <2> USE DEF Act
  <2> QED
    BY <2>1, Zenon
<1>5. Outcomes = A \cup B \cup C \cup D
  BY DEF Outcomes
<1> HIDE DEF A, B, C, D
<1> QED
  BY <1>1, <1>2, <1>3, <1>4, <1>5, Zenon

\* The field that names the mail is no matter of the register.
LEMMA OutcomeMessage ==
  ASSUME NEW msg \in Outcomes, msg.state # "RESTORE"
  PROVE  \E reg \in RegistrationMessages :
            /\ reg.state = msg.state /\ reg.keep = msg.keep
            /\ reg.since = msg.since /\ reg.consent = msg.consent
<1> DEFINE Reg(state, keep, since, c) == [state |-> state, keep |-> keep, since |-> since, consent |-> c]
           Same(reg) == /\ reg.state = msg.state /\ reg.keep = msg.keep
                        /\ reg.since = msg.since /\ reg.consent = msg.consent
<1>1. ASSUME NEW state, NEW keep \in BOOLEAN, NEW since, NEW c, NEW mail,
             msg = Outcome(state, keep, since, c, mail)
      PROVE  Same(Reg(state, keep, since, c)) /\ msg.state = state
  BY <1>1 DEF Outcome
<1>2. /\ \A state \in Rejections, keep \in BOOLEAN : Reg(state, keep, NoDate, NoConsent) \in RegistrationMessages
      /\ \A state \in {"INIT", "PENDING"} : Reg(state, FALSE, NoDate, NoConsent) \in RegistrationMessages
      /\ \A c \in ConsentIds \cup {NoConsent} :
            /\ Reg("APPROVED", FALSE, NoDate, c) \in RegistrationMessages
            /\ \A d \in Dates : Reg("ACTIVE", FALSE, d, c) \in RegistrationMessages
  BY DEF RegistrationMessages
<1> SUFFICES \E reg \in RegistrationMessages : Same(reg)
  OBVIOUS
<1> HIDE DEF Reg, Same
<1>3. FALSE \in BOOLEAN
  OBVIOUS
<1>4. msg # Outcome("RESTORE", FALSE, NoDate, NoConsent, "none")
  BY <1>1, <1>3, Zenon
<1>5. CASE \E state \in Rejections, keep \in BOOLEAN : msg = Outcome(state, keep, NoDate, NoConsent, "none")
  <2>1. PICK state \in Rejections, keep \in BOOLEAN : msg = Outcome(state, keep, NoDate, NoConsent, "none")
    BY <1>5
  <2>2. Same(Reg(state, keep, NoDate, NoConsent))
    BY <1>1, <2>1
  <2>3. Reg(state, keep, NoDate, NoConsent) \in RegistrationMessages
    BY <1>2
  <2> QED
    BY <2>2, <2>3
<1>6. CASE \E d \in Dates, c \in ConsentIds \cup {NoConsent}, mail \in {"none", "active"} :
              msg = Outcome("ACTIVE", FALSE, d, c, mail)
  <2>1. PICK d \in Dates, c \in ConsentIds \cup {NoConsent}, mail \in {"none", "active"} :
              msg = Outcome("ACTIVE", FALSE, d, c, mail)
    BY <1>6, Zenon
  <2>2. Same(Reg("ACTIVE", FALSE, d, c))
    BY <1>1, <1>3, <2>1
  <2>3. Reg("ACTIVE", FALSE, d, c) \in RegistrationMessages
    BY <1>2
  <2> QED
    BY <2>2, <2>3, Zenon
<1>7. CASE \E c \in ConsentIds \cup {NoConsent} : msg = Outcome("APPROVED", FALSE, NoDate, c, "none")
  <2>1. PICK c \in ConsentIds \cup {NoConsent} : msg = Outcome("APPROVED", FALSE, NoDate, c, "none")
    BY <1>7, Zenon
  <2>2. Same(Reg("APPROVED", FALSE, NoDate, c))
    BY <1>1, <1>3, <2>1
  <2>3. Reg("APPROVED", FALSE, NoDate, c) \in RegistrationMessages
    BY <1>2
  <2> QED
    BY <2>2, <2>3, Zenon
<1>8. CASE \E state \in {"INIT", "PENDING"}, mail \in {"none", "portal"} :
              msg = Outcome(state, FALSE, NoDate, NoConsent, mail)
  <2>1. PICK state \in {"INIT", "PENDING"}, mail \in {"none", "portal"} :
              msg = Outcome(state, FALSE, NoDate, NoConsent, mail)
    BY <1>8, Zenon
  <2>2. Same(Reg(state, FALSE, NoDate, NoConsent))
    BY <1>1, <1>3, <2>1
  <2>3. Reg(state, FALSE, NoDate, NoConsent) \in RegistrationMessages
    BY <1>2
  <2> QED
    BY <2>2, <2>3, Zenon
<1> QED
  BY <1>4, <1>5, <1>6, <1>7, <1>8, OutcomeForms

LEMMA SameMessage ==
  ASSUME NEW t, NEW M, NEW msg, NEW reg, SetStatus(t, M, msg),
         reg.state = msg.state, reg.keep = msg.keep, reg.since = msg.since, reg.consent = msg.consent
  PROVE  SetStatus(t, M, reg)
<1>1. ASSUME NEW r
      PROVE  StatusRow(r, reg) = StatusRow(r, msg)
  <2>1. Kept(r, reg) <=> Kept(r, msg)
    BY DEF Kept
  <2>2. MessageState(r, reg) = MessageState(r, msg)
    BY <2>1 DEF MessageState
  <2> QED
    BY <2>1, <2>2 DEF StatusRow
<1> QED
  BY <1>1 DEF SetStatus

LEMMA RegistrationImplements ==
  EdaInv /\ ProtocolEcReqOnlHandler => [Next]_row
<1> SUFFICES ASSUME EdaInv, ProtocolEcReqOnlHandler PROVE [Next]_row
  OBVIOUS
<1>1. PICK msg \in Outcomes :
        /\ handler.pc = "registration"
        /\ msg.state = "ACTIVE" => Cardinality(handler.meters) = 1
        /\ \/ /\ msg.state = "RESTORE" /\ \E m \in handler.meters : Restore(handler.to, m)
           \/ /\ msg.state # "RESTORE" /\ SetStatus(handler.to, handler.meters, msg)
           \/ UNCHANGED row
  BY DEF ProtocolEcReqOnlHandler
<1>2. handler.meters \in SUBSET Meters /\ handler.to \in Tenants
  BY <1>1, HandlerFields DEF EdaInv, EdaTypeOK
<1>3. CASE \E m \in handler.meters : Restore(handler.to, m)
  BY <1>2, <1>3 DEF Next, GridOperator
<1>4. CASE msg.state # "RESTORE" /\ SetStatus(handler.to, handler.meters, msg)
  <2>1. CASE handler.meters = {}
    BY <1>4, <2>1 DEF SetStatus, Assigned, Of, EdaInv, CoreInv, Core, TypeOK
  <2>2. CASE handler.meters # {}
    <3>1. PICK reg \in RegistrationMessages :
             /\ reg.state = msg.state /\ reg.keep = msg.keep
             /\ reg.since = msg.since /\ reg.consent = msg.consent
      BY <1>4, OutcomeMessage
    <3>2. SetStatus(handler.to, handler.meters, reg)
      BY <1>4, <3>1, SameMessage
    <3>3. Registration(handler.to)
      BY <1>1, <1>2, <2>2, <3>1, <3>2 DEF Registration
    <3> QED
      BY <1>2, <3>3 DEF Next, GridOperator
  <2> QED
    BY <2>1, <2>2
<1>5. CASE UNCHANGED row
  BY <1>5
<1> QED
  BY <1>1, <1>3, <1>4, <1>5

LEMMA AnswerImplements ==
  EdaInv /\ RevokeAfterAnswer => [Next]_row
<1> SUFFICES ASSUME EdaInv, RevokeAfterAnswer PROVE [Next]_row
  OBVIOUS
<1>1. PICK today \in Dates :
        /\ handler.pc = "answer"
        /\ \/ RevokeActive(handler.to, Request(handler.of).meter,
                           RevokeInactiveSince(handler.of, handler.to, handler.end, today))
           \/ UNCHANGED row
  BY DEF RevokeAfterAnswer, Request
<1>2. handler.of \in Conversations /\ handler.to \in Tenants /\ asked[handler.of] # {}
  BY <1>1, HandlerFields DEF EdaInv, EdaTypeOK, Conversation
<1>3. Request(handler.of).meter \in Meters
  BY <1>2, RequestTyped DEF EdaInv
<1>4. RevokeInactiveSince(handler.of, handler.to, handler.end, today) \in Dates
  BY <1>1, ChosenDayTyped
<1> QED
  BY <1>1, <1>2, <1>3, <1>4 DEF Next, GridOperator

LEMMA ListImplements ==
  EdaInv /\ SyncMeteringPoints => [Next]_row
<1> SUFFICES ASSUME EdaInv, SyncMeteringPoints PROVE [Next]_row
  OBVIOUS
<1>1. PICK t \in handler.todo :
        /\ handler.pc = "list"
        /\ UpdateActiveMeteringPoints(t, handler.list, handler.consent) \/ UNCHANGED row
  BY DEF SyncMeteringPoints
<1>2. /\ handler.todo \in SUBSET Tenants /\ handler.consent \in ConsentIds \cup {NoConsent}
      /\ \E M \in SUBSET Meters : handler.list \in [M -> Dates]
  BY <1>1, HandlerFields DEF EdaInv, EdaTypeOK
<1>3. PICK M \in SUBSET Meters : handler.list \in [M -> Dates]
  BY <1>2
<1>4. CASE UpdateActiveMeteringPoints(t, handler.list, handler.consent)
  <2>1. CASE M = {}
    BY <1>3, <1>4, <2>1 DEF UpdateActiveMeteringPoints, Assigned, Of, EdaInv, CoreInv, Core, TypeOK
  <2>2. CASE M # {}
    <3>1. Synchronise(t)
      BY <1>2, <1>3, <1>4, <2>2 DEF Synchronise
    <3> QED
      BY <1>2, <3>1 DEF Next, GridOperator
  <2> QED
    BY <2>1, <2>2
<1> QED
  BY <1>1, <1>4

\* Whatever a handler or the administration does, the register takes one of
\* its steps, or none.
LEMMA StepImplements ==
  EdaInv /\ [EdaNext]_edaVars => [Next \/ Support]_row
<1> SUFFICES ASSUME EdaInv, [EdaNext]_edaVars PROVE [Next \/ Support]_row
  OBVIOUS
<1>1. CASE ProtocolEcReqOnlHandler \/ RevokeAfterAnswer \/ SyncMeteringPoints
  BY <1>1, RegistrationImplements, AnswerImplements, ListImplements
<1>2. CASE HandleRevocation
  BY <1>2 DEF HandleRevocation, Next, GridOperator
<1>3. CASE Administer
  BY <1>3 DEF Administer, Next
<1>4. CASE \/ ReceiveRegistration \/ RequestRevoke \/ ReceiveDeregistration \/ HandleEcho
           \/ ReceiveList \/ QueueMail \/ Kill \/ UNCHANGED edaVars
  BY <1>4 DEF ReceiveRegistration, RequestRevoke, ReceiveDeregistration, HandleEcho, ReceiveList,
              QueueMail, Kill, edaVars
<1> QED
  BY <1>1, <1>2, <1>3, <1>4 DEF EdaNext

-----------------------------------------------------------------------------
(* The invariant of the handlers. *)

LEMMA EdaInitially == EdaInit => EdaInv
<1> SUFFICES ASSUME EdaInit PROVE EdaInv
  OBVIOUS
<1>1. CoreInv
  BY CoreInit DEF EdaInit, CoreInv
<1>2. EdaTypeOK
  BY <1>1 DEF EdaInit, EdaTypeOK, CoreInv, Core, Handler
<1>3. Conversation
  BY DEF EdaInit, Conversation, NoHandler
<1> QED
  BY <1>1, <1>2, <1>3 DEF EdaInv

\* A step keeps the invariant once what it makes of the handler is typed.
LEMMA HandlerStep ==
  ASSUME EdaInv, [EdaNext]_edaVars, handler' \in Handler,
         UNCHANGED <<asked, history>>,
         \/ handler'.pc \notin {"echo", "answer"}
         \/ handler' = handler
  PROVE  EdaInv'
<1>1. CoreInv'
  BY StepImplements, CoreStep DEF EdaInv, CoreInv
<1>2. EdaTypeOK'
  BY <1>1 DEF EdaInv, EdaTypeOK, CoreInv, Core, Deregistration
<1>3. Conversation'
  BY DEF EdaInv, Conversation
<1> QED
  BY <1>1, <1>2, <1>3 DEF EdaInv

\* What a handler becomes.
LEMMA MailTyped ==
  ASSUME NEW text \in Texts, NEW M \in SUBSET Meters, NEW T \in SUBSET Tenants, NEW calm \in BOOLEAN,
         NEW h, h = [pc |-> "mail", text |-> text, meters |-> M, tenants |-> T, calm |-> calm]
  PROVE  h \in Handler /\ h.pc = "mail"
BY DEF Handler

LEMMA IdleTyped == NoHandler \in Handler /\ NoHandler.pc = "idle"
BY DEF Handler, NoHandler

\* The mails of a message.
LEMMA OutcomeMail ==
  ASSUME NEW msg \in Outcomes
  PROVE  msg.mail \in {"none", "portal", "active"}
<1>1. ASSUME NEW state, NEW keep \in BOOLEAN, NEW since, NEW c, NEW mail,
             msg = Outcome(state, keep, since, c, mail)
      PROVE  msg.mail = mail
  BY <1>1 DEF Outcome
<1>2. FALSE \in BOOLEAN
  OBVIOUS
<1>3. CASE msg = Outcome("RESTORE", FALSE, NoDate, NoConsent, "none")
  BY <1>1, <1>2, <1>3
<1>4. CASE \E state \in Rejections, keep \in BOOLEAN : msg = Outcome(state, keep, NoDate, NoConsent, "none")
  BY <1>1, <1>4
<1>5. CASE \E d \in Dates, c \in ConsentIds \cup {NoConsent}, mail \in {"none", "active"} :
              msg = Outcome("ACTIVE", FALSE, d, c, mail)
  BY <1>1, <1>2, <1>5
<1>6. CASE \E c \in ConsentIds \cup {NoConsent} : msg = Outcome("APPROVED", FALSE, NoDate, c, "none")
  BY <1>1, <1>2, <1>6
<1>7. CASE \E state \in {"INIT", "PENDING"}, mail \in {"none", "portal"} :
              msg = Outcome(state, FALSE, NoDate, NoConsent, mail)
  BY <1>1, <1>2, <1>7
<1> QED
  BY <1>3, <1>4, <1>5, <1>6, <1>7, OutcomeForms

\* Every step keeps the invariant.
LEMMA EdaStep == EdaInv /\ [EdaNext]_edaVars => EdaInv'
<1> SUFFICES ASSUME EdaInv, [EdaNext]_edaVars PROVE EdaInv'
  OBVIOUS
<1> USE HandlerFields
<1>1. EdaTypeOK /\ CoreInv' /\ Conversation
  BY StepImplements, CoreStep DEF EdaInv, CoreInv
<1>2. CASE ReceiveRegistration
  <2>1. PICK rc \in Receivers, M \in (SUBSET Meters) \ {{}} :
           /\ ForReceivingRc(rc) /\ UNCHANGED <<asked, history>>
           /\ handler' = [pc |-> "registration", meters |-> M, to |-> GetEegByEcIdAndMeters(M), calm |-> TRUE]
    BY <1>2 DEF ReceiveRegistration, Receive
  <2>2. GetEegByEcIdAndMeters(M) \in Tenants
    BY <2>1, ReceivedSomewhere, MessageCommunity
  <2>3. handler' \in Handler /\ handler'.pc = "registration"
    BY <2>1, <2>2 DEF Handler
  <2> QED
    BY <2>1, <2>3, HandlerStep
<1>3. CASE ProtocolEcReqOnlHandler
  <2>1. PICK msg \in Outcomes :
           /\ handler.pc = "registration" /\ UNCHANGED <<asked, history>>
           /\ \/ handler' = NoHandler
              \/ \E calm \in {handler.calm, FALSE} : ThenMail(msg.mail, handler.meters, calm)
    BY <1>3 DEF ProtocolEcReqOnlHandler
  <2>2. handler.meters \in SUBSET Meters /\ {handler.calm, FALSE} \subseteq BOOLEAN
    BY <1>1, <2>1 DEF EdaTypeOK
  <2>3. msg.mail # "none" => msg.mail \in Texts
    BY OutcomeMail DEF Texts
  <2>4. handler' \in Handler /\ handler'.pc \in {"idle", "mail"}
    <3>1. CASE handler' = NoHandler
      BY <3>1, IdleTyped
    <3>2. CASE \E calm \in {handler.calm, FALSE} :
                 /\ msg.mail # "none"
                 /\ handler' = [pc |-> "mail", text |-> msg.mail, meters |-> handler.meters,
                                tenants |-> {}, calm |-> calm]
      <4>1. PICK calm \in {handler.calm, FALSE} :
                 /\ msg.mail # "none"
                 /\ handler' = [pc |-> "mail", text |-> msg.mail, meters |-> handler.meters,
                                tenants |-> {}, calm |-> calm]
        BY <3>2
      <4>2. calm \in BOOLEAN /\ {} \in SUBSET Tenants
        BY <2>2
      <4> QED
        BY <2>2, <2>3, <4>1, <4>2, MailTyped
    <3> QED
      BY <2>1, <3>1, <3>2 DEF ThenMail
  <2> QED
    BY <2>1, <2>4, HandlerStep
<1>4. CASE RequestRevoke
  <2> DEFINE Sent(p, m, v, d) ==
               /\ asked[v] = {}
               /\ asked' = [asked EXCEPT ![v] = {[tenant |-> TenantOf[p], meter |-> m, end |-> d]}]
               /\ UNCHANGED <<row, handler, history, handled, operations>>
  <2>0. \E p \in Participants, m \in Meters, v \in Conversations, d \in Dates : Sent(p, m, v, d)
    BY <1>4, Zenon DEF RequestRevoke
  <2>1. PICK p \in Participants, m \in Meters, v \in Conversations, d \in Dates : Sent(p, m, v, d)
    BY <2>0
  <2>2. {[tenant |-> TenantOf[p], meter |-> m, end |-> d]} \in SUBSET Deregistration
    BY TenantAssumption DEF Deregistration
  <2>3. asked' \in [Conversations -> SUBSET Deregistration]
    BY <1>1, <2>1, <2>2 DEF EdaTypeOK
  <2>4. EdaTypeOK'
    BY <1>1, <2>1, <2>3 DEF EdaTypeOK, CoreInv, Core
  <2>5. \A w \in Conversations : asked[w] # {} => asked'[w] = asked[w]
    BY <1>1, <2>1 DEF EdaTypeOK
  <2>6. handler.pc \in {"echo", "answer"} => handler.of \in Conversations
    BY <1>1 DEF EdaTypeOK
  <2>7. Conversation'
    BY <1>1, <2>1, <2>5, <2>6 DEF Conversation
  <2> QED
    BY <1>1, <2>4, <2>7 DEF EdaInv
<1>5. CASE ReceiveDeregistration
  <2> DEFINE Received(v, d) ==
               \/ handler' = [pc |-> "echo", of |-> v, to |-> GetEegByEcIdAndMeters({d.meter})]
               \/ \E end \in {d.end, NoDate} :
                     handler' = [pc |-> "answer", of |-> v, to |-> GetEegByEcIdAndMeters({d.meter}), end |-> end]
  <2>0. PICK rc \in Receivers, v \in Conversations :
           /\ ForReceivingRc(rc) /\ UNCHANGED <<asked, history>>
           /\ \E d \in asked[v] : Received(v, d)
    BY <1>5 DEF ReceiveDeregistration, Receive
  <2>1. PICK d \in asked[v] : Received(v, d)
    BY <2>0
  <2>2. GetEegByEcIdAndMeters({d.meter}) \in Tenants
    BY <2>0, ReceivedSomewhere, MessageCommunity
  <2>3. d \in Deregistration
    BY <1>1, <2>1 DEF EdaTypeOK
  <2>4. d.end \in Dates
    BY <2>3 DEF Deregistration
  <2>5. /\ handler' \in Handler
        /\ handler'.pc \in {"echo", "answer"} => handler'.of = v
        /\ handler'.pc = "answer" => handler'.end \in {d.end, NoDate}
    BY <2>1, <2>2, <2>4 DEF Handler
  <2>6. EdaTypeOK'
    BY <1>1, <2>0, <2>5 DEF EdaTypeOK, CoreInv, Core, Deregistration
  <2>7. Conversation'
    BY <1>1, <2>0, <2>5 DEF Conversation
  <2> QED
    BY <1>1, <2>6, <2>7 DEF EdaInv
<1>6. CASE HandleEcho
  <2>1. /\ handler.pc = "echo" /\ handler' = NoHandler /\ UNCHANGED asked
        /\ history' \in {history, history \cup {<<handler.of, handler.to>>}}
    BY <1>6 DEF HandleEcho
  <2>2. handler.of \in Conversations /\ handler.to \in Tenants /\ asked[handler.of] # {}
    BY <1>1, <2>1 DEF EdaTypeOK, Conversation
  <2>3. EdaTypeOK'
    BY <1>1, <2>1, <2>2, IdleTyped DEF EdaTypeOK, CoreInv, Core, Deregistration
  <2>4. Conversation'
    BY <1>1, <2>1, <2>2, IdleTyped DEF Conversation
  <2> QED
    BY <1>1, <2>3, <2>4 DEF EdaInv
<1>7. CASE RevokeAfterAnswer
  <2>1. PICK today \in Dates :
           /\ handler.pc = "answer" /\ UNCHANGED <<asked, history>>
           /\ \/ handler' = NoHandler
              \/ ThenInactiveMail(Request(handler.of).meter,
                   AnswerMails(handler.to, Request(handler.of).meter,
                               RevokeInactiveSince(handler.of, handler.to, handler.end, today)))
    BY <1>7 DEF RevokeAfterAnswer, Request
  <2>2. Request(handler.of).meter \in Meters
    BY <1>1, <2>1, RequestTyped DEF EdaTypeOK, Conversation
  <2>3. \A t, m, d : AnswerMails(t, m, d) \in SUBSET Tenants
    <3>1. ASSUME NEW t, NEW m, NEW d
          PROVE  AnswerMails(t, m, d) \in SUBSET Tenants
      <4>1. {k \in Assigned(t, {m}) : row[k].since <= d} \in SUBSET Stored
        BY DEF Assigned, Of
      <4> QED
        BY <4>1, MailCommunities DEF AnswerMails
    <3> QED
      BY <3>1
  <2>4. handler' \in Handler /\ handler'.pc \in {"idle", "mail"}
    <3> DEFINE M == {Request(handler.of).meter}
               T == AnswerMails(handler.to, Request(handler.of).meter,
                                RevokeInactiveSince(handler.of, handler.to, handler.end, today))
    <3>1. M \in SUBSET Meters /\ T \in SUBSET Tenants /\ "inactive" \in Texts
      BY <2>2, <2>3 DEF Texts
    <3>2. \/ handler' = NoHandler
          \/ handler' = [pc |-> "mail", text |-> "inactive", meters |-> M, tenants |-> T, calm |-> TRUE]
      BY <2>1 DEF ThenInactiveMail
    <3> HIDE DEF M, T
    <3>3. CASE handler' = NoHandler
      BY <3>3, IdleTyped
    <3>4. CASE handler' = [pc |-> "mail", text |-> "inactive", meters |-> M, tenants |-> T, calm |-> TRUE]
      BY <3>1, <3>4, MailTyped
    <3> QED
      BY <3>2, <3>3, <3>4
  <2> QED
    BY <2>1, <2>4, HandlerStep
<1>8. CASE HandleRevocation
  <2>1. PICK rc \in Receivers, c \in ConsentIds \cup {NoConsent}, m \in Meters :
           /\ UNCHANGED <<asked, history>>
           /\ ThenInactiveMail(m, InactiveMailFor(RevocationHits(rc, c, m)))
    BY <1>8 DEF HandleRevocation, Receive
  <2>2. RevocationHits(rc, c, m) \in SUBSET Stored
    BY DEF RevocationHits
  <2>3. InactiveMailFor(RevocationHits(rc, c, m)) \in SUBSET Tenants
    BY <2>2, MailCommunities
  <2>4. handler' \in Handler /\ handler'.pc \in {"idle", "mail"}
    <3> DEFINE M == {m}
               T == InactiveMailFor(RevocationHits(rc, c, m))
    <3>1. M \in SUBSET Meters /\ T \in SUBSET Tenants /\ "inactive" \in Texts
      BY <2>3 DEF Texts
    <3>2. \/ handler' = NoHandler
          \/ handler' = [pc |-> "mail", text |-> "inactive", meters |-> M, tenants |-> T, calm |-> TRUE]
      BY <2>1 DEF ThenInactiveMail
    <3> HIDE DEF M, T
    <3>3. CASE handler' = NoHandler
      BY <3>3, IdleTyped
    <3>4. CASE handler' = [pc |-> "mail", text |-> "inactive", meters |-> M, tenants |-> T, calm |-> TRUE]
      BY <3>1, <3>4, MailTyped
    <3> QED
      BY <3>2, <3>3, <3>4
  <2> QED
    BY <2>1, <2>4, HandlerStep
<1>9. CASE ReceiveList
  <2>0. PICK M \in (SUBSET Meters) \ {{}}, c \in ConsentIds \cup {NoConsent} :
           \E list \in [M -> Dates] :
              /\ UNCHANGED <<asked, history>>
              /\ handler' = [pc |-> "list", todo |-> Tenants, list |-> list, consent |-> c]
    BY <1>9 DEF ReceiveList, Receive
  <2>1. PICK list \in [M -> Dates] :
           /\ UNCHANGED <<asked, history>>
           /\ handler' = [pc |-> "list", todo |-> Tenants, list |-> list, consent |-> c]
    BY <2>0
  <2>2. list \in UNION {[N -> Dates] : N \in SUBSET Meters}
    OBVIOUS
  <2>3. handler' \in Handler /\ handler'.pc = "list"
    BY <2>1, <2>2 DEF Handler
  <2> QED
    BY <2>1, <2>3, HandlerStep
<1>10. CASE SyncMeteringPoints
  <2>1. PICK t \in handler.todo :
           /\ handler.pc = "list" /\ UNCHANGED <<asked, history>>
           /\ handler' = IF handler.todo = {t} THEN NoHandler ELSE [handler EXCEPT !.todo = @ \ {t}]
    BY <1>10 DEF SyncMeteringPoints
  <2>2. handler \in [pc : {"list"}, todo : SUBSET Tenants,
                     list : UNION {[M -> Dates] : M \in SUBSET Meters},
                     consent : ConsentIds \cup {NoConsent}]
    BY <1>1, <2>1 DEF EdaTypeOK, Handler, NoHandler
  <2>3. handler' \in Handler /\ handler'.pc \in {"idle", "list"}
    <3>1. CASE handler.todo = {t}
      BY <2>1, <3>1, IdleTyped
    <3>2. CASE handler.todo # {t}
      <4>1. handler' \in [pc : {"list"}, todo : SUBSET Tenants,
                          list : UNION {[M -> Dates] : M \in SUBSET Meters},
                          consent : ConsentIds \cup {NoConsent}]
        BY <2>1, <2>2, <3>2
      <4> QED
        BY <4>1 DEF Handler
    <3> QED
      BY <3>1, <3>2
  <2> QED
    BY <2>1, <2>3, HandlerStep
<1>11. CASE QueueMail \/ Kill
  BY <1>11, IdleTyped, HandlerStep DEF QueueMail, Kill
<1>12. CASE Administer
  <2>1. UNCHANGED <<asked, history>> /\ handler' = Disturbed
    BY <1>12 DEF Administer
  <2>2. handler' \in Handler /\ (handler' = handler \/ handler'.pc \in {"registration", "mail"})
    <3>1. CASE handler.pc = "registration"
      <4>1. handler \in [pc : {"registration"}, meters : SUBSET Meters, to : Tenants, calm : BOOLEAN]
        BY <1>1, <3>1 DEF EdaTypeOK, Handler, NoHandler
      <4>2. handler' \in [pc : {"registration"}, meters : SUBSET Meters, to : Tenants, calm : BOOLEAN]
        BY <2>1, <3>1, <4>1 DEF Disturbed
      <4> QED
        BY <4>2 DEF Handler
    <3>2. CASE handler.pc = "mail"
      <4>1. handler \in [pc : {"mail"}, text : Texts, meters : SUBSET Meters,
                         tenants : SUBSET Tenants, calm : BOOLEAN]
        BY <1>1, <3>2 DEF EdaTypeOK, Handler, NoHandler
      <4>2. handler' \in [pc : {"mail"}, text : Texts, meters : SUBSET Meters,
                          tenants : SUBSET Tenants, calm : BOOLEAN]
        BY <2>1, <3>2, <4>1 DEF Disturbed
      <4> QED
        BY <4>2 DEF Handler
    <3>3. CASE handler.pc \notin {"registration", "mail"}
      BY <1>1, <2>1, <3>3 DEF Disturbed, EdaTypeOK
    <3> QED
      BY <3>1, <3>2, <3>3
  <2> QED
    BY <2>1, <2>2, HandlerStep
<1>13. CASE UNCHANGED edaVars
  BY <1>1, <1>13, HandlerStep DEF edaVars, EdaTypeOK
<1> QED
  BY <1>2, <1>3, <1>4, <1>5, <1>6, <1>7, <1>8, <1>9, <1>10, <1>11, <1>12, <1>13 DEF EdaNext

LEMMA EdaInvariance == EdaSpec => []EdaInv
BY EdaInitially, EdaStep, PTL DEF EdaSpec

\* The handlers work on what they were given: communities, metering points and
\* days of the message and of the request it answers.
THEOREM HandlersTyped == EdaSpec => []EdaTypeOK
<1>1. EdaInv => EdaTypeOK
  BY DEF EdaInv
<1> QED
  BY <1>1, EdaInvariance, PTL

\* The handlers implement the register: taken apart into steps between which
\* the administration acts, statements fail and the process is killed, they
\* change it only by the operations MeteringPoint describes.
THEOREM HandlersImplementRegister == EdaSpec => SupportedSpec
<1>1. EdaInit => Init
  BY DEF EdaInit
<1>2. EdaInv /\ [EdaNext]_edaVars => [Next \/ Support]_row
  BY StepImplements
<1> QED
  BY <1>1, <1>2, EdaInvariance, PTL DEF EdaSpec, SupportedSpec

\* So no interruption of a handler lets two members take part with one
\* metering point, or process state and status contradict each other.
THEOREM OneMemberWhileHandling == EdaSpec => [](AtMostOneActive /\ StatesAgree)
BY HandlersImplementRegister, OneMemberTakesPart, PTL

-----------------------------------------------------------------------------
(* What the handlers promise. *)

\* A revocation takes the rows with its consent, or rows without one.
LEMMA OthersKept ==
  ASSUME NEW rc, NEW c \in ConsentIds, NEW m, NEW d, RevokeByConsentId(rc, c, m, d),
         NEW k \in Stored, row[k].consent \notin {c, NoConsent}
  PROVE  row'[k] = row[k]
<1>1. k \notin RevocationHits(rc, c, m)
  BY ConsentAssumption DEF RevocationHits
<1>2. k \in Keys
  BY DEF Stored
<1> QED
  BY <1>1, <1>2 DEF RevokeByConsentId

\* However late a revocation comes, and whatever the handlers did meanwhile, a
\* participation under another consent stays as it is.
THEOREM ConsentsProtected == EdaSpec => ConsentProtects
<1>1. [\A rc \in Receivers, c \in ConsentIds, m \in Meters, d \in Dates :
         RevokeByConsentId(rc, c, m, d) =>
            \A k \in Stored : row[k].consent \notin {c, NoConsent} => row'[k] = row[k]]_row
  BY OthersKept
<1> QED
  BY <1>1, PTL DEF ConsentProtects

\* A step that begins to write the mail of an end: it has ended one row of each
\* community that is told.
TellsOnce == handler'.pc = "mail" /\ handler'.text = "inactive" /\ handler.pc # "mail" =>
               \A t \in handler'.tenants :
                  \E k \in Of(t, handler'.meters) : TakesPart(row[k]) /\ ~TakesPart(row'[k])

LEMMA ReceivedNoMail ==
  ASSUME ReceiveRegistration \/ ReceiveDeregistration \/ ReceiveList
  PROVE  handler = NoHandler /\ handler'.pc # "mail"
<1>1. CASE ReceiveRegistration
  BY <1>1 DEF ReceiveRegistration, Receive
<1>2. CASE ReceiveDeregistration
  BY <1>2 DEF ReceiveDeregistration, Receive
<1>3. CASE ReceiveList
  <2>1. \E M, c, list : handler' = [pc |-> "list", todo |-> Tenants, list |-> list, consent |-> c]
    BY <1>3, Zenon DEF ReceiveList
  <2> QED
    BY <1>3, <2>1 DEF ReceiveList, Receive
<1> QED
  BY <1>1, <1>2, <1>3

LEMMA TellsOnceStep == EdaInv /\ [EdaNext]_edaVars => [TellsOnce]_edaVars
<1> SUFFICES ASSUME EdaInv, EdaNext, handler'.pc = "mail", handler'.text = "inactive",
                    handler.pc # "mail", NEW t \in handler'.tenants
             PROVE  \E k \in Of(t, handler'.meters) : TakesPart(row[k]) /\ ~TakesPart(row'[k])
  BY DEF TellsOnce
<1>1. CASE RevokeAfterAnswer
  <2>1. PICK today \in Dates :
           LET m == Request(handler.of).meter
               day == RevokeInactiveSince(handler.of, handler.to, handler.end, today)
           IN \/ /\ RevokeActive(handler.to, m, day)
                 /\ ThenInactiveMail(m, AnswerMails(handler.to, m, day))
              \/ handler' = NoHandler
    BY <1>1 DEF RevokeAfterAnswer, Request
  <2> DEFINE m == Request(handler.of).meter
             day == RevokeInactiveSince(handler.of, handler.to, handler.end, today)
  <2>2. /\ RevokeActive(handler.to, m, day)
        /\ handler'.meters = {m} /\ handler'.tenants = AnswerMails(handler.to, m, day)
    BY <2>1, IdleTyped DEF ThenInactiveMail
  <2> HIDE DEF m, day
  <2>3. PICK k \in Assigned(handler.to, {m}) : row[k].since <= day /\ TakesPart(row[k]) /\ t = Tenant(k)
    BY <2>2 DEF AnswerMails, InactiveMailFor
  <2>4. row'[k] = RevokedRow(row[k], day)
    BY <2>2, <2>3 DEF RevokeActive, Assigned, Of, Stored
  <2>5. row[k] \in Row
    BY <2>3, StoredRow DEF Assigned, Of, EdaInv, CoreInv, Core
  <2>6. ~TakesPart(row'[k])
    BY <2>4, <2>5 DEF RevokedRow, TakesPart, Row
  <2> QED
    BY <2>2, <2>3, <2>6 DEF Assigned, Of
<1>2. CASE HandleRevocation
  <2>1. PICK rc \in Receivers, c \in ConsentIds \cup {NoConsent}, m \in Meters, d \in Dates :
           /\ RevokeByConsentId(rc, c, m, d)
           /\ ThenInactiveMail(m, InactiveMailFor(RevocationHits(rc, c, m)))
    BY <1>2, Zenon DEF HandleRevocation
  <2>2. handler'.meters = {m} /\ handler'.tenants = InactiveMailFor(RevocationHits(rc, c, m))
    BY <2>1, IdleTyped DEF ThenInactiveMail
  <2>3. PICK k \in RevocationHits(rc, c, m) : TakesPart(row[k]) /\ t = Tenant(k)
    BY <2>2 DEF InactiveMailFor
  <2>4. k \in Stored /\ k[1] = m
    BY <2>3 DEF RevocationHits
  <2>5. row'[k] = ConsentRevokedRow(row[k], d)
    BY <2>1, <2>3, <2>4 DEF RevokeByConsentId, Stored
  <2>6. row[k] \in Row
    BY <2>4, StoredRow DEF EdaInv, CoreInv, Core
  <2>7. ~TakesPart(row'[k])
    BY <2>3, <2>5, <2>6 DEF ConsentRevokedRow, TakesPart, Row
  <2> QED
    BY <2>2, <2>3, <2>4, <2>7 DEF Of
<1>3. CASE ProtocolEcReqOnlHandler
  <2>1. PICK msg \in Outcomes :
           \/ handler' = NoHandler
           \/ \E calm \in {handler.calm, FALSE} : ThenMail(msg.mail, handler.meters, calm)
    BY <1>3 DEF ProtocolEcReqOnlHandler
  <2>2. handler'.text = msg.mail
    BY <2>1, IdleTyped DEF ThenMail
  <2> QED
    BY <2>2, OutcomeMail
<1>4. CASE Administer
  BY <1>4, HandlerFields DEF Administer, Disturbed, EdaInv, EdaTypeOK
<1>5. CASE SyncMeteringPoints
  BY <1>5, IdleTyped DEF SyncMeteringPoints
<1>6. CASE ReceiveRegistration \/ ReceiveDeregistration \/ ReceiveList
  BY <1>6, ReceivedNoMail
<1>7. CASE RequestRevoke \/ HandleEcho \/ QueueMail \/ Kill
  BY <1>7, IdleTyped DEF RequestRevoke, HandleEcho, QueueMail, Kill
<1> QED
  BY <1>1, <1>2, <1>3, <1>4, <1>5, <1>6, <1>7 DEF EdaNext

\* The member whose metering point left is told by the one message that ended
\* his participation.
THEOREM MemberToldOnce == EdaSpec => ToldOnce
<1>1. EdaInv /\ [EdaNext]_edaVars => [TellsOnce]_edaVars
  BY TellsOnceStep
<1>2. [][TellsOnce]_edaVars => ToldOnce
  BY PTL DEF ToldOnce, TellsOnce
<1> QED
  BY <1>1, <1>2, EdaInvariance, PTL DEF EdaSpec

\* A step that handles the answer to a deregistration.
EndsAsChosen == handler.pc = "answer" /\ handler' # handler =>
                  \A k \in Stored : TakesPart(row[k]) /\ ~TakesPart(row'[k]) =>
                     \/ \E d \in asked[handler.of] : row'[k].until = d.end
                     \/ handler.end = NoDate /\ <<handler.of, Tenant(k)>> \notin history

LEMMA EndsAsChosenStep == EdaInv /\ [EdaNext]_edaVars => [EndsAsChosen]_edaVars
<1> SUFFICES ASSUME EdaInv, EdaNext, handler.pc = "answer", handler' # handler,
                    NEW k \in Stored, TakesPart(row[k]), ~TakesPart(row'[k])
             PROVE  \/ \E d \in asked[handler.of] : row'[k].until = d.end
                    \/ handler.end = NoDate /\ <<handler.of, Tenant(k)>> \notin history
  BY DEF EndsAsChosen
<1>1. CASE RevokeAfterAnswer
  <2>1. PICK today \in Dates :
           \/ RevokeActive(handler.to, Request(handler.of).meter,
                           RevokeInactiveSince(handler.of, handler.to, handler.end, today))
           \/ UNCHANGED row
    BY <1>1 DEF RevokeAfterAnswer, Request
  <2> DEFINE m == Request(handler.of).meter
             day == RevokeInactiveSince(handler.of, handler.to, handler.end, today)
  <2>2. RevokeActive(handler.to, m, day)
    BY <2>1
  <2>3. day = RevokeInactiveSince(handler.of, handler.to, handler.end, today)
    OBVIOUS
  <2> HIDE DEF m, day
  <2>4. row[k] \in Row /\ k \in Keys
    BY StoredRow DEF EdaInv, CoreInv, Core
  <2>5. k \in Assigned(handler.to, {m}) /\ row'[k] = RevokedRow(row[k], day)
    BY <2>2, <2>4 DEF RevokeActive
  <2>6. Tenant(k) = handler.to /\ row'[k].until = day
    BY <2>4, <2>5 DEF Assigned, Of, RevokedRow, Row
  <2>7. handler.of \in Conversations /\ asked[handler.of] # {}
    BY HandlerFields DEF EdaInv, EdaTypeOK, Conversation
  <2>8. Request(handler.of) \in asked[handler.of]
    BY <2>7, RequestTyped DEF EdaInv
  <2>9. CASE <<handler.of, handler.to>> \in history
    BY <2>3, <2>6, <2>8, <2>9 DEF RevokeInactiveSince, Request
  <2>10. CASE <<handler.of, handler.to>> \notin history /\ handler.end # NoDate
    <3>1. \E d \in asked[handler.of] : handler.end = d.end
      BY <2>10 DEF EdaInv, Conversation
    <3> QED
      BY <2>3, <2>6, <2>10, <3>1 DEF RevokeInactiveSince
  <2>11. CASE <<handler.of, handler.to>> \notin history /\ handler.end = NoDate
    BY <2>6, <2>11
  <2> QED
    BY <2>9, <2>10, <2>11
<1>2. CASE Administer
  BY <1>2 DEF Administer, Disturbed
<1>3. CASE HandleRevocation \/ ReceiveRegistration \/ ReceiveDeregistration \/ ReceiveList
  BY <1>3, ReceivedNoMail, IdleTyped DEF HandleRevocation, Receive
<1>4. CASE ProtocolEcReqOnlHandler \/ HandleEcho \/ SyncMeteringPoints \/ QueueMail
  BY <1>4 DEF ProtocolEcReqOnlHandler, HandleEcho, SyncMeteringPoints, QueueMail
<1>5. CASE RequestRevoke \/ Kill
  BY <1>5 DEF RequestRevoke, Kill
<1> QED
  BY <1>1, <1>2, <1>3, <1>4, <1>5 DEF EdaNext

\* A participation ends on the day its community chose, whichever message told
\* the handler of that day.
THEOREM ParticipationEndsAsChosen == EdaSpec => EndsOnChosenDay
<1>1. EdaInv /\ [EdaNext]_edaVars => [EndsAsChosen]_edaVars
  BY EndsAsChosenStep
<1>2. [][EndsAsChosen]_edaVars => EndsOnChosenDay
  BY PTL DEF EndsOnChosenDay, EndsAsChosen
<1> QED
  BY <1>1, <1>2, EdaInvariance, PTL DEF EdaSpec

-----------------------------------------------------------------------------
(* Mails say what the register says. *)

\* While the register stays as it is, so does the community of a message.
LEMMA CommunityStays ==
  ASSUME NEW M, \A t \in Tenants : Claim(t, M)' = Claim(t, M)
  PROVE  GetEegByEcIdAndMeters(M)' = GetEegByEcIdAndMeters(M)
<1> DEFINE best == {t \in Tenants : \A u \in Tenants : Claim(u, M) <= Claim(t, M)}
<1>1. best' = best
  OBVIOUS
<1>2. GetEegByEcIdAndMeters(M) = IF \A t \in Tenants : Claim(t, M) = 0 THEN BaseEeg ELSE ByName(best)
  BY DEF GetEegByEcIdAndMeters
<1>3. GetEegByEcIdAndMeters(M)' = IF \A t \in Tenants : Claim(t, M)' = 0 THEN BaseEeg ELSE ByName(best')
  BY DEF GetEegByEcIdAndMeters, BaseEeg, ByName
<1> HIDE DEF best
<1>4. GetEegByEcIdAndMeters(M)' = IF \A t \in Tenants : Claim(t, M) = 0 THEN BaseEeg ELSE ByName(best)
  BY <1>1, <1>3
<1> QED
  BY <1>2, <1>4

\* A row that changes nothing but what claims do not ask for.
LEMMA ClaimStays ==
  ASSUME NEW t \in Tenants, NEW M,
         \A k \in Keys : (k \in Stored)' <=> k \in Stored,
         \A k \in Of(t, M) : /\ row'[k].flag = row[k].flag
                             /\ row'[k].status = "INACTIVE" <=> row[k].status = "INACTIVE"
  PROVE  /\ Claim(t, M)' = Claim(t, M)
         /\ Assigned(t, M)' = Assigned(t, M)
<1>1. Stored' = Stored
  BY DEF Stored
<1>2. Of(t, M)' = Of(t, M)
  BY <1>1 DEF Of
<1>3. Assigned(t, M)' = Assigned(t, M)
  BY <1>2 DEF Assigned
<1>4. \A k \in Assigned(t, M) : row'[k].status = "INACTIVE" <=> row[k].status = "INACTIVE"
  BY DEF Assigned
<1>5. Claim(t, M)' = Claim(t, M)
  BY <1>2, <1>3, <1>4 DEF Claim
<1> QED
  BY <1>3, <1>5

\* The message that tells a member something does not take its metering points
\* to another community, and makes of their rows what is told.
LEMMA MessageStays ==
  ASSUME TypeOK, NEW to \in Tenants, NEW M \in SUBSET Meters, NEW msg \in RegistrationMessages,
         msg.state \in {"PENDING", "ACTIVE"}, SetStatus(to, M, msg), to = GetEegByEcIdAndMeters(M)
  PROVE  /\ GetEegByEcIdAndMeters(M)' = to
         /\ \A k \in Assigned(to, M)' : /\ row'[k].ps = msg.state
                                        /\ msg.state = "ACTIVE" => row'[k].status = "ACTIVE"
<1>1. ASSUME NEW k \in Assigned(to, M)
      PROVE  /\ k \in Keys /\ row[k] \in Row /\ row'[k] \in Row /\ row'[k] = StatusRow(row[k], msg)
             /\ row'[k].flag = row[k].flag /\ row'[k].ps = msg.state
             /\ row'[k].status = IF msg.state = "ACTIVE" THEN "ACTIVE" ELSE row[k].status
  <2>1. k \in Keys /\ row[k] \in Row
    BY StoredRow DEF Assigned, Of
  <2>2. row'[k] = StatusRow(row[k], msg)
    BY <2>1 DEF SetStatus
  <2>3. StatusRow(row[k], msg) \in Row
    BY <2>1, MessagesTyped, StatusRowTyped
  <2>4. MessageState(row[k], msg) = msg.state
    BY DEF MessageState, Rejections
  <2>5. /\ StatusRow(row[k], msg).flag = row[k].flag
        /\ StatusRow(row[k], msg).ps = msg.state
        /\ StatusRow(row[k], msg).status = IF msg.state = "ACTIVE" THEN "ACTIVE" ELSE row[k].status
    BY <2>1, <2>4 DEF StatusRow, Row
  <2> QED
    BY <2>1, <2>2, <2>3, <2>5
<1>2. \A k \in Keys : k \notin Assigned(to, M) => row'[k] = row[k]
  BY DEF SetStatus
<1>3. \A k \in Keys : (k \in Stored)' <=> k \in Stored
  <2>1. \A k \in Assigned(to, M) : row[k] # NoRow /\ row'[k] # NoRow
    BY <1>1, TenantAssumption
  <2> QED
    BY <1>2, <2>1 DEF Stored
<1>4. ASSUME NEW t \in Tenants, t # to
      PROVE  Claim(t, M)' = Claim(t, M)
  <2>1. \A k \in Of(t, M) : k \in Keys /\ k \notin Assigned(to, M)
    BY <1>4 DEF Of, Assigned, Stored
  <2> QED
    BY <1>2, <1>3, <2>1, ClaimStays
<1>5. Assigned(to, M)' = Assigned(to, M)
  <2>1. Of(to, M)' = Of(to, M)
    BY <1>3 DEF Of, Stored
  <2>2. \A k \in Of(to, M) : row'[k].flag = row[k].flag
    BY <1>1, <1>2 DEF Of, Stored
  <2> QED
    BY <2>1, <2>2 DEF Assigned
<1>6. \A k \in Assigned(to, M)' : row'[k].ps = msg.state /\ (msg.state = "ACTIVE" => row'[k].status = "ACTIVE")
  BY <1>1, <1>5
<1>7. ASSUME Claim(to, M)' = Claim(to, M)
      PROVE  GetEegByEcIdAndMeters(M)' = to
  BY <1>4, <1>7, CommunityStays
<1>8. CASE msg.state = "PENDING" \/ Assigned(to, M) = {} \/ \E k \in Assigned(to, M) : row[k].status # "INACTIVE"
  <2>1. Of(to, M)' = Of(to, M)
    BY <1>3 DEF Of, Stored
  <2>2. CASE msg.state = "PENDING"
    <3>1. \A k \in Assigned(to, M) : row'[k].status = row[k].status
      BY <1>1, <2>2
    <3>2. Claim(to, M)' = Claim(to, M)
      BY <1>5, <2>1, <3>1 DEF Claim
    <3> QED
      BY <1>6, <1>7, <3>2
  <2>3. CASE Assigned(to, M) = {}
    <3>1. Claim(to, M)' = Claim(to, M)
      BY <1>5, <2>1, <2>3 DEF Claim
    <3> QED
      BY <1>6, <1>7, <3>1
  <2>4. CASE msg.state = "ACTIVE" /\ \E k \in Assigned(to, M) : row[k].status # "INACTIVE"
    <3>1. \A k \in Assigned(to, M) : row'[k].status = "ACTIVE"
      BY <1>1, <2>4
    <3>2. Claim(to, M) = 3 /\ Claim(to, M)' = 3
      BY <1>5, <2>4, <3>1 DEF Claim
    <3> QED
      BY <1>6, <1>7, <3>2
  <2> QED
    BY <1>8, <2>2, <2>3, <2>4
\* Its claim rises from the second place, where no other was before it.
<1>9. CASE msg.state = "ACTIVE" /\ Assigned(to, M) # {} /\ \A k \in Assigned(to, M) : row[k].status = "INACTIVE"
  <2>1. Claim(to, M) = 2
    BY <1>9 DEF Claim
  <2>2. Claim(to, M)' = 3
    BY <1>1, <1>5, <1>9 DEF Claim
  <2>3. \A t \in Tenants : Claim(t, M) <= 2
    BY <2>1, MessageCommunity
  <2>4. \A t \in Tenants : Claim(t, M) \in 0 .. 3
    BY DEF Claim
  <2>5. {t \in Tenants : \A u \in Tenants : Claim(u, M) <= Claim(t, M)}' = {to}
    BY <1>4, <2>2, <2>3, <2>4
  <2>6. GetEegByEcIdAndMeters(M)' = ByName({to})
    BY <2>2, <2>5 DEF GetEegByEcIdAndMeters, ByName, BaseEeg
  <2>7. ByName({to}) \in {to}
    BY FirstByName
  <2> QED
    BY <1>6, <2>6, <2>7
<1> QED
  BY <1>8, <1>9

\* What a mail tells goes with what the message said.
LEMMA MailsOfMessages ==
  ASSUME NEW msg \in Outcomes
  PROVE  /\ msg.mail = "portal" => msg.state = "PENDING"
         /\ msg.mail = "active" => msg.state = "ACTIVE"
<1> DEFINE A == {RejectionOutcome(codes, today) : codes \in SUBSET Codes, today \in Dates}
           B == {Outcome("APPROVED", FALSE, NoDate, c, "none") : c \in ConsentIds \cup {NoConsent}}
           C == {Outcome("INVALID", TRUE, NoDate, NoConsent, "none"),
                 Outcome("INVALID", FALSE, NoDate, NoConsent, "none"),
                 Outcome("PENDING", FALSE, NoDate, NoConsent, "portal"),
                 Outcome("INIT", FALSE, NoDate, NoConsent, "none"),
                 Outcome("REJECTED", FALSE, NoDate, NoConsent, "none")}
           D == {Outcome("ACTIVE", FALSE, d, c, "active") : d \in Dates, c \in ConsentIds \cup {NoConsent}}
<1>1. CASE msg \in A
  BY <1>1 DEF RejectionOutcome, Outcome
<1>2. CASE msg \in B
  BY <1>2 DEF Outcome
<1>3. CASE msg \in C
  BY <1>3 DEF Outcome
<1>4. CASE msg \in D
  BY <1>4 DEF Outcome
<1>5. Outcomes = A \cup B \cup C \cup D
  BY DEF Outcomes
<1> HIDE DEF A, B, C, D
<1> QED
  BY <1>1, <1>2, <1>3, <1>4, <1>5

\* A handler that was not disturbed still goes to the community it found.
Calm == /\ handler.pc = "registration" /\ handler.calm => handler.to = GetEegByEcIdAndMeters(handler.meters)
        /\ MailTellsTruth

LEMMA SameCommunity ==
  ASSUME UNCHANGED row, NEW M
  PROVE  GetEegByEcIdAndMeters(M)' = GetEegByEcIdAndMeters(M)
<1>1. \A t \in Tenants : Claim(t, M)' = Claim(t, M)
  BY DEF Claim, Assigned, Of, Stored
<1> QED
  BY <1>1, CommunityStays

\* Who is told, by what mail.
LEMMA ToldWhom ==
  ASSUME NEW M, handler.meters = M
  PROVE  /\ handler.text # "inactive" => Told = Assigned(GetEegByEcIdAndMeters(M), M)
         /\ handler.text = "inactive" => Told = UNION {Assigned(t, M) : t \in handler.tenants}
BY DEF Told, MailTenants

\* The mail of a registration.
LEMMA RegistrationTellsTruth ==
  ASSUME EdaInv, Calm, ProtocolEcReqOnlHandler
  PROVE  Calm'
<1>1. /\ TypeOK /\ handler.pc = "registration" /\ handler.to \in Tenants /\ handler.meters \in SUBSET Meters
      /\ handler.calm \in BOOLEAN
  BY HandlerFields DEF EdaInv, EdaTypeOK, ProtocolEcReqOnlHandler
<1>2. PICK to \in Tenants, M \in SUBSET Meters : to = handler.to /\ M = handler.meters
  BY <1>1
<1>3. PICK msg \in Outcomes :
        \/ handler' = NoHandler
        \/ msg.state # "RESTORE" /\ SetStatus(to, M, msg) /\ ThenMail(msg.mail, M, handler.calm)
        \/ ThenMail(msg.mail, M, FALSE)
  BY <1>2 DEF ProtocolEcReqOnlHandler
<1>4. CASE handler' = NoHandler
  BY <1>4, IdleTyped DEF Calm, MailTellsTruth
<1>5. CASE handler' = [pc |-> "mail", text |-> msg.mail, meters |-> M, tenants |-> {}, calm |-> FALSE]
  BY <1>5 DEF Calm, MailTellsTruth
<1>6. CASE /\ msg.state # "RESTORE" /\ SetStatus(to, M, msg) /\ msg.mail # "none" /\ handler.calm
           /\ handler' = [pc |-> "mail", text |-> msg.mail, meters |-> M, tenants |-> {}, calm |-> TRUE]
  <2>1. msg.mail \in {"portal", "active"} /\ msg.state \in {"PENDING", "ACTIVE"}
        /\ (msg.mail = "portal" => msg.state = "PENDING") /\ (msg.mail = "active" => msg.state = "ACTIVE")
    BY <1>6, OutcomeMail, MailsOfMessages
  <2>2. PICK reg \in RegistrationMessages :
           /\ reg.state = msg.state /\ reg.keep = msg.keep
           /\ reg.since = msg.since /\ reg.consent = msg.consent
    BY <1>6, OutcomeMessage
  <2>3. SetStatus(to, M, reg)
    BY <1>6, <2>2, SameMessage
  <2>4. to = GetEegByEcIdAndMeters(M)
    BY <1>1, <1>2, <1>6 DEF Calm
  <2>5. /\ GetEegByEcIdAndMeters(M)' = to
        /\ \A k \in Assigned(to, M)' : /\ row'[k].ps = msg.state
                                       /\ msg.state = "ACTIVE" => row'[k].status = "ACTIVE"
    BY <1>1, <2>1, <2>2, <2>3, <2>4, MessageStays
  <2>6. Told' = Assigned(to, M)'
    <3>1. handler'.meters = M /\ handler'.text = msg.mail
      BY <1>6
    <3>2. Told' = Assigned(GetEegByEcIdAndMeters(M), M)'
      BY <2>1, <3>1 DEF Told, MailTenants
    <3> QED
      BY <2>5, <3>2 DEF Assigned, Of
  <2>7. MailTellsTruth'
    BY <1>6, <2>1, <2>5, <2>6 DEF MailTellsTruth
  <2> QED
    BY <1>6, <2>7 DEF Calm
<1>7. \A mail, calm : ThenMail(mail, M, calm) =>
         \/ handler' = NoHandler
         \/ mail # "none" /\ handler' = [pc |-> "mail", text |-> mail, meters |-> M, tenants |-> {}, calm |-> calm]
  BY DEF ThenMail
<1>8. CASE handler.calm = FALSE
  BY <1>3, <1>4, <1>5, <1>7, <1>8
<1>9. CASE handler.calm = TRUE
  BY <1>3, <1>4, <1>5, <1>6, <1>7, <1>9
<1> QED
  BY <1>1, <1>8, <1>9

\* The mail of an end: whose rows took part are the assigned ones, one for a
\* metering point of a community, and the step ended them.
LEMMA EndTellsTruth ==
  ASSUME EdaInv, NEW m \in Meters, NEW T \in SUBSET Tenants,
         handler' = [pc |-> "mail", text |-> "inactive", meters |-> {m}, tenants |-> T, calm |-> TRUE],
         \A t \in T : \E k \in Of(t, {m}) : TakesPart(row[k]) /\ row'[k].status = "INACTIVE",
         \A k \in Keys : (k \in Stored)' => k \in Stored /\ row'[k].flag = row[k].flag
  PROVE  Calm'
<1>1. ASSUME NEW t \in T, NEW l \in Assigned(t, {m})'
      PROVE  row'[l].status = "INACTIVE"
  <2>1. PICK k \in Of(t, {m}) : TakesPart(row[k]) /\ row'[k].status = "INACTIVE"
    OBVIOUS
  <2>2. l \in Keys /\ l \in Stored /\ l[1] = m /\ Tenant(l) = t /\ row[l].flag = F_ASSIGNED
    BY DEF Assigned, Of, Stored, Tenant
  <2>3. k \in Keys /\ k \in Stored /\ k[1] = m /\ Tenant(k) = t
    BY DEF Of, Stored
  <2>4. row[k].flag = F_ASSIGNED
    BY <2>1, <2>3, StoredRow DEF EdaInv, CoreInv, Core, Agrees, LeftBehind, TakesPart, Row
  <2>5. k = l
    BY <2>2, <2>3, <2>4 DEF EdaInv, CoreInv, Core, OneAssigned, Rivals
  <2> QED
    BY <2>1, <2>5
<1>2. Told' = UNION {Assigned(t, {m})' : t \in T}
  <2>1. handler'.meters = {m} /\ handler'.text = "inactive" /\ handler'.tenants = T
    OBVIOUS
  <2> QED
    BY <2>1 DEF Told, MailTenants
<1>3. MailTellsTruth'
  BY <1>1, <1>2 DEF MailTellsTruth
<1> QED
  BY <1>3 DEF Calm

\* A revocation ends what takes part; an answer ends what it is about.
LEMMA RevocationEnds ==
  ASSUME EdaInv, NEW rc, NEW c, NEW m \in Meters, NEW d, RevokeByConsentId(rc, c, m, d),
         ThenInactiveMail(m, InactiveMailFor(RevocationHits(rc, c, m)))
  PROVE  Calm'
<1>1. TypeOK
  BY DEF EdaInv, CoreInv, Core
<1> DEFINE T == InactiveMailFor(RevocationHits(rc, c, m))
<1>2. ASSUME NEW k \in RevocationHits(rc, c, m)
      PROVE  k \in Stored /\ k[1] = m /\ k \in Of(Tenant(k), {m})
  BY DEF RevocationHits, Of
<1>3. T \in SUBSET Tenants
  BY <1>2, MailCommunities
<1>4. ASSUME NEW k \in Stored, row[k] \in Row
      PROVE  /\ ConsentRevokedRow(row[k], d).flag = row[k].flag
             /\ TakesPart(row[k]) => ConsentRevokedRow(row[k], d).status = "INACTIVE"
  BY <1>4 DEF ConsentRevokedRow, TakesPart, Row
<1>5. ASSUME NEW t \in T
      PROVE  \E k \in Of(t, {m}) : TakesPart(row[k]) /\ row'[k].status = "INACTIVE"
  <2>1. PICK k \in RevocationHits(rc, c, m) : TakesPart(row[k]) /\ t = Tenant(k)
    BY DEF InactiveMailFor
  <2>2. k \in Keys /\ row[k] \in Row /\ k \in Stored
    BY <1>1, <1>2, StoredRow
  <2>3. row'[k] = ConsentRevokedRow(row[k], d)
    BY <2>2 DEF RevokeByConsentId
  <2> QED
    BY <1>2, <1>4, <2>1, <2>2, <2>3
<1>6. ASSUME NEW k \in Keys, (k \in Stored)'
      PROVE  k \in Stored /\ row'[k].flag = row[k].flag
  <2>1. CASE k \in RevocationHits(rc, c, m)
    <3>1. k \in Stored /\ row[k] \in Row
      BY <1>1, <1>2, <2>1, StoredRow
    <3>2. row'[k] = ConsentRevokedRow(row[k], d)
      BY <2>1 DEF RevokeByConsentId
    <3> QED
      BY <1>4, <3>1, <3>2
  <2>2. CASE k \notin RevocationHits(rc, c, m)
    <3>1. row'[k] = row[k]
      BY <2>2 DEF RevokeByConsentId
    <3> QED
      BY <1>6, <3>1 DEF Stored
  <2> QED
    BY <2>1, <2>2
<1> HIDE DEF T
<1>7. CASE handler' = NoHandler
  BY <1>7, IdleTyped DEF Calm, MailTellsTruth
<1>8. CASE handler' = [pc |-> "mail", text |-> "inactive", meters |-> {m}, tenants |-> T, calm |-> TRUE]
  BY <1>3, <1>5, <1>6, <1>8, EndTellsTruth
<1> QED
  BY <1>7, <1>8 DEF ThenInactiveMail, T

LEMMA AnswerEnds ==
  ASSUME EdaInv, NEW t \in Tenants, NEW m \in Meters, NEW d, RevokeActive(t, m, d),
         ThenInactiveMail(m, AnswerMails(t, m, d))
  PROVE  Calm'
<1>1. TypeOK
  BY DEF EdaInv, CoreInv, Core
<1> DEFINE K == {k \in Assigned(t, {m}) : row[k].since <= d}
           T == InactiveMailFor(K)
<1>2. ASSUME NEW k \in K
      PROVE  k \in Stored /\ k \in Of(t, {m}) /\ Tenant(k) = t /\ k \in Keys /\ row[k] \in Row
  <2>1. k \in Stored /\ k \in Of(t, {m}) /\ Tenant(k) = t
    BY DEF Assigned, Of
  <2> QED
    BY <1>1, <2>1, StoredRow
<1>3. T \in SUBSET Tenants
  BY <1>2, MailCommunities
<1>4. ASSUME NEW k \in Stored, row[k] \in Row
      PROVE  RevokedRow(row[k], d).flag = row[k].flag /\ RevokedRow(row[k], d).status = "INACTIVE"
  BY <1>4 DEF RevokedRow, Row
<1>5. ASSUME NEW u \in T
      PROVE  \E k \in Of(u, {m}) : TakesPart(row[k]) /\ row'[k].status = "INACTIVE"
  <2>1. PICK k \in K : TakesPart(row[k]) /\ u = Tenant(k)
    BY DEF InactiveMailFor
  <2>2. k \in Assigned(t, {m}) /\ row[k].since <= d
    BY DEF K
  <2>3. row'[k] = RevokedRow(row[k], d)
    BY <1>2, <2>1, <2>2 DEF RevokeActive
  <2> QED
    BY <1>2, <1>4, <2>1, <2>3
<1>6. ASSUME NEW k \in Keys, (k \in Stored)'
      PROVE  k \in Stored /\ row'[k].flag = row[k].flag
  <2>1. CASE row'[k] = row[k]
    BY <1>6, <2>1 DEF Stored
  <2>2. CASE k \in Assigned(t, {m}) /\ row'[k] = RevokedRow(row[k], d)
    <3>1. k \in Stored
      BY <2>2 DEF Assigned, Of
    <3> QED
      BY <1>1, <1>4, <2>2, <3>1, StoredRow
  <2> QED
    BY <2>1, <2>2 DEF RevokeActive
<1>7. T = AnswerMails(t, m, d)
  BY DEF AnswerMails
<1> HIDE DEF T, K
<1>8. CASE handler' = NoHandler
  BY <1>8, IdleTyped DEF Calm, MailTellsTruth
<1>9. CASE handler' = [pc |-> "mail", text |-> "inactive", meters |-> {m}, tenants |-> T, calm |-> TRUE]
  BY <1>3, <1>5, <1>6, <1>9, EndTellsTruth
<1> QED
  BY <1>7, <1>8, <1>9 DEF ThenInactiveMail

LEMMA CalmStep == EdaInv /\ Calm /\ [EdaNext]_edaVars => Calm'
<1> SUFFICES ASSUME EdaInv, Calm, [EdaNext]_edaVars PROVE Calm'
  OBVIOUS
<1>1. ASSUME handler'.pc \notin {"registration", "mail"}
      PROVE  Calm'
  BY <1>1 DEF Calm, MailTellsTruth
<1>2. CASE ReceiveRegistration
  <2>1. PICK M \in (SUBSET Meters) \ {{}} :
           /\ UNCHANGED row
           /\ handler' = [pc |-> "registration", meters |-> M, to |-> GetEegByEcIdAndMeters(M), calm |-> TRUE]
    BY <1>2 DEF ReceiveRegistration, Receive
  <2>2. GetEegByEcIdAndMeters(M)' = GetEegByEcIdAndMeters(M)
    BY <2>1, SameCommunity
  <2>3. handler'.pc = "registration" /\ handler'.meters = M /\ handler'.to = GetEegByEcIdAndMeters(M)
    BY <2>1
  <2> DEFINE community == GetEegByEcIdAndMeters(handler.meters)
  <2>4. community' = GetEegByEcIdAndMeters(M)'
    BY <2>3 DEF GetEegByEcIdAndMeters, Claim, Assigned, Of, ByName, BaseEeg
  <2> QED
    BY <2>2, <2>3, <2>4 DEF Calm, MailTellsTruth
<1>3. CASE ProtocolEcReqOnlHandler
  BY <1>3, RegistrationTellsTruth
<1>4. CASE RevokeAfterAnswer
  <2>1. handler.pc = "answer"
    BY <1>4 DEF RevokeAfterAnswer
  <2>2. handler.of \in Conversations /\ handler.to \in Tenants /\ asked[handler.of] # {}
    BY <2>1, HandlerFields DEF EdaInv, EdaTypeOK, Conversation
  <2>3. PICK t \in Tenants, m \in Meters : t = handler.to /\ m = Request(handler.of).meter
    BY <2>2, RequestTyped DEF EdaInv
  <2>4. \/ \E today \in Dates :
              /\ RevokeActive(t, m, RevokeInactiveSince(handler.of, t, handler.end, today))
              /\ ThenInactiveMail(m, AnswerMails(t, m, RevokeInactiveSince(handler.of, t, handler.end, today)))
        \/ handler' = NoHandler
    BY <1>4, <2>3 DEF RevokeAfterAnswer, Request
  <2>5. ASSUME NEW today \in Dates,
               RevokeActive(t, m, RevokeInactiveSince(handler.of, t, handler.end, today)),
               ThenInactiveMail(m, AnswerMails(t, m, RevokeInactiveSince(handler.of, t, handler.end, today)))
        PROVE  Calm'
    <3>1. PICK d : d = RevokeInactiveSince(handler.of, t, handler.end, today)
      OBVIOUS
    <3>2. RevokeActive(t, m, d) /\ ThenInactiveMail(m, AnswerMails(t, m, d))
      BY <2>5, <3>1
    <3> QED
      BY <3>2, AnswerEnds
  <2>6. CASE handler' = NoHandler
    BY <1>1, <2>6, IdleTyped
  <2> QED
    BY <2>4, <2>5, <2>6
<1>5. CASE HandleRevocation
  <2>1. PICK rc \in Receivers, c \in ConsentIds \cup {NoConsent}, m \in Meters, d \in Dates :
           /\ RevokeByConsentId(rc, c, m, d)
           /\ ThenInactiveMail(m, InactiveMailFor(RevocationHits(rc, c, m)))
    BY <1>5, Zenon DEF HandleRevocation
  <2> QED
    BY <2>1, RevocationEnds
<1>6. CASE UNCHANGED <<row, handler>>
  <2> DEFINE community == GetEegByEcIdAndMeters(handler.meters)
  <2>1. handler' = handler /\ row' = row
    BY <1>6
  <2>2. community' = community
    BY <2>1 DEF GetEegByEcIdAndMeters, Claim, Assigned, Of, Stored, ByName, BaseEeg
  <2>3. \A t : Assigned(t, handler.meters)' = Assigned(t, handler.meters)
    BY <2>1 DEF Assigned, Of, Stored
  <2>4. MailTenants = (IF handler.text = "inactive" THEN handler.tenants ELSE {community}) /\ MailTenants' = MailTenants
    BY <2>1, <2>2 DEF MailTenants
  <2> HIDE DEF community
  <2>5. Told' = Told
    BY <2>3, <2>4 DEF Told
  <2>6. MailTellsTruth'
    BY <2>1, <2>5 DEF Calm, MailTellsTruth
  <2>7. handler.pc = "registration" /\ handler.calm => handler.to = community
    BY DEF Calm, community
  <2> QED
    BY <2>1, <2>2, <2>6, <2>7 DEF Calm, community
<1>7. CASE Administer
  <2>1. handler' = Disturbed /\ handler \in Handler
    BY <1>7 DEF Administer, EdaInv, EdaTypeOK
  <2>2. CASE handler.pc \in {"registration", "mail"}
    <3>1. handler \in [pc : {"registration"}, meters : SUBSET Meters, to : Tenants, calm : BOOLEAN]
                 \cup [pc : {"mail"}, text : Texts, meters : SUBSET Meters, tenants : SUBSET Tenants, calm : BOOLEAN]
      BY <2>1, <2>2 DEF Handler, NoHandler
    <3>2. handler'.calm = FALSE
      BY <2>1, <2>2, <3>1 DEF Disturbed
    <3> QED
      BY <3>2 DEF Calm, MailTellsTruth
  <2>3. CASE handler.pc \notin {"registration", "mail"}
    BY <1>1, <2>1, <2>3 DEF Disturbed
  <2> QED
    BY <2>2, <2>3
<1>8. CASE HandleEcho \/ QueueMail \/ Kill
  BY <1>1, <1>8, IdleTyped DEF HandleEcho, QueueMail, Kill
<1>9. CASE ReceiveDeregistration
  <2>1. handler'.pc \in {"echo", "answer"}
    BY <1>9 DEF ReceiveDeregistration
  <2> QED
    BY <1>1, <2>1
<1>10. CASE ReceiveList
  <2>1. \E M, c, list : handler' = [pc |-> "list", todo |-> Tenants, list |-> list, consent |-> c]
    BY <1>10, Zenon DEF ReceiveList
  <2> QED
    BY <1>1, <2>1
<1>11. CASE SyncMeteringPoints
  <2>1. handler.pc = "list" /\ (handler' = NoHandler \/ \E T : handler' = [handler EXCEPT !.todo = T])
    BY <1>11, Zenon DEF SyncMeteringPoints
  <2>2. handler'.pc \in {"idle", "list"}
    <3>1. handler \in Handler
      BY DEF EdaInv, EdaTypeOK
    <3>2. handler \in [pc : {"list"}, todo : SUBSET Tenants, list : UNION {[M -> Dates] : M \in SUBSET Meters},
                       consent : ConsentIds \cup {NoConsent}]
      BY <2>1, <3>1 DEF Handler, NoHandler
    <3> QED
      BY <2>1, <3>2, IdleTyped
  <2> QED
    BY <1>1, <2>2
<1>12. CASE RequestRevoke \/ UNCHANGED edaVars
  BY <1>6, <1>12 DEF RequestRevoke, edaVars
<1> QED
  BY <1>2, <1>3, <1>4, <1>5, <1>7, <1>8, <1>9, <1>10, <1>11, <1>12 DEF EdaNext

\* Whoever is found for a mail has the state the mail tells, although community
\* and member are looked for again, unless a statement failed or the
\* administration acted in between.
THEOREM MailsAreTrue == EdaSpec => []MailTellsTruth
<1>1. EdaInit => Calm
  BY IdleTyped DEF EdaInit, Calm, MailTellsTruth
<1>2. EdaInv /\ Calm /\ [EdaNext]_edaVars => Calm'
  BY CalmStep
<1>3. Calm => MailTellsTruth
  BY DEF Calm
<1> QED
  BY <1>1, <1>2, <1>3, EdaInvariance, PTL DEF EdaSpec
=============================================================================
