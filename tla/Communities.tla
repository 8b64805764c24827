----------------------------- MODULE Communities -----------------------------
(***************************************************************************)
(* The communities (base.eeg): their registration, the updates of their    *)
(* fields, and the lists of metering points they ask the grid operator     *)
(* for.                                                                    *)
(*                                                                         *)
(* Several communities may share a community id and an RC number (a GEA).  *)
(* A list names the community id only, so that the backend remembers who   *)
(* asked: in memory, and only after the request has gone out.  Texts are   *)
(* names and RC numbers in a spelling; Upper folds them.                   *)
(*                                                                         *)
(* Left out: fields that only describe, the Nahebereich, the metering      *)
(* points of a list (see EdaProcess), online, and the grid operator asked. *)
(***************************************************************************)
EXTENDS Naturals, FiniteSets

CONSTANTS Texts, Upper, Alphabet, \* spellings, folded, and their order
          EcIds,          \* community ids
          Applications,   \* what a registration may ask for: [tenant, rc, area, ec]
          Registrars,     \* registrations at a time
          Askers,         \* requests for a list at a time
          MaxAsks,        \* bound: lists a community asks for
          MaxLists        \* bound: lists that a community receives

ASSUME UpperAssumption == Upper \in [Texts -> Texts]
ASSUME ApplicationAssumption ==
  \A a \in Applications : a.tenant \in Texts /\ a.rc \in Texts /\ a.ec \in EcIds
ASSUME AskersAssumption == IsFiniteSet(Askers)

VARIABLES eeg,            \* eeg[t]: the community named t
          registrar,      \* registrar[r]: the application that was checked, and what was stored then
          overlapped,     \* history: communities whose registrations overlapped
          asker,          \* asker[c]: who sent a request that is not remembered yet, as a set
          requester,      \* requester[ec]: who is remembered, as a set
          list,           \* the list being handled, as a set
          asked, got      \* history: lists a community asked for, and got beside the base

communityVars == <<eeg, registrar, overlapped, asker, requester, list, asked, got>>

TwoKinds == {"LOCAL", "REGIONAL"}

CommunitiesInit ==
  /\ eeg = << >> /\ registrar = [r \in Registrars |-> {}] /\ overlapped = {}
  /\ asker = [c \in Askers |-> {}] /\ requester = [ec \in EcIds |-> {}] /\ list = {}
  /\ asked = [t \in Texts |-> 0] /\ got = [t \in Texts |-> 0]

-----------------------------------------------------------------------------
(* Registration: the database is asked whether the community exists, then  *)
(* it is inserted; only the exact name is a key.                           *)

\* (slip: names and RC numbers are compared as they are spelled)
EegExistsAsSpelled(a) ==
  \E t \in DOMAIN eeg : t = a.tenant \/ (a.area # "GEA" /\ eeg[t].rc = a.rc)

EegExists(a) ==
  \E t \in DOMAIN eeg : \/ Upper[t] = Upper[a.tenant]
                        \/ a.area # "GEA" /\ Upper[eeg[t].rc] = Upper[a.rc]

CheckEeg(r) ==
  \E a \in Applications :
     /\ registrar[r] = {} /\ ~EegExists(a)
     /\ registrar' = [registrar EXCEPT ![r] = {[for |-> a, seen |-> DOMAIN eeg]}]
     /\ UNCHANGED <<eeg, overlapped, asker, requester, list, asked, got>>

\* ON CONFLICT DO NOTHING: no row means that a parallel registration was faster.
InsertEeg(r) ==
  \E d \in registrar[r] :
     LET a == d.for IN
     /\ registrar' = [registrar EXCEPT ![r] = {}]
     /\ IF a.tenant \in DOMAIN eeg THEN UNCHANGED <<eeg, overlapped>>
        ELSE /\ eeg' = [t \in DOMAIN eeg \cup {a.tenant} |->
                          IF t = a.tenant THEN [rc |-> a.rc, area |-> a.area, ec |-> a.ec]
                          ELSE eeg[t]]
             /\ overlapped' = overlapped \cup {{t, a.tenant} : t \in DOMAIN eeg \ d.seen}
     /\ UNCHANGED <<asker, requester, list, asked, got>>

\* The web client sends the whole community back, from whatever it showed: the
\* protected fields are dropped, and nothing else is modelled here.
eegProtectedUpdateFields == {"rc", "area", "ec"}

UpdateEegPartial ==
  \E t \in DOMAIN eeg, sent \in Applications :
     /\ eeg' = [eeg EXCEPT ![t] = [x \in DOMAIN @ |-> IF x \in eegProtectedUpdateFields THEN @[x] ELSE sent[x]]]
     /\ UNCHANGED <<registrar, overlapped, asker, requester, list, asked, got>>

-----------------------------------------------------------------------------
(* The list of metering points. *)

TenantsByEcId(ec) == {t \in DOMAIN eeg : eeg[t].ec = ec}

EcIdBelongsToRc(ec, topic) ==
  \E t \in TenantsByEcId(ec) : Upper[topic] \in {Upper[t], Upper[eeg[t].rc]}

\* Named like its RC number, else the first by name.
GetBaseEegByEcId(ec) ==
  LET named == {t \in TenantsByEcId(ec) : Upper[t] = Upper[eeg[t].rc]}
      among == IF named # {} THEN named ELSE TenantsByEcId(ec)
  IN CHOOSE t \in among : \A u \in among : Alphabet[t] <= Alphabet[u]

\* The request goes out first ...
RequestingMeteringPointList(c) ==
  \E t \in DOMAIN eeg :
     /\ asker[c] = {} /\ asked[t] < MaxAsks
     /\ asker' = [asker EXCEPT ![c] = {t}]
     /\ asked' = [asked EXCEPT ![t] = @ + 1]
     /\ UNCHANGED <<eeg, registrar, overlapped, requester, list, got>>

\* ... and is remembered then; who asks later replaces who asked before.
RememberZpListRequester(c) ==
  \E t \in asker[c] :
     /\ requester' = [requester EXCEPT ![eeg[t].ec] = {t}]
     /\ asker' = [asker EXCEPT ![c] = {}]
     /\ UNCHANGED <<eeg, registrar, overlapped, list, asked, got>>

\* (slip: who asked is not forgotten)
TakeZpListRequesterKept(ec) == requester
TakeZpListRequester(ec) == [requester EXCEPT ![ec] = {}]

\* Whose list it is: the only community of the id, who asked, else the base.
ZpListEeg(ec) ==
  IF requester[ec] # {} /\ requester[ec] \subseteq TenantsByEcId(ec)
    THEN CHOOSE t \in requester[ec] : TRUE
    ELSE GetBaseEegByEcId(ec)

ReceiveZpList ==
  \E topic \in Texts, ec \in EcIds, area \in TwoKinds \cup {"other"} :
     /\ list = {} /\ EcIdBelongsToRc(ec, topic)
     /\ LET to == ZpListEeg(ec) IN
        /\ got[to] < MaxLists
        /\ list' = {[ec |-> ec, area |-> area, to |-> to]}
        /\ got' = IF to = GetBaseEegByEcId(ec) THEN got ELSE [got EXCEPT ![to] = @ + 1]
     /\ requester' = TakeZpListRequester(ec)
     /\ UNCHANGED <<eeg, registrar, overlapped, asker, asked>>

\* The list decides between LOCAL and REGIONAL, at every community of the id
\* that is one of the two.
TakesAreaOfList(l) ==
  IF l.area = "other" \/ eeg[l.to].area \notin TwoKinds THEN {}
  ELSE {t \in TenantsByEcId(l.ec) : eeg[t].area \in TwoKinds}

ZpListArea ==
  \E l \in list :
     /\ eeg' \in {eeg, [t \in DOMAIN eeg |-> IF t \in TakesAreaOfList(l) THEN [eeg[t] EXCEPT !.area = l.area]
                                              ELSE eeg[t]]}
     /\ list' = {}
     /\ UNCHANGED <<registrar, overlapped, asker, requester, asked, got>>

\* The request was refused: a later list is not for who asked.
RejectZpList ==
  \E topic \in Texts, ec \in EcIds :
     /\ list = {} /\ EcIdBelongsToRc(ec, topic)
     /\ requester' = TakeZpListRequester(ec)
     /\ UNCHANGED <<eeg, registrar, overlapped, asker, list, asked, got>>

\* The process stops or is killed: what is in memory is lost.
Restart ==
  /\ registrar' = [r \in Registrars |-> {}] /\ asker' = [c \in Askers |-> {}]
  /\ requester' = [ec \in EcIds |-> {}] /\ list' = {}
  /\ UNCHANGED <<eeg, overlapped, asked, got>>

CommunitiesNext ==
  \/ \E r \in Registrars : CheckEeg(r) \/ InsertEeg(r)
  \/ UpdateEegPartial
  \/ \E c \in Askers : RequestingMeteringPointList(c) \/ RememberZpListRequester(c)
  \/ ReceiveZpList \/ ZpListArea \/ RejectZpList \/ Restart

CommunitiesSpec == CommunitiesInit /\ [][CommunitiesNext]_communityVars

-----------------------------------------------------------------------------
\* No two communities are the same but for the spelling, and outside GEA an RC
\* number belongs to one ("a new tenant on it would reach that community's
\* login and Ponton account"), whatever is updated or switched later.  Only
\* registrations that overlapped can pass each other's check.
SameRc(t, u) == "GEA" \notin {eeg[t].area, eeg[u].area} /\ Upper[eeg[t].rc] = Upper[eeg[u].rc]

RcOfOneCommunity ==
  \A t, u \in DOMAIN eeg : t # u /\ (Upper[t] = Upper[u] \/ SameRc(t, u)) => {t, u} \in overlapped

\* A list shows the members of all communities of its id: beside the base only
\* a community that asked gets it, and no more lists than it asked for, although
\* an answer may overtake the note of who asked, and lists may come twice or
\* unasked.
ListToAsker == \A t \in Texts : got[t] <= asked[t]
=============================================================================
