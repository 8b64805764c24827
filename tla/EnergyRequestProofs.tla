------------------------ MODULE EnergyRequestProofs ------------------------
(***************************************************************************)
(* Proofs about EnergyRequest and MessageList, for any number of clients,  *)
(* tenants, checkers, metering points, runs and answers: requests are not  *)
(* made twice, summaries are written once and tell the truth, which answer *)
(* belongs to which run does not depend on how far back rows are read, and *)
(* what the list of messages leaves out is counted by an entry of it.      *)
(***************************************************************************)
EXTENDS MessageList, FiniteSetTheorems, WellFoundedInduction, TLAPS

-----------------------------------------------------------------------------
(* Numbers of rows. *)

LEMMA HasFirst ==
  ASSUME NEW T \in SUBSET Nat, T # {}
  PROVE  Min(T) \in T /\ \A y \in T : Min(T) <= y
<1> DEFINE Below == {ss \in Nat \X Nat : ss[1] < ss[2]}
<1>1. IsWellFoundedOn(Below, Nat)
  BY NatLessThanWellFounded DEF OpToRel
<1>2. PICK x \in T : \A y \in T : ~(<<y, x>> \in Below)
  <2> HIDE DEF Below
  <2> QED
    BY <1>1, WFMin
<1>3. \A y \in T : ~(y < x)
  BY <1>2
<1>4. \A y \in T : x <= y
  BY <1>3
<1> QED
  BY <1>4 DEF Min

LEMMA HasLast ==
  ASSUME NEW T \in SUBSET Nat, T # {}, NEW n \in Nat, \A y \in T : y <= n
  PROVE  Max(T) \in T /\ \A y \in T : y <= Max(T)
<1> DEFINE U == {n - y : y \in T}
<1>1. U \in SUBSET Nat /\ U # {}
  <2>1. \A y \in T : n - y \in Nat
    OBVIOUS
  <2> QED
    BY <2>1
<1> HIDE DEF U
<1>2. Min(U) \in U /\ \A u \in U : Min(U) <= u
  BY <1>1, HasFirst
<1>3. PICK x \in T : Min(U) = n - x
  BY <1>2 DEF U
<1>4. \A y \in T : n - y \in U
  BY DEF U
<1>5. \A y \in T : y <= x
  BY <1>2, <1>3, <1>4
<1> QED
  BY <1>5 DEF Max

-----------------------------------------------------------------------------
(* Owners of answers. *)

\* The answers for the same metering point that come before.
Before(view, k) == {j \in Answers(view) : j < k /\ rows[j].meter = rows[k].meter}

OwnedBy(own, view, answers) ==
  own = [k \in answers |-> Takes(Takers(view, k), {own[j] : j \in Before(view, k)})]

\* The owners of the first answers.
UpTo(view, n) == {k \in Answers(view) : k <= n}

LEMMA OwnersExist ==
  ASSUME NEW view \in SUBSET (Nat \ {0}), NEW n \in Nat
  PROVE  \E own : OwnedBy(own, view, UpTo(view, n))
<1> DEFINE T == {x \in Nat : ~ \E own : OwnedBy(own, view, UpTo(view, x))}
<1>1. SUFFICES ASSUME T # {} PROVE FALSE
  OBVIOUS
<1>2. T \in SUBSET Nat
  OBVIOUS
<1> HIDE DEF T
<1>3. Min(T) \in T /\ \A y \in T : Min(T) <= y
  BY <1>1, <1>2, HasFirst
<1> DEFINE x == Min(T)
<1>4. x \in Nat /\ ~ \E own : OwnedBy(own, view, UpTo(view, x))
  BY <1>3 DEF T
<1>5. \A y \in Nat : y < x => \E own : OwnedBy(own, view, UpTo(view, y))
  BY <1>3, <1>4 DEF T
<1> HIDE DEF x
<1>6. x # 0
  <2> SUFFICES ASSUME x = 0 PROVE \E own : OwnedBy(own, view, UpTo(view, x))
    BY <1>4
  <2>1. UpTo(view, x) = {}
    <3>1. \A k \in view : ~(k <= x)
      OBVIOUS
    <3> QED
      BY <3>1 DEF UpTo, Answers
  <2> DEFINE own == [k \in UpTo(view, x) |-> 0]
  <2>2. OwnedBy(own, view, UpTo(view, x))
    BY <2>1 DEF OwnedBy
  <2> QED
    BY <2>2
<1>7. PICK f : OwnedBy(f, view, UpTo(view, x - 1))
  <2>1. x - 1 \in Nat /\ x - 1 < x
    BY <1>4, <1>6
  <2> QED
    BY <1>5, <2>1
<1> DEFINE g == [k \in UpTo(view, x) |-> Takes(Takers(view, k), {f[j] : j \in Before(view, k)})]
<1>8. ASSUME NEW k \in UpTo(view, x), NEW j \in Before(view, k)
      PROVE  g[j] = f[j]
  <2>1. j \in UpTo(view, x - 1) /\ j \in UpTo(view, x)
    BY <1>4, <1>6 DEF UpTo, Before, Answers
  <2>2. g[j] = Takes(Takers(view, j), {f[l] : l \in Before(view, j)})
    BY <2>1
  <2>3. f[j] = Takes(Takers(view, j), {f[l] : l \in Before(view, j)})
    BY <1>7, <2>1 DEF OwnedBy
  <2> QED
    BY <2>2, <2>3
<1>9. \A k \in UpTo(view, x) : {g[j] : j \in Before(view, k)} = {f[j] : j \in Before(view, k)}
  <2> HIDE DEF g
  <2> QED
    BY <1>8
<1>10. g = [k \in UpTo(view, x) |-> Takes(Takers(view, k), {g[j] : j \in Before(view, k)})]
  BY <1>9
<1> HIDE DEF g
<1>11. OwnedBy(g, view, UpTo(view, x))
  BY <1>10 DEF OwnedBy
<1> QED
  BY <1>4, <1>11

\* The owner of an answer is computed from those of the answers before it.
LEMMA OwnersAre ==
  ASSUME NEW view \in SUBSET DOMAIN rows, NEW n \in Nat, DOMAIN rows = 1 .. n
  PROVE  OwnedBy(Owners(view), view, Answers(view))
<1>1. Answers(view) = UpTo(view, n)
  BY DEF UpTo, Answers
<1>2. \E own : OwnedBy(own, view, Answers(view))
  BY <1>1, OwnersExist
<1>3. Owners(view) = CHOOSE own : own = [k \in Answers(view) |->
          Takes(Takers(view, k), {own[j] : j \in {j \in Answers(view) : j < k /\ rows[j].meter = rows[k].meter}})]
  BY DEF Owners
<1>4. Owners(view) = CHOOSE own : OwnedBy(own, view, Answers(view))
  BY <1>3 DEF OwnedBy, Before
<1> QED
  BY <1>2, <1>4
-----------------------------------------------------------------------------
(* Types, and how the rows change. *)

Outcomes == {"accepted", "rejected", "noAnswer", "superseded"}
RunRows == [kind : {"run"}, at : Nat, tenant : {TenantOf[c] : c \in Clients},
            periods : Requests \ {<<>>}, summary : BOOLEAN]
AnswerRows == [kind : {"answer"}, at : Nat, meter : Meters, accepted : BOOLEAN]
SummaryRows == [kind : {"summary"}, at : Nat, run : Nat, result : Results]
DeletedRows == [kind : {"deleted"}, at : Nat]
Rows == RunRows \cup AnswerRows \cup SummaryRows \cup DeletedRows

LEMMA RowTypes ==
  ASSUME NEW r \in Rows
  PROVE  /\ r.at \in Nat
         /\ r.kind = "run" => r \in RunRows
         /\ r.kind = "answer" => r \in AnswerRows
         /\ r.kind = "summary" => r \in SummaryRows
BY DEF Rows, RunRows, AnswerRows, SummaryRows, DeletedRows

ClientsTyped ==
  client \in [Clients -> [pc : {"idle", "saving", "sending"}, periods : Requests, row : Nat, failed : SUBSET Meters]]

LEMMA TypeParts ==
  EnergyTypeOK <=> /\ rows \in Seq(Rows) /\ clock \in 0 .. MaxClock /\ ClientsTyped
                   /\ sent \subseteq (DOMAIN rows) \X Meters
                   /\ checker \in [Checkers -> SUBSET [run : Nat, result : Results]]
BY DEF EnergyTypeOK, ClientsTyped, Rows, RunRows, AnswerRows, SummaryRows, DeletedRows

LEMMA RowsAre ==
  ASSUME EnergyTypeOK
  PROVE  /\ Len(rows) \in Nat /\ DOMAIN rows = 1 .. Len(rows)
         /\ \A i \in DOMAIN rows : rows[i] \in Rows
BY TypeParts

\* A request, and the part of it that is free, sent or kept.
LEMMA PartOfRequest ==
  ASSUME NEW f \in Requests
  PROVE  /\ DOMAIN f \subseteq Meters /\ \A m \in DOMAIN f : f[m] \in Periods
         /\ \A M \in SUBSET DOMAIN f : [m \in M |-> f[m]] \in Requests
         /\ f # <<>> <=> DOMAIN f # {}
<1>1. PICK N \in SUBSET Meters : f \in [N -> Periods]
  BY DEF Requests
<1>2. ASSUME NEW M \in SUBSET DOMAIN f
      PROVE  [m \in M |-> f[m]] \in Requests
  <2>1. [m \in M |-> f[m]] \in [M -> Periods] /\ M \in SUBSET Meters
    BY <1>1
  <2> QED
    BY <2>1 DEF Requests
<1>3. f # <<>> <=> DOMAIN f # {}
  <2>1. DOMAIN <<>> = {}
    OBVIOUS
  <2>2. ASSUME DOMAIN f = {} PROVE f = <<>>
    BY <1>1, <2>1, <2>2
  <2> QED
    BY <2>1, <2>2
<1> QED
  BY <1>1, <1>2, <1>3

\* Whoever sends owns the row of a run; whoever saves has something to save.
ClientRows ==
  /\ \A c \in Clients : client[c].pc = "saving" => DOMAIN client[c].periods # {}
  /\ \A c \in Clients : client[c].pc = "sending" =>
        client[c].row \in Runs(DOMAIN rows) /\ rows[client[c].row].periods = client[c].periods
  /\ \A c, d \in Clients : client[c].pc = "sending" /\ client[d].pc = "sending" /\ client[c].row = client[d].row => c = d

TimesInOrder ==
  /\ \A i \in DOMAIN rows : rows[i].at <= clock
  /\ \A i, j \in DOMAIN rows : i <= j => rows[i].at <= rows[j].at

EnergyBase == EnergyTypeOK /\ ClientRows /\ TimesInOrder

\* What a step may do to a row: nothing, or take metering points out of a run.
Reduced(old, new) ==
  /\ new.at = old.at
  /\ old.kind # "run" => new = old
  /\ old.kind = "run" /\ new.kind # "deleted" =>
       /\ new.kind = "run" /\ new.tenant = old.tenant /\ new.summary = old.summary
       /\ DOMAIN new.periods \subseteq DOMAIN old.periods
       /\ \A m \in DOMAIN new.periods : new.periods[m] = old.periods[m]

\* Rows are appended one at a time, with the time of the step.
RowsFollow ==
  /\ DOMAIN rows \subseteq DOMAIN rows'
  /\ \A i \in DOMAIN rows : Reduced(rows[i], rows'[i])
  /\ \A i \in DOMAIN rows' \ DOMAIN rows : i = Len(rows) + 1 /\ rows'[i].at = clock

LEMMA AppendFollows ==
  ASSUME EnergyTypeOK, NEW r \in Rows, rows' = Append(rows, r)
  PROVE  /\ rows' \in Seq(Rows) /\ Len(rows') = Len(rows) + 1 /\ DOMAIN rows' = 1 .. Len(rows) + 1
         /\ \A i \in DOMAIN rows : rows'[i] = rows[i]
         /\ rows'[Len(rows) + 1] = r
         /\ r.at = clock => RowsFollow
<1>1. rows \in Seq(Rows) /\ Len(rows) \in Nat /\ DOMAIN rows = 1 .. Len(rows)
  BY TypeParts
<1>2. /\ rows' \in Seq(Rows) /\ Len(rows') = Len(rows) + 1 /\ DOMAIN rows' = 1 .. Len(rows) + 1
      /\ \A i \in DOMAIN rows : rows'[i] = rows[i]
      /\ rows'[Len(rows) + 1] = r
  BY <1>1
<1>3. \A i \in DOMAIN rows' \ DOMAIN rows : i = Len(rows) + 1
  BY <1>1, <1>2
<1>4. r.at = clock => RowsFollow
  BY <1>1, <1>2, <1>3 DEF RowsFollow, Reduced
<1> QED
  BY <1>2, <1>4

LEMMA SameFollows == UNCHANGED rows => RowsFollow
BY DEF RowsFollow, Reduced

\* Rows stay in the order of their times.
LEMMA TimesStay ==
  ASSUME EnergyTypeOK, TimesInOrder, RowsFollow, clock' \in Nat, clock <= clock',
         Len(rows') \in Nat, DOMAIN rows' = 1 .. Len(rows')
  PROVE  TimesInOrder'
<1>1. clock \in Nat /\ Len(rows) \in Nat /\ DOMAIN rows = 1 .. Len(rows) /\ \A i \in DOMAIN rows : rows[i].at \in Nat
  BY TypeParts, RowsAre, RowTypes, TimeAssumption
<1>2. \A i \in DOMAIN rows : rows'[i].at = rows[i].at
  BY DEF RowsFollow, Reduced
<1>3. \A i \in DOMAIN rows' : i \in DOMAIN rows \/ (i = Len(rows) + 1 /\ rows'[i].at = clock)
  BY DEF RowsFollow
<1>4. \A i \in DOMAIN rows' : rows'[i].at <= clock /\ rows'[i].at \in Nat
  BY <1>1, <1>2, <1>3 DEF TimesInOrder
<1>5. ASSUME NEW i \in DOMAIN rows', NEW j \in DOMAIN rows', i <= j
      PROVE  rows'[i].at <= rows'[j].at
  <2>1. CASE j \in DOMAIN rows
    <3>1. i \in DOMAIN rows
      BY <1>1, <1>5, <2>1
    <3> QED
      BY <1>2, <1>5, <2>1, <3>1 DEF TimesInOrder
  <2>2. CASE j \notin DOMAIN rows
    BY <1>3, <1>4, <2>2
  <2> QED
    BY <2>1, <2>2
<1> QED
  BY <1>1, <1>4, <1>5 DEF TimesInOrder

\* Rows that are appended neither are of a client nor take one from it.
LEMMA ClientRowsStay ==
  ASSUME EnergyBase, RowsFollow, UNCHANGED client,
         \A i \in DOMAIN rows : rows'[i] = rows[i]
  PROVE  ClientRows'
<1>1. Runs(DOMAIN rows) \subseteq Runs(DOMAIN rows)'
  BY DEF Runs, RowsFollow
<1>2. \A i \in Runs(DOMAIN rows) : rows'[i].periods = rows[i].periods
  BY DEF Runs
<1> QED
  BY <1>1, <1>2 DEF EnergyBase, ClientRows

LEMMA AskBase ==
  ASSUME EnergyBase, NEW c \in Clients, NEW wanted \in Requests, Ask(c, wanted)
  PROVE  EnergyBase' /\ RowsFollow
<1> DEFINE free == {m \in DOMAIN wanted : ~Locked(TenantOf[c], m, wanted[m])}
           asked == [m \in free |-> wanted[m]]
<1>1. /\ client[c].pc = "idle" /\ free # {}
      /\ client' = [client EXCEPT ![c].pc = "saving", ![c].periods = asked]
      /\ UNCHANGED <<rows, clock, sent, checker>>
  BY DEF Ask
<1>2. asked \in Requests /\ DOMAIN asked # {}
  BY <1>1, PartOfRequest
<1> HIDE DEF free, asked
<1>3. ClientsTyped
  BY TypeParts DEF EnergyBase
<1>4. /\ ClientsTyped'
      /\ client'[c].pc = "saving" /\ client'[c].periods = asked
      /\ \A d \in Clients : d # c => client'[d] = client[d]
  BY <1>1, <1>2, <1>3 DEF ClientsTyped
<1>5. EnergyTypeOK'
  BY <1>1, <1>4, TypeParts DEF EnergyBase, EnergyTypeOK, ClientsTyped
<1>6. ClientRows'
  <2>1. \A d \in Clients : client'[d].pc = "saving" => DOMAIN client'[d].periods # {}
    BY <1>2, <1>4 DEF EnergyBase, ClientRows
  <2>2. \A d \in Clients : client'[d].pc = "sending" => d # c /\ client'[d] = client[d]
    BY <1>4
  <2>3. Runs(DOMAIN rows)' = Runs(DOMAIN rows) /\ rows' = rows
    BY <1>1 DEF Runs
  <2> QED
    BY <2>1, <2>2, <2>3 DEF EnergyBase, ClientRows
<1>7. TimesInOrder' /\ RowsFollow
  BY <1>1, SameFollows DEF EnergyBase, TimesInOrder
<1> QED
  BY <1>5, <1>6, <1>7 DEF EnergyBase

LEMMA SaveBase ==
  ASSUME EnergyBase, NEW c \in Clients, Save(c)
  PROVE  EnergyBase' /\ RowsFollow
<1>1. PICK s \in BOOLEAN :
        rows' = Append(rows, [kind |-> "run", at |-> clock, tenant |-> TenantOf[c],
                              periods |-> client[c].periods, summary |-> s])
  BY DEF Save
<1>2. /\ client[c].pc = "saving"
      /\ client' = [client EXCEPT ![c].pc = "sending", ![c].row = Len(rows')]
      /\ UNCHANGED <<clock, sent, checker>>
  BY DEF Save
<1> DEFINE r == [kind |-> "run", at |-> clock, tenant |-> TenantOf[c],
                 periods |-> client[c].periods, summary |-> s]
<1>3. ClientsTyped /\ clock \in Nat
  BY TypeParts, TimeAssumption DEF EnergyBase
<1>4. r \in Rows
  <2>1. client[c].periods \in Requests \ {<<>>}
    BY <1>2, <1>3, PartOfRequest DEF EnergyBase, ClientRows, ClientsTyped
  <2> QED
    BY <1>3, <2>1 DEF Rows, RunRows
<1>5. r.at = clock /\ r.kind = "run" /\ r.periods = client[c].periods
  OBVIOUS
<1> HIDE DEF r
<1>6. /\ rows' \in Seq(Rows) /\ Len(rows') = Len(rows) + 1 /\ DOMAIN rows' = 1 .. Len(rows) + 1
      /\ \A i \in DOMAIN rows : rows'[i] = rows[i]
      /\ rows'[Len(rows) + 1] = r /\ RowsFollow
  BY <1>1, <1>4, <1>5, AppendFollows DEF EnergyBase, r
<1>7. Len(rows) \in Nat /\ DOMAIN rows = 1 .. Len(rows)
  BY RowsAre DEF EnergyBase
<1>8. /\ ClientsTyped'
      /\ client'[c].pc = "sending" /\ client'[c].row = Len(rows) + 1 /\ client'[c].periods = client[c].periods
      /\ \A d \in Clients : d # c => client'[d] = client[d]
  <2>1. Len(rows') \in Nat /\ Len(rows') = Len(rows) + 1
    BY <1>6, <1>7
  <2>2. ClientsTyped'
    BY <1>2, <1>3, <2>1 DEF ClientsTyped
  <2>3. client'[c] = [client[c] EXCEPT !.pc = "sending", !.row = Len(rows')]
    BY <1>2, <1>3 DEF ClientsTyped
  <2>4. \A d \in Clients : d # c => client'[d] = client[d]
    BY <1>2, <1>3 DEF ClientsTyped
  <2>5. client'[c].pc = "sending" /\ client'[c].row = Len(rows') /\ client'[c].periods = client[c].periods
    BY <1>3, <2>3 DEF ClientsTyped
  <2> QED
    BY <2>1, <2>2, <2>4, <2>5
<1>9. EnergyTypeOK'
  <2>1. sent' \subseteq (DOMAIN rows') \X Meters
    BY <1>2, <1>6, <1>7 DEF EnergyBase, EnergyTypeOK
  <2> QED
    BY <1>2, <1>6, <1>8, <2>1, TypeParts DEF EnergyBase, EnergyTypeOK, ClientsTyped, Rows, RunRows, AnswerRows, SummaryRows, DeletedRows
<1>10. ClientRows'
  <2>1. \A d \in Clients : client'[d].pc = "saving" => DOMAIN client'[d].periods # {}
    BY <1>8 DEF EnergyBase, ClientRows
  <2>2. \A d \in Clients : d # c /\ client'[d].pc = "sending" =>
          /\ client'[d].row \in DOMAIN rows /\ client'[d].row \in Runs(DOMAIN rows)'
          /\ rows'[client'[d].row].periods = client'[d].periods
    BY <1>6, <1>7, <1>8 DEF EnergyBase, ClientRows, Runs
  <2>3. client'[c].row \in Runs(DOMAIN rows)' /\ rows'[client'[c].row].periods = client'[c].periods
        /\ client'[c].row \notin DOMAIN rows
    BY <1>5, <1>6, <1>7, <1>8 DEF Runs
  <2>4. \A d, e \in Clients : d # c /\ e # c /\ client'[d].pc = "sending" /\ client'[e].pc = "sending"
                              /\ client'[d].row = client'[e].row => d = e
    BY <1>8 DEF EnergyBase, ClientRows
  <2> QED
    BY <2>1, <2>2, <2>3, <2>4 DEF ClientRows
<1>11. TimesInOrder'
  BY <1>2, <1>3, <1>6, <1>7, TimesStay DEF EnergyBase
<1> QED
  BY <1>6, <1>9, <1>10, <1>11 DEF EnergyBase

LEMMA SaveFailsBase ==
  ASSUME EnergyBase, NEW c \in Clients, SaveFails(c)
  PROVE  EnergyBase' /\ RowsFollow
<1>1. client' = [client EXCEPT ![c] = Nothing] /\ UNCHANGED <<rows, clock, sent, checker>>
  BY DEF SaveFails
<1>2. Nothing \in [pc : {"idle", "saving", "sending"}, periods : Requests, row : Nat, failed : SUBSET Meters]
  <2>1. <<>> \in [{} -> Periods] /\ {} \in SUBSET Meters
    OBVIOUS
  <2> QED
    BY <2>1 DEF Nothing, Requests
<1>3. ClientsTyped
  BY TypeParts DEF EnergyBase
<1>4. ClientsTyped' /\ client'[c].pc = "idle" /\ \A d \in Clients : d # c => client'[d] = client[d]
  BY <1>1, <1>2, <1>3 DEF ClientsTyped, Nothing
<1>5. EnergyTypeOK'
  BY <1>1, <1>4 DEF EnergyBase, EnergyTypeOK, ClientsTyped
<1>6. ClientRows'
  BY <1>1, <1>4 DEF EnergyBase, ClientRows, Runs
<1>7. TimesInOrder' /\ RowsFollow
  BY <1>1, SameFollows DEF EnergyBase, TimesInOrder
<1> QED
  BY <1>5, <1>6, <1>7 DEF EnergyBase

LEMMA SendBase ==
  ASSUME EnergyBase, NEW c \in Clients, NEW m \in Meters, Send(c, m)
  PROVE  EnergyBase' /\ RowsFollow
<1>1. /\ client[c].pc = "sending"
      /\ \/ sent' = sent \cup {<<client[c].row, m>>} /\ UNCHANGED client
         \/ client' = [client EXCEPT ![c].failed = @ \cup {m}] /\ UNCHANGED sent
      /\ UNCHANGED <<rows, clock, checker>>
  BY DEF Send
<1>2. ClientsTyped
  BY TypeParts DEF EnergyBase
<1>3. client[c].row \in DOMAIN rows
  BY <1>1 DEF EnergyBase, ClientRows, Runs
<1>4. /\ ClientsTyped'
      /\ \A d \in Clients : /\ client'[d].pc = client[d].pc
                            /\ client'[d].row = client[d].row
                            /\ client'[d].periods = client[d].periods
  BY <1>1, <1>2 DEF ClientsTyped
<1>5. sent' \subseteq (DOMAIN rows') \X Meters
  BY <1>1, <1>3 DEF EnergyBase, EnergyTypeOK
<1>6. EnergyTypeOK'
  BY <1>1, <1>4, <1>5 DEF EnergyBase, EnergyTypeOK, ClientsTyped
<1>7. ClientRows'
  BY <1>1, <1>4 DEF EnergyBase, ClientRows, Runs
<1>8. TimesInOrder' /\ RowsFollow
  BY <1>1, SameFollows DEF EnergyBase, TimesInOrder
<1> QED
  BY <1>6, <1>7, <1>8 DEF EnergyBase

\* A run that is reduced or deleted is that of the client, and of no other.
LEMMA RespondBase ==
  ASSUME EnergyBase, NEW c \in Clients, Respond(c)
  PROVE  EnergyBase' /\ RowsFollow
<1> DEFINE i == client[c].row
           f == client[c].periods
           kept == DOMAIN f \ client[c].failed
           reduced == IF kept = {} THEN [kind |-> "deleted", at |-> rows[i].at]
                      ELSE [rows[i] EXCEPT !.periods = [m \in kept |-> f[m]]]
<1>1. /\ client[c].pc = "sending"
      /\ client' = [client EXCEPT ![c] = Nothing]
      /\ UNCHANGED <<clock, sent, checker>>
  BY DEF Respond
<1>2. ClientsTyped /\ clock \in Nat /\ rows \in Seq(Rows)
  BY TypeParts, TimeAssumption DEF EnergyBase
<1>3. i \in DOMAIN rows /\ rows[i].kind = "run" /\ rows[i].periods = f
  BY <1>1 DEF EnergyBase, ClientRows, Runs
<1>4. rows[i] \in RunRows
  BY <1>3, RowsAre, RowTypes DEF EnergyBase
<1>5. rows' = [rows EXCEPT ![i] = reduced] \/ rows' = rows
  <2>1. KeepSent(c) => rows' = [rows EXCEPT ![i] = reduced]
    <3>1. CASE kept = {}
      BY <3>1 DEF KeepSent
    <3>2. CASE kept # {}
      BY <1>3, <3>2 DEF KeepSent
    <3> QED
      BY <3>1, <3>2
  <2> QED
    BY <2>1 DEF Respond
<1>6. f \in Requests
  BY <1>2 DEF ClientsTyped
<1>7. /\ reduced \in Rows /\ reduced.at = rows[i].at
      /\ kept = {} => reduced.kind = "deleted"
      /\ kept # {} => /\ reduced.kind = "run" /\ reduced.tenant = rows[i].tenant
                      /\ reduced.summary = rows[i].summary /\ reduced.periods = [m \in kept |-> f[m]]
  <2>1. CASE kept = {}
    BY <1>4, <2>1 DEF Rows, DeletedRows, RunRows
  <2>2. CASE kept # {}
    <3>1. [m \in kept |-> f[m]] \in Requests \ {<<>>}
      BY <1>6, <2>2, PartOfRequest
    <3> DEFINE g == [m \in kept |-> f[m]]
    <3> HIDE DEF g, kept
    <3>2. [rows[i] EXCEPT !.periods = g] \in RunRows
      BY <1>4, <3>1 DEF RunRows, g
    <3> QED
      BY <1>4, <2>2, <3>2 DEF Rows, RunRows, g
  <2> QED
    BY <2>1, <2>2
<1>8. Reduced(rows[i], reduced)
  <2>1. CASE kept = {}
    BY <1>3, <1>7, <2>1 DEF Reduced
  <2>2. CASE kept # {}
    <3>1. DOMAIN reduced.periods = kept /\ \A m \in kept : reduced.periods[m] = f[m]
      BY <1>7, <2>2
    <3> HIDE DEF reduced
    <3> QED
      BY <1>3, <1>7, <2>2, <3>1 DEF Reduced
  <2> QED
    BY <2>1, <2>2
<1> HIDE DEF reduced, kept
<1>9. /\ rows' \in Seq(Rows) /\ DOMAIN rows' = DOMAIN rows
      /\ \A j \in DOMAIN rows : j # i => rows'[j] = rows[j]
      /\ rows'[i] = reduced \/ rows'[i] = rows[i]
  BY <1>2, <1>3, <1>5, <1>7
<1>10. RowsFollow
  <2>1. \A j \in DOMAIN rows : Reduced(rows[j], rows[j])
    BY DEF Reduced
  <2> QED
    BY <1>8, <1>9, <2>1 DEF RowsFollow
<1>11. Nothing \in [pc : {"idle", "saving", "sending"}, periods : Requests, row : Nat, failed : SUBSET Meters]
  <2>1. <<>> \in [{} -> Periods] /\ {} \in SUBSET Meters
    OBVIOUS
  <2> QED
    BY <2>1 DEF Nothing, Requests
<1>12. ClientsTyped' /\ client'[c].pc = "idle" /\ \A d \in Clients : d # c => client'[d] = client[d]
  BY <1>1, <1>2, <1>11 DEF ClientsTyped, Nothing
<1>13. EnergyTypeOK'
  BY <1>1, <1>9, <1>12
     DEF EnergyBase, EnergyTypeOK, ClientsTyped, Rows, RunRows, AnswerRows, SummaryRows, DeletedRows
<1>14. ClientRows'
  <2>1. ASSUME NEW d \in Clients, d # c, client'[d].pc = "sending"
        PROVE  /\ client'[d].row \in Runs(DOMAIN rows)'
               /\ rows'[client'[d].row].periods = client'[d].periods
    <3>1. client[d].row # i /\ client[d].row \in Runs(DOMAIN rows) /\ rows[client[d].row].periods = client[d].periods
      BY <1>1, <1>12, <2>1 DEF EnergyBase, ClientRows
    <3> QED
      BY <1>9, <1>12, <2>1, <3>1 DEF Runs
  <2> QED
    BY <1>12, <2>1 DEF EnergyBase, ClientRows
<1>15. TimesInOrder'
  <2>1. Len(rows') \in Nat /\ DOMAIN rows' = 1 .. Len(rows')
    BY <1>9
  <2> QED
    BY <1>1, <1>2, <1>10, <2>1, TimesStay DEF EnergyBase
<1> QED
  BY <1>10, <1>13, <1>14, <1>15 DEF EnergyBase

\* Steps that append a row for no client.
LEMMA AppendBase ==
  ASSUME EnergyBase, NEW r \in Rows, r.at = clock, rows' = Append(rows, r),
         UNCHANGED <<clock, client, sent>>,
         checker' \in [Checkers -> SUBSET [run : Nat, result : Results]]
  PROVE  EnergyBase' /\ RowsFollow
<1>1. /\ rows' \in Seq(Rows) /\ Len(rows') = Len(rows) + 1 /\ DOMAIN rows' = 1 .. Len(rows) + 1
      /\ \A i \in DOMAIN rows : rows'[i] = rows[i]
      /\ RowsFollow
  BY AppendFollows DEF EnergyBase
<1>2. Len(rows) \in Nat /\ DOMAIN rows = 1 .. Len(rows) /\ clock \in Nat
  BY RowsAre, TypeParts, TimeAssumption DEF EnergyBase
<1>3. sent' \subseteq (DOMAIN rows') \X Meters
  BY <1>1, <1>2 DEF EnergyBase, EnergyTypeOK
<1>4. EnergyTypeOK'
  BY <1>1, <1>3 DEF EnergyBase, EnergyTypeOK, Rows, RunRows, AnswerRows, SummaryRows, DeletedRows
<1>5. ClientRows'
  BY <1>1, ClientRowsStay
<1>6. TimesInOrder'
  BY <1>1, <1>2, TimesStay DEF EnergyBase
<1> QED
  BY <1>1, <1>4, <1>5, <1>6 DEF EnergyBase

\* Steps that leave rows and clients.
LEMMA QuietBase ==
  ASSUME EnergyBase, UNCHANGED <<rows, client, sent>>, clock' \in clock .. MaxClock,
         checker' \in [Checkers -> SUBSET [run : Nat, result : Results]]
  PROVE  EnergyBase' /\ RowsFollow
<1>1. clock \in Nat /\ clock' \in 0 .. MaxClock /\ clock <= clock'
  BY TypeParts, TimeAssumption DEF EnergyBase
<1>2. RowsFollow
  BY SameFollows
<1>3. EnergyTypeOK'
  BY <1>1 DEF EnergyBase, EnergyTypeOK
<1>4. ClientRows'
  BY <1>2, ClientRowsStay
<1>5. TimesInOrder'
  <2>1. \A i \in DOMAIN rows : rows[i].at \in Nat
    BY RowsAre, RowTypes DEF EnergyBase
  <2> QED
    BY <1>1, <2>1 DEF EnergyBase, TimesInOrder
<1> QED
  BY <1>2, <1>3, <1>4, <1>5 DEF EnergyBase

LEMMA EvaluateTyped ==
  ASSUME EnergyTypeOK, NEW view, NEW i \in Runs(DOMAIN rows)
  PROVE  Evaluate(view, i) \in Results /\ DOMAIN Evaluate(view, i) = DOMAIN rows[i].periods
<1>1. rows[i] \in RunRows
  BY RowsAre, RowTypes DEF Runs
<1>2. DOMAIN rows[i].periods \in SUBSET Meters
  BY <1>1, PartOfRequest DEF RunRows
<1> DEFINE says(m) == IF Latest(Owners(view), i, m) = 0
                        THEN IF Superseding(view, i, m) # {} THEN "superseded" ELSE "noAnswer"
                        ELSE IF LastRejected(Owners(view), i, m) THEN "rejected" ELSE "accepted"
<1>3. \A m : says(m) \in {"accepted", "rejected", "noAnswer", "superseded"}
  OBVIOUS
<1>4. Evaluate(view, i) = [m \in DOMAIN rows[i].periods |-> says(m)]
  BY DEF Evaluate
<1> HIDE DEF says
<1>5. Evaluate(view, i) \in [DOMAIN rows[i].periods -> {"accepted", "rejected", "noAnswer", "superseded"}]
  BY <1>3, <1>4
<1> QED
  BY <1>2, <1>4, <1>5 DEF Results

\* The checker writes one of the summaries it has decided on.
Chosen(k) == CHOOSE s \in checker[k] : \A u \in checker[k] : s.run <= u.run

LEMMA ChosenIsOne ==
  ASSUME EnergyTypeOK, NEW k \in Checkers, checker[k] # {}
  PROVE  Chosen(k) \in checker[k]
<1> DEFINE T == {s.run : s \in checker[k]}
<1>1. T \in SUBSET Nat /\ T # {}
  BY DEF EnergyTypeOK
<1>2. Min(T) \in T /\ \A y \in T : Min(T) <= y
  BY <1>1, HasFirst
<1>3. \E s \in checker[k] : \A u \in checker[k] : s.run <= u.run
  BY <1>2
<1> QED
  BY <1>3 DEF Chosen

Summary(s) == [kind |-> "summary", at |-> clock, run |-> s.run, result |-> s.result]

LEMMA CloseWrites ==
  ASSUME EnergyTypeOK, NEW k \in Checkers, CloseEnergyRequest(k)
  PROVE  /\ checker[k] # {} /\ Chosen(k) \in checker[k]
         /\ Chosen(k).run \in Nat /\ Chosen(k).result \in Results
         /\ rows' = IF AlreadyClosed(Chosen(k).run) THEN rows ELSE Append(rows, Summary(Chosen(k)))
         /\ checker' = [checker EXCEPT ![k] = @ \ {Chosen(k)}]
         /\ UNCHANGED <<clock, client, sent>>
<1>1. checker[k] # {}
  BY DEF CloseEnergyRequest
<1>2. Chosen(k) \in checker[k]
  BY <1>1, ChosenIsOne
<1>3. Chosen(k).run \in Nat /\ Chosen(k).result \in Results
  BY <1>2 DEF EnergyTypeOK
<1> QED
  BY <1>1, <1>2, <1>3 DEF CloseEnergyRequest, Chosen, Summary

\* What a check decides on.
Decided(k) == {s \in {[run |-> i, result |-> Evaluate(View, i)] : i \in {i \in Runs(View) : Open(i)}} :
                 Done(s.run, s.result)}

LEMMA CheckDecides ==
  ASSUME EnergyTypeOK, NEW k \in Checkers, Check(k)
  PROVE  /\ checker' = [checker EXCEPT ![k] = Decided(k)]
         /\ Decided(k) \subseteq [run : Nat, result : Results]
         /\ UNCHANGED <<rows, clock, client, sent>>
<1>1. checker' = [checker EXCEPT ![k] = Decided(k)] /\ UNCHANGED <<rows, clock, client, sent>>
  BY DEF Check, Decided
<1>2. ASSUME NEW i \in Runs(View)
      PROVE  i \in Nat /\ Evaluate(View, i) \in Results
  <2>1. i \in Runs(DOMAIN rows)
    BY DEF Runs, View
  <2>2. i \in Nat
    BY <2>1, RowsAre DEF Runs
  <2> QED
    BY <2>1, <2>2, EvaluateTyped
<1>3. ASSUME NEW s \in Decided(k)
      PROVE  s \in [run : Nat, result : Results]
  <2>1. PICK i \in Runs(View) : s = [run |-> i, result |-> Evaluate(View, i)]
    BY DEF Decided
  <2> QED
    BY <1>2, <2>1
<1> QED
  BY <1>1, <1>3

\* The steps, by what they do to the rows.
LEMMA EnergyStepBase == EnergyBase /\ [EnergyNext]_energyVars => EnergyBase' /\ RowsFollow
<1> SUFFICES ASSUME EnergyBase, [EnergyNext]_energyVars PROVE EnergyBase' /\ RowsFollow
  OBVIOUS
<1>1. EnergyTypeOK /\ clock \in Nat /\ clock <= MaxClock
      /\ checker \in [Checkers -> SUBSET [run : Nat, result : Results]]
  BY TypeParts, TimeAssumption DEF EnergyBase
<1>2. ASSUME NEW i \in DOMAIN rows, NEW m \in Meters, Answer(i, m)
      PROVE  EnergyBase' /\ RowsFollow
  <2>1. PICK a \in BOOLEAN : rows' = Append(rows, [kind |-> "answer", at |-> clock, meter |-> m, accepted |-> a])
    BY <1>2 DEF Answer
  <2> DEFINE r == [kind |-> "answer", at |-> clock, meter |-> m, accepted |-> a]
  <2>2. r \in Rows /\ r.at = clock
    BY <1>1 DEF Rows, AnswerRows
  <2>3. UNCHANGED <<clock, client, sent, checker>>
    BY <1>2 DEF Answer
  <2> HIDE DEF r
  <2> QED
    BY <1>1, <2>1, <2>2, <2>3, AppendBase DEF r
<1>3. ASSUME NEW k \in Checkers, CloseEnergyRequest(k)
      PROVE  EnergyBase' /\ RowsFollow
  <2>1. /\ Chosen(k).run \in Nat /\ Chosen(k).result \in Results
        /\ rows' = IF AlreadyClosed(Chosen(k).run) THEN rows ELSE Append(rows, Summary(Chosen(k)))
        /\ checker' = [checker EXCEPT ![k] = @ \ {Chosen(k)}]
        /\ UNCHANGED <<clock, client, sent>>
    BY <1>1, <1>3, CloseWrites
  <2>2. Summary(Chosen(k)) \in Rows /\ Summary(Chosen(k)).at = clock
    BY <1>1, <2>1 DEF Rows, SummaryRows, Summary
  <2>3. checker' \in [Checkers -> SUBSET [run : Nat, result : Results]]
    BY <1>1, <2>1
  <2>4. CASE rows' = rows
    BY <1>1, <2>1, <2>3, <2>4, QuietBase
  <2>5. CASE rows' = Append(rows, Summary(Chosen(k)))
    BY <2>1, <2>2, <2>3, <2>5, AppendBase
  <2> QED
    BY <2>1, <2>4, <2>5
<1>4. ASSUME NEW k \in Checkers, Check(k)
      PROVE  EnergyBase' /\ RowsFollow
  <2>1. checker' = [checker EXCEPT ![k] = Decided(k)] /\ UNCHANGED <<rows, clock, client, sent>>
        /\ Decided(k) \subseteq [run : Nat, result : Results]
    BY <1>1, <1>4, CheckDecides
  <2>2. checker' \in [Checkers -> SUBSET [run : Nat, result : Results]]
    BY <1>1, <2>1
  <2> QED
    BY <1>1, <2>1, <2>2, QuietBase
<1>5. ASSUME NEW k \in Checkers, CheckFails(k)
      PROVE  EnergyBase' /\ RowsFollow
  <2>1. checker' = [checker EXCEPT ![k] = {}] /\ UNCHANGED <<rows, clock, client, sent>>
    BY <1>5 DEF CheckFails
  <2>2. checker' \in [Checkers -> SUBSET [run : Nat, result : Results]]
    BY <1>1, <2>1
  <2> QED
    BY <1>1, <2>1, <2>2, QuietBase
<1>6. CASE Tick
  BY <1>1, <1>6, TimeAssumption, QuietBase DEF Tick
<1>7. CASE UNCHANGED energyVars
  BY <1>1, <1>7, QuietBase DEF energyVars
<1> QED
  BY <1>2, <1>3, <1>4, <1>5, <1>6, <1>7, AskBase, SaveBase, SaveFailsBase, SendBase, RespondBase
     DEF EnergyNext, ClientStep

LEMMA EnergyBaseInitially == EnergyInit => EnergyBase
<1> SUFFICES ASSUME EnergyInit PROVE EnergyBase
  OBVIOUS
<1>1. Nothing \in [pc : {"idle", "saving", "sending"}, periods : Requests, row : Nat, failed : SUBSET Meters]
  <2>1. <<>> \in [{} -> Periods] /\ {} \in SUBSET Meters
    OBVIOUS
  <2> QED
    BY <2>1 DEF Nothing, Requests
<1>2. ClientsTyped /\ \A c \in Clients : client[c].pc = "idle"
  BY <1>1 DEF EnergyInit, ClientsTyped, Nothing
<1>3. rows \in Seq(Rows) /\ DOMAIN rows = {}
  BY DEF EnergyInit
<1>4. EnergyTypeOK
  BY <1>2, <1>3, TypeParts, TimeAssumption DEF EnergyInit
<1> QED
  BY <1>2, <1>3, <1>4 DEF EnergyBase, ClientRows, TimesInOrder

LEMMA EnergyBaseInvariance == EnergySpec => []EnergyBase
BY EnergyBaseInitially, EnergyStepBase, PTL DEF EnergySpec

\* Every reachable state is well typed; rows are in the order of their times.
THEOREM EnergyTyped == EnergySpec => []EnergyTypeOK
<1>1. EnergyBase => EnergyTypeOK
  BY DEF EnergyBase
<1> QED
  BY <1>1, EnergyBaseInvariance, PTL

-----------------------------------------------------------------------------
(* Summaries. *)

IsSummary(s) == s \in DOMAIN rows /\ rows[s].kind = "summary"

\* A run without an answer for m may be closed at its deadline only.
Due(run, result) ==
  \A m \in DOMAIN result : result[m] = "noAnswer" => rows[run].at + Deadline <= clock

SummariesLater == \A s \in DOMAIN rows : rows[s].kind = "summary" => rows[s].run \in DOMAIN rows /\ rows[s].run < s

CheckersDue == \A k \in Checkers : \A s \in checker[k] : s.run \in DOMAIN rows /\ Due(s.run, s.result)

SummaryInv == SummariesLater /\ CheckersDue /\ OneSummaryPerRun /\ NoAnswerMeansDeadline

\* A summary that a step adds: of a run that had none, and due.
SummaryAdded ==
  \A n \in DOMAIN rows' \ DOMAIN rows : rows'[n].kind = "summary" =>
     /\ rows'[n].run \in DOMAIN rows
     /\ \A s \in DOMAIN rows : rows[s].kind = "summary" => rows[s].run # rows'[n].run
     /\ Due(rows'[n].run, rows'[n].result)

\* Times stand still for rows, and only go on for the clock.
LEMMA DueStays ==
  ASSUME EnergyBase, EnergyBase', RowsFollow, clock <= clock',
         NEW run \in DOMAIN rows, NEW result, Due(run, result)
  PROVE  Due(run, result)'
<1>1. rows'[run].at = rows[run].at /\ rows[run].at \in Nat /\ clock \in Nat /\ clock' \in Nat /\ Deadline \in Nat
  BY RowsAre, RowTypes, TypeParts, TimeAssumption DEF EnergyBase, RowsFollow, Reduced, EnergyTypeOK
<1> QED
  BY <1>1 DEF Due

LEMMA ClockGoesOn == EnergyBase /\ [EnergyNext]_energyVars => clock <= clock'
<1> SUFFICES ASSUME EnergyBase, [EnergyNext]_energyVars PROVE clock <= clock'
  OBVIOUS
<1>1. clock \in Nat
  BY TypeParts, TimeAssumption DEF EnergyBase
<1>2. ASSUME NEW k \in Checkers, Check(k) \/ CloseEnergyRequest(k) \/ CheckFails(k)
      PROVE  clock' = clock
  BY <1>2 DEF Check, CloseEnergyRequest, CheckFails
<1>3. ASSUME NEW c \in Clients, ClientStep(c)
      PROVE  clock' = clock
  BY <1>3 DEF ClientStep, Save, SaveFails, Respond, Send
<1>4. ASSUME NEW c \in Clients, NEW wanted \in Requests, Ask(c, wanted)
      PROVE  clock' = clock
  BY <1>4 DEF Ask
<1>5. ASSUME NEW i \in DOMAIN rows, NEW m \in Meters, Answer(i, m)
      PROVE  clock' = clock
  BY <1>5 DEF Answer
<1>6. CASE Tick
  BY <1>1, <1>6 DEF Tick
<1>7. CASE UNCHANGED energyVars
  BY <1>1, <1>7 DEF energyVars
<1> QED
  BY <1>1, <1>2, <1>3, <1>4, <1>5, <1>6, <1>7 DEF EnergyNext

\* No step but the write of a checker adds a summary.
LEMMA OthersAddNone ==
  ASSUME EnergyBase, EnergyNext, ~ \E k \in Checkers : CloseEnergyRequest(k)
  PROVE  SummaryAdded
<1>1. ASSUME NEW r, r.kind # "summary", rows' = Append(rows, r)
      PROVE  SummaryAdded
  <2>1. rows \in Seq(Rows)
    BY TypeParts DEF EnergyBase
  <2>2. \A n \in DOMAIN rows' \ DOMAIN rows : rows'[n] = r
    BY <1>1, <2>1
  <2> QED
    BY <1>1, <2>2 DEF SummaryAdded
<1>2. ASSUME DOMAIN rows' = DOMAIN rows
      PROVE  SummaryAdded
  BY <1>2 DEF SummaryAdded
<1>3. ASSUME NEW c \in Clients, Save(c)
      PROVE  SummaryAdded
  <2>1. PICK s \in BOOLEAN :
          rows' = Append(rows, [kind |-> "run", at |-> clock, tenant |-> TenantOf[c],
                                periods |-> client[c].periods, summary |-> s])
    BY <1>3 DEF Save
  <2> QED
    BY <1>1, <2>1
<1>4. ASSUME NEW i \in DOMAIN rows, NEW m \in Meters, Answer(i, m)
      PROVE  SummaryAdded
  <2>1. PICK a \in BOOLEAN : rows' = Append(rows, [kind |-> "answer", at |-> clock, meter |-> m, accepted |-> a])
    BY <1>4 DEF Answer
  <2> QED
    BY <1>1, <2>1
<1>5. ASSUME NEW c \in Clients, Respond(c)
      PROVE  SummaryAdded
  <2>1. DOMAIN rows' = DOMAIN rows
    BY <1>5 DEF Respond, KeepSent
  <2> QED
    BY <1>2, <2>1
<1>6. ASSUME NEW c \in Clients, SaveFails(c) \/ (\E m \in Meters : Send(c, m)) \/ (\E wanted \in Requests : Ask(c, wanted))
      PROVE  SummaryAdded
  BY <1>2, <1>6 DEF SaveFails, Send, Ask
<1>7. CASE Tick \/ \E k \in Checkers : Check(k) \/ CheckFails(k)
  BY <1>2, <1>7 DEF Tick, Check, CheckFails
<1> QED
  BY <1>3, <1>4, <1>5, <1>6, <1>7 DEF EnergyNext, ClientStep

\* A checker writes what was due when it decided, unless there is a summary: it
\* is looked for when the run is locked, not when the rows were read.
LEMMA CloseAddsOne ==
  ASSUME EnergyBase, SummaryInv, NEW k \in Checkers, CloseEnergyRequest(k)
  PROVE  SummaryAdded
<1>1. /\ Chosen(k) \in checker[k] /\ Chosen(k).run \in Nat
      /\ rows' = IF AlreadyClosed(Chosen(k).run) THEN rows ELSE Append(rows, Summary(Chosen(k)))
  BY CloseWrites DEF EnergyBase
<1> DEFINE run == Chosen(k).run
<1>2. run \in DOMAIN rows /\ Due(run, Chosen(k).result)
  BY <1>1 DEF SummaryInv, CheckersDue
<1>3. CASE AlreadyClosed(run)
  BY <1>1, <1>3 DEF SummaryAdded
<1>4. CASE ~AlreadyClosed(run)
  <2>1. rows \in Seq(Rows) /\ rows' = Append(rows, Summary(Chosen(k)))
    BY <1>1, <1>4, TypeParts DEF EnergyBase
  <2>2. \A n \in DOMAIN rows' \ DOMAIN rows : rows'[n] = Summary(Chosen(k))
    BY <2>1
  <2>3. Summary(Chosen(k)).run = run /\ Summary(Chosen(k)).result = Chosen(k).result
    BY DEF Summary
  <2>4. \A s \in DOMAIN rows : rows[s].kind = "summary" => rows[s].run # run
    BY <1>4 DEF AlreadyClosed, SummaryInv, SummariesLater
  <2> HIDE DEF run
  <2> QED
    BY <1>2, <2>2, <2>3, <2>4 DEF SummaryAdded
<1> QED
  BY <1>3, <1>4

LEMMA CheckersStayDue ==
  ASSUME EnergyBase, SummaryInv, [EnergyNext]_energyVars
  PROVE  CheckersDue'
<1>1. EnergyBase' /\ RowsFollow /\ clock <= clock'
  BY EnergyStepBase, ClockGoesOn
<1>2. ASSUME NEW k \in Checkers, NEW s \in checker[k]
      PROVE  s.run \in DOMAIN rows' /\ Due(s.run, s.result)'
  <2>1. s.run \in DOMAIN rows /\ Due(s.run, s.result)
    BY DEF SummaryInv, CheckersDue
  <2> QED
    BY <1>1, <2>1, DueStays DEF RowsFollow
<1>3. EnergyTypeOK
  BY DEF EnergyBase
<1>4. ASSUME NEW k \in Checkers, checker'[k] \subseteq checker[k],
             \A l \in Checkers \ {k} : checker'[l] = checker[l]
      PROVE  CheckersDue'
  BY <1>2, <1>4 DEF CheckersDue
<1>5. ASSUME NEW k \in Checkers, Check(k)
      PROVE  CheckersDue'
  <2>1. checker' = [checker EXCEPT ![k] = Decided(k)] /\ UNCHANGED <<rows, clock>>
    BY <1>3, <1>5, CheckDecides
  <2>2. checker'[k] = Decided(k) /\ \A l \in Checkers \ {k} : checker'[l] = checker[l]
    BY <1>3, <2>1 DEF EnergyTypeOK
  <2>3. ASSUME NEW s \in Decided(k)
        PROVE  s.run \in DOMAIN rows /\ Due(s.run, s.result)
    <3>1. PICK i \in Runs(View) : s = [run |-> i, result |-> Evaluate(View, i)] /\ Done(s.run, s.result)
      BY DEF Decided
    <3>2. i \in DOMAIN rows /\ s.run = i
      BY <3>1 DEF Runs, View
    <3>3. rows[i].at \in Nat /\ clock \in Nat /\ Deadline \in Nat
      BY <1>3, <3>2, RowsAre, RowTypes, TypeParts, TimeAssumption
    <3> QED
      BY <3>1, <3>2, <3>3 DEF Done, Due, Age
  <2>4. ASSUME NEW s \in Decided(k)
        PROVE  s.run \in DOMAIN rows' /\ Due(s.run, s.result)'
    BY <2>1, <2>3 DEF Due
  <2> QED
    BY <1>2, <2>2, <2>4 DEF CheckersDue
<1>6. ASSUME NEW k \in Checkers, CloseEnergyRequest(k) \/ CheckFails(k)
      PROVE  CheckersDue'
  <2>1. checker' = [checker EXCEPT ![k] = @ \ {Chosen(k)}] \/ checker' = [checker EXCEPT ![k] = {}]
    BY <1>3, <1>6, CloseWrites DEF CheckFails
  <2>2. checker'[k] \subseteq checker[k] /\ \A l \in Checkers \ {k} : checker'[l] = checker[l]
    BY <1>3, <2>1 DEF EnergyTypeOK
  <2> QED
    BY <1>4, <2>2
<1>7. CASE UNCHANGED checker
  BY <1>2, <1>7 DEF CheckersDue
<1>8. CASE \E c \in Clients : ClientStep(c) \/ \E wanted \in Requests : Ask(c, wanted)
  BY <1>7, <1>8 DEF ClientStep, Save, SaveFails, Respond, Send, Ask
<1>9. CASE (\E i \in DOMAIN rows, m \in Meters : Answer(i, m)) \/ Tick \/ UNCHANGED energyVars
  BY <1>7, <1>9 DEF Answer, Tick, energyVars
<1> QED
  BY <1>5, <1>6, <1>8, <1>9 DEF EnergyNext

LEMMA SummaryStep ==
  ASSUME EnergyBase, SummaryInv, [EnergyNext]_energyVars
  PROVE  SummaryInv'
<1>1. EnergyBase' /\ RowsFollow /\ clock <= clock'
  BY EnergyStepBase, ClockGoesOn
<1>2. CheckersDue'
  BY CheckersStayDue
<1>3. SummaryAdded
  <2>1. CASE UNCHANGED energyVars
    BY <2>1 DEF SummaryAdded, energyVars
  <2> QED
    BY <2>1, OthersAddNone, CloseAddsOne
<1>4. /\ Len(rows) \in Nat /\ DOMAIN rows = 1 .. Len(rows)
      /\ Len(rows') \in Nat /\ DOMAIN rows' = 1 .. Len(rows')
  BY <1>1, RowsAre DEF EnergyBase, EnergyTypeOK
\* A summary of before, which stays as it is, or the one added.
<1>5. ASSUME NEW s \in DOMAIN rows', rows'[s].kind = "summary"
      PROVE  \/ s \in DOMAIN rows /\ rows[s].kind = "summary" /\ rows'[s] = rows[s]
             \/ s = Len(rows) + 1 /\ s \notin DOMAIN rows /\ rows'[s].at = clock
  BY <1>4, <1>5, <1>1 DEF RowsFollow, Reduced
<1>6. ASSUME NEW s \in DOMAIN rows', rows'[s].kind = "summary"
      PROVE  /\ rows'[s].run \in DOMAIN rows /\ rows'[s].run < s
             /\ \A m \in DOMAIN rows'[s].result :
                   rows'[s].result[m] = "noAnswer" => rows'[s].at >= rows'[rows'[s].run].at + Deadline
  <2>1. CASE s \in DOMAIN rows
    <3>1. rows[s].kind = "summary" /\ rows'[s] = rows[s]
      BY <1>5, <1>6, <2>1
    <3>2. rows[s].run \in DOMAIN rows /\ rows[s].run < s
      BY <2>1, <3>1 DEF SummaryInv, SummariesLater
    <3>3. rows'[rows[s].run].at = rows[rows[s].run].at
      BY <1>1, <3>2 DEF RowsFollow, Reduced
    <3> QED
      BY <2>1, <3>1, <3>2, <3>3 DEF SummaryInv, NoAnswerMeansDeadline
  <2>2. CASE s \notin DOMAIN rows
    <3>1. s = Len(rows) + 1 /\ rows'[s].at = clock
      BY <1>5, <1>6, <2>2
    <3>2. rows'[s].run \in DOMAIN rows /\ Due(rows'[s].run, rows'[s].result)
      BY <1>3, <1>6, <2>2 DEF SummaryAdded
    <3>3. /\ rows'[rows'[s].run].at = rows[rows'[s].run].at
          /\ rows[rows'[s].run].at \in Nat /\ clock \in Nat /\ Deadline \in Nat
      BY <1>1, <3>2, RowsAre, RowTypes, TypeParts, TimeAssumption DEF RowsFollow, Reduced, EnergyBase
    <3>4. rows'[s].run < s
      BY <1>4, <3>1, <3>2
    <3> QED
      BY <3>1, <3>2, <3>3, <3>4 DEF Due
  <2> QED
    BY <2>1, <2>2
<1>7. SummariesLater' /\ NoAnswerMeansDeadline'
  BY <1>1, <1>6 DEF SummariesLater, NoAnswerMeansDeadline, RowsFollow
<1>8. OneSummaryPerRun'
  <2> SUFFICES ASSUME NEW s \in DOMAIN rows', NEW u \in DOMAIN rows',
                      rows'[s].kind = "summary", rows'[u].kind = "summary", rows'[s].run = rows'[u].run
               PROVE  s = u
    BY DEF OneSummaryPerRun
  <2>1. CASE s \in DOMAIN rows /\ u \in DOMAIN rows
    BY <1>5, <2>1 DEF SummaryInv, OneSummaryPerRun
  <2>2. CASE s \notin DOMAIN rows /\ u \notin DOMAIN rows
    BY <1>5, <2>2
  <2>3. CASE s \in DOMAIN rows /\ u \notin DOMAIN rows
    BY <1>3, <1>5, <2>3 DEF SummaryAdded
  <2>4. CASE s \notin DOMAIN rows /\ u \in DOMAIN rows
    BY <1>3, <1>5, <2>4 DEF SummaryAdded
  <2> QED
    BY <2>1, <2>2, <2>3, <2>4
<1> QED
  BY <1>2, <1>7, <1>8 DEF SummaryInv

LEMMA SummaryInvariance == EnergySpec => []SummaryInv
<1>1. EnergyInit => SummaryInv
  BY DEF EnergyInit, SummaryInv, SummariesLater, CheckersDue, OneSummaryPerRun, NoAnswerMeansDeadline
<1>2. EnergyBase /\ SummaryInv /\ [EnergyNext]_energyVars => SummaryInv'
  BY SummaryStep
<1> QED
  BY <1>1, <1>2, EnergyBaseInvariance, PTL DEF EnergySpec

\* A run has one summary, although the checks of several instances overlap, and
\* a check ends with an error and begins again.
THEOREM SummarisedOnce == EnergySpec => []OneSummaryPerRun
<1>1. SummaryInv => OneSummaryPerRun
  BY DEF SummaryInv
<1> QED
  BY <1>1, SummaryInvariance, PTL

\* "No answer" is said only after the deadline of the run, although the run may
\* be reduced, requested again or answered between the decision and the write.
THEOREM NoAnswerAfterDeadline == EnergySpec => []NoAnswerMeansDeadline
<1>1. SummaryInv => NoAnswerMeansDeadline
  BY DEF SummaryInv
<1> QED
  BY <1>1, SummaryInvariance, PTL

-----------------------------------------------------------------------------
(* Requests. *)

\* The owner of an answer is a run that can take it.
LEMMA OwnerTakes ==
  ASSUME EnergyTypeOK, NEW view \in SUBSET DOMAIN rows, NEW k \in Answers(view), Owners(view)[k] # 0
  PROVE  Owners(view)[k] \in Takers(view, k)
<1>1. Len(rows) \in Nat /\ DOMAIN rows = 1 .. Len(rows)
  BY RowsAre
<1>2. OwnedBy(Owners(view), view, Answers(view))
  BY <1>1, OwnersAre
<1> DEFINE answered == {Owners(view)[j] : j \in Before(view, k)}
           takers == Takers(view, k)
<1>3. Owners(view)[k] = Takes(takers, answered)
  BY <1>2 DEF OwnedBy
<1>4. takers \in SUBSET Nat /\ \A i \in takers : i <= Len(rows)
  BY <1>1 DEF Takers, Requesting, Runs
<1> HIDE DEF answered, takers
<1>5. CASE takers \ answered # {}
  <2>1. Min(takers \ answered) \in takers \ answered
    BY <1>4, <1>5, HasFirst
  <2> QED
    BY <1>3, <1>5, <2>1 DEF Takes, takers
<1>6. CASE takers \ answered = {} /\ takers # {}
  <2>1. Max(takers) \in takers
    BY <1>1, <1>4, <1>6, HasLast
  <2> QED
    BY <1>3, <1>6, <2>1 DEF Takes, takers
<1>7. CASE takers = {}
  BY <1>3, <1>7 DEF Takes
<1> QED
  BY <1>5, <1>6, <1>7

\* A lock gives way to a rejection that came after the run.
LEMMA RejectionCame ==
  ASSUME EnergyTypeOK, NEW view \in SUBSET DOMAIN rows, NEW i \in Runs(view), NEW m,
         LastRejected(Owners(view), i, m)
  PROVE  \E k \in Answers(DOMAIN rows) : i < k /\ rows[k].meter = m /\ ~rows[k].accepted
<1>1. Len(rows) \in Nat /\ DOMAIN rows = 1 .. Len(rows)
  BY RowsAre
<1> DEFINE own == Owners(view)
           belonging == {k \in DOMAIN own : own[k] = i /\ rows[k].meter = m}
           k == Latest(own, i, m)
<1>2. DOMAIN own = Answers(view)
  BY <1>1, OwnersAre DEF OwnedBy
<1>3. Latest(own, i, m) = IF belonging = {} THEN 0 ELSE Max(belonging)
  BY DEF Latest
<1>4. belonging \in SUBSET Nat /\ \A l \in belonging : l <= Len(rows)
  BY <1>1, <1>2 DEF Answers
<1> HIDE DEF belonging, own
<1>5. Latest(own, i, m) # 0 /\ ~rows[Latest(own, i, m)].accepted
  BY DEF LastRejected, own
<1>6. Latest(own, i, m) \in belonging
  <2>1. belonging # {}
    BY <1>3, <1>5
  <2> QED
    BY <1>1, <1>3, <1>4, <2>1, HasLast
<1>7. k \in Answers(view) /\ own[k] = i /\ rows[k].meter = m
  BY <1>2, <1>6 DEF belonging
<1>8. i # 0
  BY <1>1 DEF Runs
<1>9. i \in Takers(view, k)
  BY <1>7, <1>8, OwnerTakes DEF own
<1>10. i < k
  BY <1>9 DEF Takers
<1>11. k \in Answers(DOMAIN rows)
  BY <1>7 DEF Answers
<1> QED
  BY <1>5, <1>7, <1>10, <1>11

\* Clients of a tenant save one after the other.
Mutex == \A c, d \in Clients :
  client[c].pc = "saving" /\ client[d].pc = "saving" /\ TenantOf[c] = TenantOf[d] => c = d

Rejected(i, m) == \E k \in Answers(DOMAIN rows) : i < k /\ rows[k].meter = m /\ ~rows[k].accepted

\* What a client is about to request for its tenant, no run has locked since it
\* looked.
StillFree(c) ==
  \A m \in DOMAIN client[c].periods, i \in Runs(DOMAIN rows) :
     /\ m \in DOMAIN rows[i].periods /\ rows[i].tenant = TenantOf[c]
     /\ Overlap(rows[i].periods[m], client[c].periods[m])
     /\ clock < rows[i].at + LockWindow
     => Rejected(i, m)

RequestInv ==
  /\ Mutex
  /\ \A c \in Clients : client[c].pc = "saving" => StillFree(c)
  /\ NoDoubleRequest

\* A run of now was there before, and at least as large.
LEMMA RunWas ==
  ASSUME EnergyBase, RowsFollow, NEW i \in Runs(DOMAIN rows)', i \in DOMAIN rows
  PROVE  /\ i \in Runs(DOMAIN rows)
         /\ rows'[i].at = rows[i].at /\ rows'[i].tenant = rows[i].tenant
         /\ \A m \in DOMAIN rows'[i].periods : m \in DOMAIN rows[i].periods /\ rows'[i].periods[m] = rows[i].periods[m]
<1>1. rows'[i].kind = "run" /\ Reduced(rows[i], rows'[i])
  BY DEF Runs, RowsFollow
<1> QED
  BY <1>1 DEF Runs, Reduced

LEMMA AnswerStays ==
  ASSUME RowsFollow, NEW k \in Answers(DOMAIN rows)
  PROVE  k \in Answers(DOMAIN rows)' /\ rows'[k] = rows[k]
BY DEF Answers, RowsFollow, Reduced

\* Steps without a new run, at the same time, keep what is free.
LEMMA FreeStays ==
  ASSUME EnergyBase, RowsFollow, NEW c \in Clients, StillFree(c),
         client'[c].periods = client[c].periods, UNCHANGED clock,
         \A i \in Runs(DOMAIN rows)' : i \in DOMAIN rows \/ rows'[i].tenant # TenantOf[c]
  PROVE  StillFree(c)'
<1> SUFFICES ASSUME NEW m \in DOMAIN client'[c].periods, NEW i \in Runs(DOMAIN rows)',
                    m \in DOMAIN rows'[i].periods, rows'[i].tenant = TenantOf[c],
                    Overlap(rows'[i].periods[m], client'[c].periods[m]),
                    clock' < rows'[i].at + LockWindow
             PROVE  Rejected(i, m)'
  BY DEF StillFree, Overlap
<1>1. /\ i \in Runs(DOMAIN rows) /\ rows'[i].at = rows[i].at /\ rows'[i].tenant = rows[i].tenant
      /\ m \in DOMAIN rows[i].periods /\ rows'[i].periods[m] = rows[i].periods[m]
  BY RunWas
<1>2. Rejected(i, m)
  BY <1>1 DEF StillFree
<1> QED
  BY <1>2, AnswerStays DEF Rejected

\* What was asked stays in order.
Apart(i, j, m) == \E k \in Answers(i .. j) : rows[k].meter = m /\ ~rows[k].accepted

LEMMA PairStays ==
  ASSUME EnergyBase, NoDoubleRequest, RowsFollow,
         NEW j \in Runs(DOMAIN rows)', NEW i \in Runs(DOMAIN rows)', i \in DOMAIN rows, j \in DOMAIN rows,
         NEW m \in DOMAIN rows'[i].periods \cap DOMAIN rows'[j].periods,
         i < j, rows'[i].tenant = rows'[j].tenant,
         Overlap(rows'[i].periods[m], rows'[j].periods[m]),
         rows'[j].at < rows'[i].at + LockWindow
  PROVE  Apart(i, j, m)'
<1>1. /\ i \in Runs(DOMAIN rows) /\ rows'[i].at = rows[i].at /\ rows'[i].tenant = rows[i].tenant
      /\ m \in DOMAIN rows[i].periods /\ rows'[i].periods[m] = rows[i].periods[m]
  BY RunWas
<1>2. /\ j \in Runs(DOMAIN rows) /\ rows'[j].at = rows[j].at /\ rows'[j].tenant = rows[j].tenant
      /\ m \in DOMAIN rows[j].periods /\ rows'[j].periods[m] = rows[j].periods[m]
  BY RunWas
<1>3. PICK k \in Answers(i .. j) : rows[k].meter = m /\ ~rows[k].accepted
  <2>1. /\ rows[i].tenant = rows[j].tenant /\ rows[j].at < rows[i].at + LockWindow
        /\ m \in DOMAIN rows[i].periods \cap DOMAIN rows[j].periods
    BY <1>1, <1>2
  <2>2. Overlap(rows[i].periods[m], rows[j].periods[m])
    BY <1>1, <1>2 DEF Overlap
  <2> QED
    BY <1>1, <1>2, <2>1, <2>2 DEF NoDoubleRequest
<1>4. k \in Answers(DOMAIN rows)
  <2>2. Len(rows) \in Nat /\ DOMAIN rows = 1 .. Len(rows)
    BY RowsAre DEF EnergyBase
  <2>3. k \in i .. j /\ rows[k].kind = "answer"
    BY <1>3 DEF Answers
  <2>4. k \in DOMAIN rows
    BY <2>2, <2>3
  <2> QED
    BY <2>3, <2>4 DEF Answers
<1>5. k \in Answers(i .. j)' /\ rows'[k] = rows[k]
  BY <1>3, <1>4, AnswerStays DEF Answers
<1> QED
  BY <1>3, <1>5 DEF Apart

\* The lock is read and the run stored under the mutex of the tenant: what is
\* free is free until it is requested.
LEMMA AskKeeps ==
  ASSUME EnergyBase, RequestInv, NEW c \in Clients, NEW wanted \in Requests, Ask(c, wanted)
  PROVE  RequestInv'
<1> DEFINE free == {m \in DOMAIN wanted : ~Locked(TenantOf[c], m, wanted[m])}
           asked == [m \in free |-> wanted[m]]
<1>1. /\ TenantIsFree(TenantOf[c])
      /\ client' = [client EXCEPT ![c].pc = "saving", ![c].periods = asked]
      /\ UNCHANGED <<rows, clock, sent, checker>>
  BY DEF Ask
<1>2. ClientsTyped
  BY TypeParts DEF EnergyBase
<1>3. DOMAIN asked = free /\ \A m \in free : asked[m] = wanted[m]
  OBVIOUS
<1> HIDE DEF asked, free
<1>4. client'[c].periods = asked /\ client'[c].pc = "saving" /\ \A d \in Clients : d # c => client'[d] = client[d]
  BY <1>1, <1>2 DEF ClientsTyped
<1>5. Mutex'
  BY <1>1, <1>4 DEF RequestInv, Mutex, TenantIsFree
<1>6. ASSUME NEW m \in free, NEW i \in Runs(DOMAIN rows),
             m \in DOMAIN rows[i].periods, rows[i].tenant = TenantOf[c],
             Overlap(rows[i].periods[m], wanted[m]),
             clock < rows[i].at + LockWindow
      PROVE  Rejected(i, m)
  <2>1. /\ rows[i].at \in Nat /\ clock \in Nat /\ LockWindow \in Nat /\ Deadline \in Nat /\ i \in DOMAIN rows
    BY RowsAre, RowTypes, TypeParts, TimeAssumption DEF EnergyBase, Runs
  <2>2. rows[i].at + LookBack > clock
    BY <1>6, <2>1 DEF LookBack
  <2>3. i \in Requesting(View, m) /\ i \in Runs(View)
    BY <1>6, <2>1, <2>2 DEF Requesting, View, Runs
  <2>4. ~Locked(TenantOf[c], m, wanted[m])
    BY DEF free
  <2>5. Age(i) < LockWindow
    BY <1>6, <2>1 DEF Age
  <2>6. LastRejected(Owners(View), i, m)
    BY <1>6, <2>3, <2>4, <2>5 DEF Locked
  <2>7. View \in SUBSET DOMAIN rows
    BY DEF View
  <2> QED
    BY <2>3, <2>6, <2>7, RejectionCame DEF EnergyBase, Rejected
<1>7. Runs(DOMAIN rows)' = Runs(DOMAIN rows) /\ \A i, m : Rejected(i, m)' <=> Rejected(i, m)
  BY <1>1 DEF Runs, Rejected, Answers
<1>8. StillFree(c)'
  <2> SUFFICES ASSUME NEW m \in DOMAIN client'[c].periods, NEW i \in Runs(DOMAIN rows)',
                      m \in DOMAIN rows'[i].periods, rows'[i].tenant = TenantOf[c],
                      Overlap(rows'[i].periods[m], client'[c].periods[m]),
                      clock' < rows'[i].at + LockWindow
               PROVE  Rejected(i, m)'
    BY DEF StillFree, Overlap
  <2>1. m \in free /\ client'[c].periods[m] = wanted[m] /\ i \in Runs(DOMAIN rows)
    BY <1>3, <1>4, <1>7
  <2>2. Overlap(rows[i].periods[m], wanted[m])
    BY <1>1, <2>1 DEF Overlap
  <2>3. Rejected(i, m)
    BY <1>1, <1>6, <2>1, <2>2
  <2> QED
    BY <1>7, <2>3
<1>9. ASSUME NEW d \in Clients, d # c, client'[d].pc = "saving"
      PROVE  StillFree(d)'
  <2>1. StillFree(d) /\ client'[d] = client[d]
    BY <1>4, <1>9 DEF RequestInv
  <2> QED
    BY <1>1, <1>7, <2>1 DEF StillFree, Overlap
<1>10. NoDoubleRequest'
  BY <1>1 DEF RequestInv, NoDoubleRequest, Runs, Answers, Overlap
<1> QED
  BY <1>5, <1>8, <1>9, <1>10 DEF RequestInv

LEMMA SaveKeeps ==
  ASSUME EnergyBase, RequestInv, NEW c \in Clients, Save(c)
  PROVE  RequestInv'
<1>1. PICK s \in BOOLEAN :
        rows' = Append(rows, [kind |-> "run", at |-> clock, tenant |-> TenantOf[c],
                              periods |-> client[c].periods, summary |-> s])
  BY DEF Save
<1>2. /\ client[c].pc = "saving" /\ UNCHANGED clock
      /\ client' = [client EXCEPT ![c].pc = "sending", ![c].row = Len(rows')]
  BY DEF Save
<1>3. EnergyBase' /\ RowsFollow
  BY SaveBase
<1>4. ClientsTyped /\ rows \in Seq(Rows) /\ Len(rows) \in Nat /\ DOMAIN rows = 1 .. Len(rows)
  BY TypeParts, RowsAre DEF EnergyBase
<1> DEFINE n == Len(rows) + 1
<1>5. DOMAIN rows' = 1 .. n /\ \A i \in DOMAIN rows' : i \in DOMAIN rows \/ i = n
  BY <1>1, <1>4
<1>6. rows'[n].at = clock /\ rows'[n].tenant = TenantOf[c] /\ rows'[n].periods = client[c].periods
  BY <1>1, <1>4
<1>7. client'[c].pc = "sending" /\ \A d \in Clients : d # c => client'[d] = client[d]
  BY <1>2, <1>4 DEF ClientsTyped
<1>8. Mutex'
  BY <1>7 DEF RequestInv, Mutex
<1>9. ASSUME NEW d \in Clients, client'[d].pc = "saving"
      PROVE  StillFree(d)'
  <2>1. d # c /\ client'[d] = client[d] /\ StillFree(d)
    BY <1>7, <1>9 DEF RequestInv
  <2>2. TenantOf[d] # TenantOf[c]
    BY <1>2, <1>9, <2>1 DEF RequestInv, Mutex
  <2>3. \A i \in Runs(DOMAIN rows)' : i \in DOMAIN rows \/ rows'[i].tenant # TenantOf[d]
    BY <1>5, <1>6, <2>2 DEF Runs
  <2> QED
    BY <1>2, <1>3, <2>1, <2>3, FreeStays
<1>10. ASSUME NEW j \in Runs(DOMAIN rows)', NEW i \in Runs(DOMAIN rows)',
              NEW m \in DOMAIN rows'[i].periods \cap DOMAIN rows'[j].periods,
              i < j, rows'[i].tenant = rows'[j].tenant,
              Overlap(rows'[i].periods[m], rows'[j].periods[m]),
              rows'[j].at < rows'[i].at + LockWindow
       PROVE  Apart(i, j, m)'
  <2>1. i \in DOMAIN rows
    BY <1>4, <1>5, <1>10 DEF Runs
  <2>2. CASE j \in DOMAIN rows
    BY <1>3, <1>10, <2>1, <2>2, PairStays DEF RequestInv
  <2>3. CASE j \notin DOMAIN rows
    <3>1. j = n
      BY <1>5, <2>3 DEF Runs
    <3>2. /\ i \in Runs(DOMAIN rows) /\ rows'[i].at = rows[i].at /\ rows'[i].tenant = rows[i].tenant
          /\ m \in DOMAIN rows[i].periods /\ rows'[i].periods[m] = rows[i].periods[m]
      BY <1>3, <2>1, RunWas
    <3>3. StillFree(c)
      BY <1>2 DEF RequestInv
    <3>4. Overlap(rows[i].periods[m], client[c].periods[m])
      BY <1>6, <1>10, <3>1, <3>2 DEF Overlap
    <3>5. Rejected(i, m)
      BY <1>6, <1>10, <3>1, <3>2, <3>3, <3>4 DEF StillFree
    <3>6. PICK k \in Answers(DOMAIN rows) : i < k /\ rows[k].meter = m /\ ~rows[k].accepted
      BY <3>5 DEF Rejected
    <3>7. k \in Answers(DOMAIN rows)' /\ rows'[k] = rows[k]
      BY <1>3, AnswerStays
    <3>8. k \in i .. j
      BY <1>4, <2>1, <3>1, <3>6 DEF Answers
    <3> QED
      BY <3>6, <3>7, <3>8 DEF Apart, Answers
  <2> QED
    BY <2>2, <2>3
<1>11. NoDoubleRequest'
  BY <1>10 DEF NoDoubleRequest, Apart, Overlap
<1> QED
  BY <1>8, <1>9, <1>11 DEF RequestInv

\* All other steps neither add a run nor let time pass while a client saves.
LEMMA OthersKeepRequests ==
  ASSUME EnergyBase, RequestInv, RowsFollow, Runs(DOMAIN rows)' \subseteq DOMAIN rows,
         \A c \in Clients : client'[c].pc = "saving" =>
            client[c].pc = "saving" /\ client'[c].periods = client[c].periods /\ UNCHANGED clock
  PROVE  RequestInv'
<1>1. Mutex'
  BY DEF RequestInv, Mutex
<1>2. ASSUME NEW c \in Clients, client'[c].pc = "saving"
      PROVE  StillFree(c)'
  BY <1>2, FreeStays DEF RequestInv
<1>3. ASSUME NEW j \in Runs(DOMAIN rows)', NEW i \in Runs(DOMAIN rows)',
             NEW m \in DOMAIN rows'[i].periods \cap DOMAIN rows'[j].periods,
             i < j, rows'[i].tenant = rows'[j].tenant,
             Overlap(rows'[i].periods[m], rows'[j].periods[m]),
             rows'[j].at < rows'[i].at + LockWindow
      PROVE  Apart(i, j, m)'
  BY <1>3, PairStays DEF RequestInv
<1>4. NoDoubleRequest'
  BY <1>3 DEF NoDoubleRequest, Apart, Overlap
<1> QED
  BY <1>1, <1>2, <1>4 DEF RequestInv

LEMMA RequestStep ==
  ASSUME EnergyBase, RequestInv, [EnergyNext]_energyVars
  PROVE  RequestInv'
<1>1. EnergyBase' /\ RowsFollow
  BY EnergyStepBase
<1>2. /\ ClientsTyped /\ rows \in Seq(Rows)
      /\ checker \in [Checkers -> SUBSET [run : Nat, result : Results]] /\ EnergyTypeOK
  BY TypeParts DEF EnergyBase
<1>3. ASSUME NEW r, r.kind # "run", rows' = Append(rows, r)
      PROVE  Runs(DOMAIN rows)' \subseteq DOMAIN rows
  <2>1. \A n \in DOMAIN rows' \ DOMAIN rows : rows'[n] = r
    BY <1>2, <1>3
  <2> QED
    BY <1>3, <2>1 DEF Runs
<1>4. ASSUME DOMAIN rows' = DOMAIN rows
      PROVE  Runs(DOMAIN rows)' \subseteq DOMAIN rows
  BY <1>4 DEF Runs
<1>5. ASSUME NEW i \in DOMAIN rows, NEW m \in Meters, Answer(i, m)
      PROVE  RequestInv'
  <2>1. PICK a \in BOOLEAN : rows' = Append(rows, [kind |-> "answer", at |-> clock, meter |-> m, accepted |-> a])
    BY <1>5 DEF Answer
  <2>2. Runs(DOMAIN rows)' \subseteq DOMAIN rows
    BY <1>3, <2>1
  <2> QED
    BY <1>1, <1>5, <2>2, OthersKeepRequests DEF Answer
<1>6. ASSUME NEW k \in Checkers, CloseEnergyRequest(k)
      PROVE  RequestInv'
  <2>1. /\ rows' = IF AlreadyClosed(Chosen(k).run) THEN rows ELSE Append(rows, Summary(Chosen(k)))
        /\ UNCHANGED <<clock, client>>
    BY <1>2, <1>6, CloseWrites
  <2>2. Summary(Chosen(k)).kind # "run"
    BY DEF Summary
  <2>3. Runs(DOMAIN rows)' \subseteq DOMAIN rows
    BY <1>3, <1>4, <2>1, <2>2
  <2> QED
    BY <1>1, <2>1, <2>3, OthersKeepRequests
<1>7. ASSUME NEW c \in Clients, Respond(c) \/ SaveFails(c)
      PROVE  RequestInv'
  <2>1. DOMAIN rows' = DOMAIN rows /\ client' = [client EXCEPT ![c] = Nothing] /\ UNCHANGED clock
    BY <1>7 DEF Respond, KeepSent, SaveFails
  <2>2. client'[c].pc = "idle" /\ \A d \in Clients : d # c => client'[d] = client[d]
    BY <1>2, <2>1 DEF ClientsTyped, Nothing
  <2> QED
    BY <1>1, <1>4, <2>1, <2>2, OthersKeepRequests
<1>8. ASSUME NEW c \in Clients, NEW m \in Meters, Send(c, m)
      PROVE  RequestInv'
  <2>1. \A d \in Clients : client'[d].pc = client[d].pc /\ client'[d].periods = client[d].periods
    BY <1>2, <1>8 DEF Send, ClientsTyped
  <2> QED
    BY <1>1, <1>4, <1>8, <2>1, OthersKeepRequests DEF Send
<1>9. ASSUME NEW k \in Checkers, Check(k) \/ CheckFails(k)
      PROVE  RequestInv'
  BY <1>1, <1>4, <1>9, OthersKeepRequests DEF Check, CheckFails
<1>10. CASE Tick
  <2>1. \A c \in Clients : client'[c].pc # "saving"
    BY <1>10 DEF Tick
  <2> QED
    BY <1>1, <1>4, <1>10, <2>1, OthersKeepRequests DEF Tick
<1>11. CASE UNCHANGED energyVars
  BY <1>1, <1>4, <1>11, OthersKeepRequests DEF energyVars
<1> QED
  BY <1>5, <1>6, <1>7, <1>8, <1>9, <1>10, <1>11, AskKeeps, SaveKeeps DEF EnergyNext, ClientStep

\* The same days of a metering point are not requested twice for a tenant
\* within LockWindow, unless they were rejected: the locks are read and the run
\* is stored under one mutex, and the rejection that opens a lock was an answer
\* to the very run that locked, which is computed from the rows in view.
THEOREM NeverRequestedTwice == EnergySpec => []NoDoubleRequest
<1>1. EnergyInit => RequestInv
  BY DEF EnergyInit, RequestInv, Mutex, NoDoubleRequest, Runs, Nothing
<1>2. EnergyBase /\ RequestInv /\ [EnergyNext]_energyVars => RequestInv'
  BY RequestStep
<1>3. RequestInv => NoDoubleRequest
  BY DEF RequestInv
<1> QED
  BY <1>1, <1>2, <1>3, EnergyBaseInvariance, PTL DEF EnergySpec
-----------------------------------------------------------------------------
(* Which answer belongs to which run does not depend on the rows in view.    *)

\* A run that gets a summary has one by its Deadline.
ClosedInTime ==
  \A j \in Runs(DOMAIN rows) : rows[j].summary /\ rows[j].at + Deadline < clock =>
     \E s \in DOMAIN rows : rows[s].kind = "summary" /\ rows[s].run = j /\ rows[s].at <= rows[j].at + Deadline

LEMMA NumbersOfRows ==
  ASSUME EnergyBase
  PROVE  /\ Len(rows) \in Nat /\ DOMAIN rows = 1 .. Len(rows)
         /\ \A i \in DOMAIN rows : i \in Nat /\ rows[i].at \in Nat /\ rows[i].at <= clock
         /\ clock \in Nat /\ Deadline \in Nat /\ LockWindow \in Nat /\ LockWindow > 0
         /\ View \in SUBSET DOMAIN rows
<1>1. EnergyTypeOK /\ TimesInOrder
  BY DEF EnergyBase
<1>2. Len(rows) \in Nat /\ DOMAIN rows = 1 .. Len(rows) /\ \A i \in DOMAIN rows : rows[i].at \in Nat
  BY <1>1, RowsAre, RowTypes
<1>3. clock \in Nat /\ Deadline \in Nat /\ LockWindow \in Nat /\ LockWindow > 0
  BY <1>1, TypeParts, TimeAssumption
<1> QED
  BY <1>1, <1>2, <1>3 DEF TimesInOrder, View

\* Rows are read from some row on.
LEMMA ViewIsTheEnd ==
  ASSUME EnergyBase, NEW i \in View, NEW j \in DOMAIN rows, i <= j
  PROVE  j \in View
<1>1. rows[i].at <= rows[j].at /\ i \in DOMAIN rows /\ rows[i].at + LookBack > clock
  BY DEF EnergyBase, TimesInOrder, View
<1>2. rows[i].at \in Nat /\ rows[j].at \in Nat /\ clock \in Nat /\ LookBack \in Nat
  BY <1>1, NumbersOfRows DEF LookBack
<1>3. rows[j].at + LookBack > clock
  BY <1>1, <1>2
<1> QED
  BY <1>3 DEF View

\* Steps but Tick add rows, and take nothing that counts from a run.
LEMMA ClosedStays ==
  ASSUME EnergyBase, EnergyBase', RowsFollow, ClosedInTime, UNCHANGED clock
  PROVE  ClosedInTime'
<1> SUFFICES ASSUME NEW j \in Runs(DOMAIN rows)', rows'[j].summary, rows'[j].at + Deadline < clock'
             PROVE  \E s \in DOMAIN rows' : rows'[s].kind = "summary" /\ rows'[s].run = j
                                            /\ rows'[s].at <= rows'[j].at + Deadline
  BY DEF ClosedInTime
<1>1. j \in DOMAIN rows
  <2>1. SUFFICES ASSUME j \notin DOMAIN rows PROVE FALSE
    OBVIOUS
  <2>2. rows'[j].at = clock
    BY <2>1 DEF Runs, RowsFollow
  <2> QED
    BY <2>2, NumbersOfRows
<1>2. Reduced(rows[j], rows'[j]) /\ rows'[j].kind = "run"
  BY <1>1 DEF RowsFollow, Runs
<1>3. j \in Runs(DOMAIN rows) /\ rows[j].summary /\ rows'[j].at = rows[j].at
  BY <1>1, <1>2 DEF Reduced, Runs
<1>4. PICK s \in DOMAIN rows : rows[s].kind = "summary" /\ rows[s].run = j /\ rows[s].at <= rows[j].at + Deadline
  BY <1>3 DEF ClosedInTime
<1>5. s \in DOMAIN rows' /\ rows'[s] = rows[s]
  BY <1>4 DEF RowsFollow, Reduced
<1> QED
  BY <1>3, <1>4, <1>5

\* Time does not pass while a run in view is due.
LEMMA TickCloses ==
  ASSUME EnergyBase, ClosedInTime, Tick
  PROVE  ClosedInTime'
<1>1. clock' = clock + 1 /\ rows' = rows /\ \A i \in Runs(View) : Open(i) => Age(i) < Deadline
  BY DEF Tick
<1> SUFFICES ASSUME NEW j \in Runs(DOMAIN rows), rows[j].summary, rows[j].at + Deadline < clock + 1
             PROVE  \E s \in DOMAIN rows : rows[s].kind = "summary" /\ rows[s].run = j
                                           /\ rows[s].at <= rows[j].at + Deadline
  BY <1>1 DEF ClosedInTime, Runs
<1>2. j \in DOMAIN rows /\ rows[j].at \in Nat /\ clock \in Nat /\ Deadline \in Nat /\ LockWindow \in Nat /\ LockWindow > 0
  BY NumbersOfRows DEF Runs
<1>3. CASE rows[j].at + Deadline < clock
  BY <1>3 DEF ClosedInTime
<1>4. CASE ~(rows[j].at + Deadline < clock)
  <2>1. rows[j].at + Deadline = clock /\ ~(Age(j) < Deadline)
    BY <1>2, <1>4 DEF Age
  <2>2. j \in Runs(View)
    BY <1>2, <2>1 DEF Runs, View, LookBack
  <2>3. PICK s \in Closed(View, j) : TRUE
    BY <1>1, <2>1, <2>2 DEF Open
  <2>4. s \in DOMAIN rows /\ rows[s].kind = "summary" /\ rows[s].run = j
    BY <2>3 DEF Closed, View
  <2>5. rows[s].at <= clock
    BY <2>4, NumbersOfRows
  <2> QED
    BY <2>1, <2>4, <2>5
<1> QED
  BY <1>3, <1>4

LEMMA ClosedInvariance == EnergySpec => []ClosedInTime
<1>1. EnergyInit => ClosedInTime
  BY DEF EnergyInit, ClosedInTime, Runs
<1>2. EnergyBase /\ ClosedInTime /\ [EnergyNext]_energyVars => ClosedInTime'
  <2> SUFFICES ASSUME EnergyBase, ClosedInTime, [EnergyNext]_energyVars PROVE ClosedInTime'
    OBVIOUS
  <2>1. EnergyBase' /\ RowsFollow
    BY EnergyStepBase
  <2>2. CASE Tick
    BY <2>2, TickCloses
  <2>3. CASE UNCHANGED clock
    BY <2>1, <2>3, ClosedStays
  <2>4. ASSUME ~Tick PROVE UNCHANGED clock
    BY <2>4 DEF EnergyNext, ClientStep, Save, SaveFails, Respond, Send, Ask, Answer, Check, CloseEnergyRequest,
                CheckFails, energyVars
  <2> QED
    BY <2>2, <2>3, <2>4
<1> QED
  BY <1>1, <1>2, EnergyBaseInvariance, PTL DEF EnergySpec
\* Runs in view: what comes after them is in view as well.
LEMMA LaterRowsAreInView ==
  ASSUME EnergyBase, SummaryInv, NEW i \in Runs(View)
  PROVE  /\ Closed(View, i) = Closed(DOMAIN rows, i)
         /\ \A m : Superseding(View, i, m) = Superseding(DOMAIN rows, i, m)
<1>1. i \in View /\ i \in DOMAIN rows /\ View \in SUBSET DOMAIN rows
  BY NumbersOfRows DEF Runs, View
<1>2. \A j \in DOMAIN rows : j > i => j \in View
  <2> SUFFICES ASSUME NEW j \in DOMAIN rows, j > i PROVE j \in View
    OBVIOUS
  <2>1. i \in Nat /\ j \in Nat
    BY <1>1, NumbersOfRows
  <2>2. i <= j
    BY <2>1
  <2> QED
    BY <1>1, <2>2, ViewIsTheEnd
<1>3. \A s \in Closed(DOMAIN rows, i) : s > i
  <2>1. \A s \in Closed(DOMAIN rows, i) : s \in DOMAIN rows /\ i < s
    BY DEF SummaryInv, SummariesLater, Closed
  <2> QED
    BY <1>1, <2>1, NumbersOfRows
<1>4. Closed(View, i) = Closed(DOMAIN rows, i)
  BY <1>1, <1>2, <1>3 DEF Closed
<1>5. \A m : Superseding(View, i, m) = Superseding(DOMAIN rows, i, m)
  BY <1>1, <1>2 DEF Superseding, Requesting, Runs
<1> QED
  BY <1>4, <1>5

\* The takers of an answer in view.
LEMMA TakersInView ==
  ASSUME EnergyBase, SummaryInv, NEW k \in Answers(View)
  PROVE  Takers(View, k) = Takers(DOMAIN rows, k) \cap Runs(View)
<1>1. View \in SUBSET DOMAIN rows
  BY NumbersOfRows
<1>2. \A m : Requesting(View, m) = Requesting(DOMAIN rows, m) \cap Runs(View)
  BY <1>1 DEF Requesting, Runs
<1>3. \A i \in Runs(View) : /\ Closed(View, i) = Closed(DOMAIN rows, i)
                            /\ \A m : Superseding(View, i, m) = Superseding(DOMAIN rows, i, m)
  BY LaterRowsAreInView
<1> QED
  BY <1>2, <1>3 DEF Takers

\* A run that no longer is in view was closed before any answer that a run in
\* view can take for the same metering point.
LEMMA OldRunsTakeNothing ==
  ASSUME EnergyBase, SummaryInv, ClosedInTime, NEW i \in Runs(View), Open(i), OlderRunsClose(i), NoneBetween(i),
         NEW k \in Answers(DOMAIN rows), NEW r \in Takers(DOMAIN rows, k) \cap Runs(View)
  PROVE  Takers(DOMAIN rows, k) \subseteq Runs(View)
<1> SUFFICES ASSUME NEW j \in Takers(DOMAIN rows, k), j \notin Runs(View) PROVE FALSE
  OBVIOUS
<1>1. /\ i \in DOMAIN rows /\ i \in Runs(DOMAIN rows) /\ r \in DOMAIN rows /\ r \in Runs(View) /\ j \in DOMAIN rows /\ k \in DOMAIN rows
      /\ j \in Runs(DOMAIN rows) \ View /\ r < k /\ j < k
      /\ rows[k].meter \in DOMAIN rows[j].periods \cap DOMAIN rows[r].periods
  BY NumbersOfRows DEF Takers, Requesting, Runs, View, Answers
<1>2. /\ i \in Nat /\ r \in Nat /\ j \in Nat /\ k \in Nat /\ rows[i].at \in Nat /\ rows[r].at \in Nat /\ rows[j].at \in Nat /\ rows[k].at \in Nat
      /\ clock \in Nat /\ Deadline \in Nat /\ LockWindow \in Nat /\ LockWindow > 0
  BY <1>1, NumbersOfRows
<1>3. rows[j].at + LookBack <= clock
  <2>1. ~(rows[j].at + LookBack > clock)
    BY <1>1 DEF View
  <2> QED
    BY <1>2, <2>1 DEF LookBack
\* Run i is open, and younger than its Deadline.
<1>4. clock <= rows[i].at + Deadline
  <2>1. Closed(DOMAIN rows, i) = {} /\ rows[i].summary
    BY LaterRowsAreInView DEF Open
  <2>2. ~(rows[i].at + Deadline < clock)
    BY <1>1, <2>1 DEF ClosedInTime, Closed
  <2> QED
    BY <1>2, <2>2
<1>5. rows[j].at + Deadline < rows[i].at
  BY <1>2, <1>3, <1>4 DEF LookBack
<1>6. j < i
  <2>1. i <= j => rows[i].at <= rows[j].at
    BY <1>1 DEF EnergyBase, TimesInOrder
  <2> QED
    BY <1>2, <1>5, <2>1
<1>7. rows[j].summary
  <2>1. j \in Runs(1 .. i)
    <3>1. j \in 1 .. i
      BY <1>1, <1>2, <1>6, NumbersOfRows
    <3> QED
      BY <1>1, <3>1 DEF Runs
  <2>2. rows[j].summary \/ rows[j].at + Deadline >= rows[i].at
    BY <2>1 DEF OlderRunsClose
  <2> QED
    BY <1>2, <1>5, <2>2
<1>8. PICK s \in DOMAIN rows : rows[s].kind = "summary" /\ rows[s].run = j /\ rows[s].at <= rows[j].at + Deadline
  <2>1. rows[i].at <= clock
    BY <1>1, NumbersOfRows
  <2>2. rows[j].at + Deadline < clock
    BY <1>2, <1>5, <2>1
  <2> QED
    BY <1>1, <1>7, <2>2 DEF ClosedInTime
<1>9. rows[j].at + Deadline < rows[r].at
  <2>1. CASE r < i
    <3>1. r \in 1 .. i - 1 /\ r \in View
      <4>1. r \in 1 .. Len(rows) /\ r \in View
        BY <1>1, NumbersOfRows DEF Runs
      <4> QED
        BY <1>2, <2>1, <4>1
    <3>2. r \in Runs(1 .. i - 1) \cap View
      BY <1>1, <3>1 DEF Runs
    <3> QED
      BY <1>1, <3>2 DEF NoneBetween
  <2>2. CASE i <= r
    <3>1. rows[i].at <= rows[r].at
      BY <1>1, <2>2 DEF EnergyBase, TimesInOrder
    <3> QED
      BY <1>2, <1>5, <3>1
  <2> QED
    BY <1>2, <2>1, <2>2
<1>10. s < k
  <2>1. rows[r].at <= rows[k].at /\ (k <= s => rows[k].at <= rows[s].at)
    BY <1>1, <1>2, <1>8 DEF EnergyBase, TimesInOrder
  <2>2. s \in Nat /\ rows[s].at \in Nat
    BY <1>8, NumbersOfRows
  <2>3. rows[s].at < rows[k].at
    BY <1>2, <1>8, <1>9, <2>1, <2>2
  <2>4. ~(k <= s)
    BY <1>2, <2>1, <2>2, <2>3
  <2> QED
    BY <1>2, <2>2, <2>4
<1>11. k < s
  BY <1>8 DEF Takers, Closed
<1>12. s \in Nat
  BY <1>8, NumbersOfRows
<1> QED
  BY <1>2, <1>10, <1>11, <1>12

\* The runs that answer k can go to are the same for whoever reads all rows.
SameTakers(k) == Takers(DOMAIN rows, k) \cap Runs(View) # {} => Takers(DOMAIN rows, k) \subseteq Runs(View)

\* Run r owns answer k, in all rows and in view.
SameOwner(k) ==
  \A r \in Runs(View) : Owners(DOMAIN rows)[k] = r <=> k \in View /\ Owners(View)[k] = r

LEMMA OwnerFollows ==
  ASSUME EnergyBase, SummaryInv, NEW k \in Answers(DOMAIN rows), SameTakers(k),
         \A j \in Answers(DOMAIN rows) : j < k => SameOwner(j)
  PROVE  SameOwner(k)
<1> DEFINE all == DOMAIN rows
<1>1. /\ Len(rows) \in Nat /\ all = 1 .. Len(rows) /\ View \in SUBSET all /\ EnergyTypeOK
      /\ k \in all /\ k \in Nat /\ \A i \in Runs(View) : i \in all /\ i \in Nat /\ i # 0 /\ i \in View
  <2>1. Len(rows) \in Nat /\ all = 1 .. Len(rows) /\ View \in SUBSET all /\ EnergyTypeOK
    BY NumbersOfRows DEF EnergyBase
  <2> QED
    BY <2>1 DEF Answers, Runs
<1>2. OwnedBy(Owners(all), all, Answers(all)) /\ OwnedBy(Owners(View), View, Answers(View))
  BY <1>1, OwnersAre
<1>3. Owners(all)[k] # 0 => Owners(all)[k] \in Takers(all, k)
  BY <1>1, OwnerTakes
<1>4. ASSUME k \notin View
      PROVE  SameOwner(k)
  <2> SUFFICES ASSUME NEW r \in Runs(View), Owners(all)[k] = r PROVE FALSE
    BY <1>4 DEF SameOwner
  <2>1. r < k /\ r \in View
    BY <1>1, <1>3 DEF Takers
  <2>2. r <= k
    BY <1>1, <2>1
  <2> QED
    BY <1>1, <1>4, <2>1, <2>2, ViewIsTheEnd
<1>5. ASSUME k \in View
      PROVE  SameOwner(k)
  <2>1. k \in Answers(View)
    BY <1>5 DEF Answers
  <2>2. Takers(View, k) = Takers(all, k) \cap Runs(View)
    BY <2>1, TakersInView
  <2>3. Owners(View)[k] # 0 => Owners(View)[k] \in Takers(View, k)
    BY <1>1, <2>1, OwnerTakes
  <2>4. CASE Takers(all, k) \cap Runs(View) = {}
    <3>1. \A r \in Runs(View) : Owners(all)[k] # r /\ Owners(View)[k] # r
      BY <1>1, <1>3, <2>2, <2>3, <2>4
    <3> QED
      BY <3>1 DEF SameOwner
  <2>5. CASE Takers(all, k) \cap Runs(View) # {}
    <3> DEFINE T == Takers(all, k)
               answeredAll == {Owners(all)[j] : j \in Before(all, k)}
               answeredView == {Owners(View)[j] : j \in Before(View, k)}
    <3>1. T \subseteq Runs(View) /\ Takers(View, k) = T
      BY <2>2, <2>5 DEF SameTakers
    <3>2. Before(View, k) = Before(all, k) \cap View /\ Before(all, k) \subseteq Answers(all)
      BY <1>1 DEF Before, Answers
    <3>3. \A j \in Before(all, k) : SameOwner(j)
      BY <3>2 DEF Before
    <3>4. ASSUME NEW r \in Runs(View)
          PROVE  r \in answeredAll <=> r \in answeredView
      <4>1. r \in answeredAll <=> \E j \in Before(all, k) : Owners(all)[j] = r
        OBVIOUS
      <4>2. r \in answeredView <=> \E j \in Before(all, k) : j \in View /\ Owners(View)[j] = r
        BY <3>2
      <4>3. \A j \in Before(all, k) : Owners(all)[j] = r <=> j \in View /\ Owners(View)[j] = r
        BY <3>3 DEF SameOwner
      <4> QED
        BY <4>1, <4>2, <4>3
    <3>5. Owners(all)[k] = Takes(T, answeredAll) /\ Owners(View)[k] = Takes(T, answeredView)
      BY <1>2, <2>1, <3>1 DEF OwnedBy
    <3> HIDE DEF T, answeredAll, answeredView
    <3>6. T \ answeredAll = T \ answeredView
      BY <3>1, <3>4
    <3>7. Owners(all)[k] = Owners(View)[k]
      BY <3>5, <3>6 DEF Takes
    <3> QED
      BY <1>5, <3>7 DEF SameOwner
  <2> QED
    BY <2>4, <2>5
<1> QED
  BY <1>4, <1>5

\* Owners are the same: there is no first answer whose owner is not.
LEMMA OwnersAgree ==
  ASSUME EnergyBase, SummaryInv, \A k \in Answers(DOMAIN rows) : SameTakers(k)
  PROVE  \A k \in Answers(DOMAIN rows) : SameOwner(k)
<1> DEFINE T == {k \in Answers(DOMAIN rows) : ~SameOwner(k)}
<1> SUFFICES ASSUME T # {} PROVE FALSE
  OBVIOUS
<1>1. T \in SUBSET Nat
  BY NumbersOfRows DEF Answers
<1>2. \A k \in T : k \in Answers(DOMAIN rows) /\ ~SameOwner(k)
  OBVIOUS
<1>3. \A k \in Answers(DOMAIN rows) : k \notin T => SameOwner(k)
  OBVIOUS
<1> HIDE DEF T
<1>4. Min(T) \in T /\ \A y \in T : Min(T) <= y
  BY <1>1, HasFirst
<1>5. Min(T) \in Answers(DOMAIN rows) /\ Min(T) \in Nat
  BY <1>1, <1>2, <1>4
<1>6. ASSUME NEW j \in Answers(DOMAIN rows), j < Min(T)
      PROVE  SameOwner(j)
  <2>1. j \in Nat
    BY NumbersOfRows DEF Answers
  <2>2. j \notin T
    BY <1>4, <1>5, <1>6, <2>1
  <2> QED
    BY <1>3, <2>2
<1>7. SameOwner(Min(T))
  BY <1>5, <1>6, OwnerFollows
<1> QED
  BY <1>2, <1>4, <1>7

\* What is said of a run depends on the owners of its answers alone.
LEMMA EvaluationAgrees ==
  ASSUME EnergyBase, SummaryInv, NEW i \in Runs(View), \A k \in Answers(DOMAIN rows) : SameOwner(k)
  PROVE  Evaluate(View, i) = Evaluate(DOMAIN rows, i)
<1> DEFINE all == DOMAIN rows
<1>1. Len(rows) \in Nat /\ all = 1 .. Len(rows) /\ View \in SUBSET all
  BY NumbersOfRows
<1>2. DOMAIN Owners(all) = Answers(all) /\ DOMAIN Owners(View) = Answers(View)
  BY <1>1, OwnersAre DEF OwnedBy
<1>3. Answers(View) = Answers(all) \cap View
  BY <1>1 DEF Answers
<1>4. \A m : {k \in Answers(all) : Owners(all)[k] = i /\ rows[k].meter = m}
             = {k \in Answers(View) : Owners(View)[k] = i /\ rows[k].meter = m}
  BY <1>3 DEF SameOwner
<1>5. \A m : Latest(Owners(all), i, m) = Latest(Owners(View), i, m)
  BY <1>2, <1>4 DEF Latest
<1>6. \A m : LastRejected(Owners(all), i, m) <=> LastRejected(Owners(View), i, m)
  BY <1>5 DEF LastRejected
<1>7. \A m : Superseding(View, i, m) = Superseding(all, i, m)
  BY LaterRowsAreInView
<1> QED
  BY <1>5, <1>6, <1>7 DEF Evaluate

\* The owner of an answer stays: of an open run, lock, list and check, which read
\* the rows in view, say what they would say if they read all rows, when older
\* runs are closed at their Deadline and none between them was open with one
\* that dropped out of view.
THEOREM OwnersStay == EnergySpec => []OwnerOfRunsStays
<1>1. EnergyBase /\ SummaryInv /\ ClosedInTime => OwnerOfRunsStays
  <2> SUFFICES ASSUME EnergyBase, SummaryInv, ClosedInTime,
                      NEW i \in Runs(View), Open(i), OlderRunsClose(i), NoneBetween(i)
               PROVE  Evaluate(View, i) = Evaluate(DOMAIN rows, i)
    BY DEF OwnerOfRunsStays
  <2>1. \A k \in Answers(DOMAIN rows) : SameTakers(k)
    BY OldRunsTakeNothing DEF SameTakers
  <2> QED
    BY <2>1, OwnersAgree, EvaluationAgrees
<1> QED
  BY <1>1, EnergyBaseInvariance, SummaryInvariance, ClosedInvariance, PTL

-----------------------------------------------------------------------------
(* What the list of messages leaves out. *)

\* An answer belongs to no run only if none can take it.
LEMMA NobodyTakes ==
  ASSUME EnergyBase, NEW k \in Answers(DOMAIN rows), Owners(DOMAIN rows)[k] = 0
  PROVE  Takers(DOMAIN rows, k) = {}
<1>1. Len(rows) \in Nat /\ DOMAIN rows = 1 .. Len(rows)
  BY NumbersOfRows
<1>2. OwnedBy(Owners(DOMAIN rows), DOMAIN rows, Answers(DOMAIN rows))
  BY <1>1, OwnersAre
<1> DEFINE answered == {Owners(DOMAIN rows)[j] : j \in Before(DOMAIN rows, k)}
           takers == Takers(DOMAIN rows, k)
<1>3. Takes(takers, answered) = 0
  BY <1>2 DEF OwnedBy
<1>4. takers \in SUBSET (1 .. Len(rows))
  BY <1>1 DEF Takers, Requesting, Runs
<1> HIDE DEF answered, takers
<1>5. SUFFICES ASSUME takers # {} PROVE FALSE
  BY DEF takers
<1>6. takers \in SUBSET Nat /\ (takers \ answered) \in SUBSET Nat /\ \A y \in takers : y <= Len(rows) /\ y # 0
  <2>1. \A y \in takers : y \in Nat /\ y <= Len(rows) /\ y # 0
    BY <1>1, <1>4
  <2> QED
    BY <2>1
<1>7. CASE takers \ answered # {}
  <2>1. Min(takers \ answered) \in takers \ answered
    BY <1>6, <1>7, HasFirst
  <2> QED
    BY <1>3, <1>6, <1>7, <2>1 DEF Takes
<1>8. CASE takers \ answered = {}
  <2>1. Max(takers) \in takers
    BY <1>1, <1>5, <1>6, HasLast
  <2> QED
    BY <1>3, <1>5, <1>6, <1>8, <2>1 DEF Takes
<1> QED
  BY <1>7, <1>8

\* An answer left out that belongs to no run comes after a second summary.
LEMMA OwnerlessLeftOut ==
  ASSUME EnergyBase, NEW k \in Answers(DOMAIN rows), Takers(DOMAIN rows, k) = {},
         NEW i \in PossibleOwners(Runs(DOMAIN rows), Summaries, k), rows[i].summary
  PROVE  AfterSecondSummary(k)
<1> DEFINE m == rows[k].meter
<1>1. /\ Len(rows) \in Nat /\ DOMAIN rows = 1 .. Len(rows) /\ k \in 1 .. Len(rows) /\ k \in Nat
      /\ rows[k].kind = "answer"
  BY NumbersOfRows DEF Answers
<1>2. i \in Requesting(DOMAIN rows, m) /\ i < k /\ i \in Nat
  BY <1>1 DEF PossibleOwners, MayOwn, Requesting, Runs
<1>3. \A s \in Closed(DOMAIN rows, i) : k < s
  <2>1. \A s \in Closed(DOMAIN rows, i) : s \in Summaries /\ rows[s].run = i
    BY DEF Closed, Summaries
  <2>2. MayOwn(Summaries, i, k)
    BY DEF PossibleOwners
  <2> QED
    BY <2>1, <2>2 DEF MayOwn
\* A run that cannot take the answer has been requested again or closed.
<1>4. ASSUME NEW j \in Requesting(DOMAIN rows, m), j < k
      PROVE  \E x \in Superseding(DOMAIN rows, j, m) \cup Closed(DOMAIN rows, j) : x < k
  <2>1. PICK x \in Superseding(DOMAIN rows, j, m) \cup Closed(DOMAIN rows, j) : ~(k < x)
    BY <1>4 DEF Takers
  <2>2. x \in DOMAIN rows /\ rows[x].kind \in {"run", "summary"}
    BY <2>1 DEF Superseding, Requesting, Runs, Closed
  <2>3. x # k /\ x \in Nat
    BY <1>1, <2>2
  <2> QED
    BY <1>1, <2>1, <2>3
<1>5. PICK x \in Superseding(DOMAIN rows, i, m) : x < k
  BY <1>1, <1>2, <1>3, <1>4 DEF Closed
<1> DEFINE later == {j \in Requesting(DOMAIN rows, m) : i < j /\ j < k}
<1>6. x \in later /\ later \in SUBSET Nat /\ \A y \in later : y <= k
  BY <1>1, <1>5 DEF Superseding, Requesting, Runs
<1> DEFINE j == Max(later)
<1>7. j \in later /\ \A y \in later : y <= j
  <2> HIDE DEF later
  <2> QED
    BY <1>1, <1>6, HasLast
<1>8. j \in Requesting(DOMAIN rows, m) /\ i < j /\ j < k /\ j \in Nat
  BY <1>6, <1>7
<1>9. \A y \in Requesting(DOMAIN rows, m) : i < y /\ y < k => y <= j
  BY <1>7
<1> HIDE DEF later, j
<1>10. PICK y \in Superseding(DOMAIN rows, j, m) \cup Closed(DOMAIN rows, j) : y < k
  BY <1>4, <1>8
<1>11. y \in Closed(DOMAIN rows, j)
  <2> SUFFICES ASSUME y \in Superseding(DOMAIN rows, j, m) PROVE FALSE
    BY <1>10
  <2>1. y \in Requesting(DOMAIN rows, m) /\ j < y /\ y \in Nat
    BY <1>1 DEF Superseding, Requesting, Runs
  <2> QED
    BY <1>2, <1>8, <1>9, <1>10, <2>1
<1>12. i \in Requesting(1 .. k, m) /\ j \in Requesting(1 .. k, m)
  BY <1>1, <1>2, <1>8 DEF Requesting, Runs
<1>13. x \in Superseding(1 .. k, i, m)
  BY <1>1, <1>5 DEF Superseding, Requesting, Runs
<1>14. y \in Closed(1 .. k, j)
  BY <1>1, <1>10, <1>11 DEF Closed
<1>15. Closed(1 .. k, i) = {}
  <2> SUFFICES ASSUME NEW s \in Closed(1 .. k, i) PROVE FALSE
    OBVIOUS
  <2>1. s \in 1 .. k /\ s \in Closed(DOMAIN rows, i)
    BY <1>1 DEF Closed
  <2> QED
    BY <1>1, <1>3, <2>1
<1> QED
  BY <1>8, <1>12, <1>13, <1>14, <1>15 DEF AfterSecondSummary

\* A run with a summary takes answers until its Deadline only, so the list can
\* take it for the owner, too, unless it is due.
LEMMA OwnerMayOwn ==
  ASSUME EnergyBase, ClosedInTime, NEW k \in Answers(DOMAIN rows), NEW i \in Takers(DOMAIN rows, k),
         IF rows[i].summary THEN Closed(DOMAIN rows, i) # {} \/ Age(i) < Deadline
         ELSE ~(rows[i].at + CollapseWindow < rows[k].at)
  PROVE  i \in PossibleOwners(Runs(DOMAIN rows), Summaries, k)
<1>1. /\ i \in Requesting(DOMAIN rows, rows[k].meter) /\ i < k
      /\ \A s \in Closed(DOMAIN rows, i) : k < s
  BY DEF Takers
<1>2. /\ i \in Runs(DOMAIN rows) /\ i \in DOMAIN rows /\ k \in DOMAIN rows /\ rows[k].meter \in DOMAIN rows[i].periods
      /\ rows[i].at \in Nat /\ rows[k].at \in Nat /\ rows[k].at <= clock /\ clock \in Nat
      /\ Deadline \in Nat /\ LockWindow \in Nat /\ CollapseWindow = Deadline + LockWindow
  BY <1>1, NumbersOfRows DEF Requesting, Runs, Answers, CollapseWindow
<1>3. rows[k].at <= rows[i].at + CollapseWindow
  <2>1. CASE ~rows[i].summary
    BY <1>2, <2>1
  <2>2. CASE rows[i].summary /\ rows[i].at + Deadline < clock
    <3>1. PICK s \in DOMAIN rows : rows[s].kind = "summary" /\ rows[s].run = i /\ rows[s].at <= rows[i].at + Deadline
      BY <1>2, <2>2 DEF ClosedInTime
    <3>2. k < s
      BY <1>1, <3>1 DEF Closed
    <3>3. s \in Nat /\ k \in Nat /\ rows[s].at \in Nat
      BY <1>2, <3>1, NumbersOfRows
    <3>4. rows[k].at <= rows[s].at
      BY <1>2, <3>1, <3>2, <3>3 DEF EnergyBase, TimesInOrder
    <3> QED
      BY <1>2, <3>1, <3>3, <3>4
  <2>3. CASE ~(rows[i].at + Deadline < clock)
    BY <1>2, <2>3
  <2> QED
    BY <2>1, <2>2, <2>3
<1>4. rows[k].at - rows[i].at <= CollapseWindow
  BY <1>2, <1>3
<1>5. rows[i].summary =>
        IF \E s \in Summaries : rows[s].run = i
          THEN \A s \in Summaries : rows[s].run = i => k < s
          ELSE Age(i) < Deadline
  BY <1>1 DEF Summaries, Closed
<1>6. MayOwn(Summaries, i, k)
  BY <1>1, <1>4, <1>5 DEF MayOwn
<1> QED
  BY <1>2, <1>6 DEF PossibleOwners

\* An answer that the list leaves out is counted by a live entry or a summary of
\* the listed tenant, or it is one of the three kinds on which the list and the
\* attribution of the summaries differ.
THEOREM LeftOutAnswersCount == EnergySpec => []LeftOutIsCounted
<1>1. EnergyBase /\ SummaryInv /\ ClosedInTime => LeftOutIsCounted
  <2> SUFFICES ASSUME EnergyBase, ClosedInTime, NEW t \in ListedTenants, NEW k \in WholeReading(t, Listed).left
               PROVE  IF Owners(DOMAIN rows)[k] = 0 THEN AfterSecondSummary(k)
                      ELSE \/ Owners(DOMAIN rows)[k] \in Live(t)
                           \/ /\ Own(t, Owners(DOMAIN rows)[k])
                              /\ \/ Closed(DOMAIN rows, Owners(DOMAIN rows)[k]) # {}
                                 \/ Age(Owners(DOMAIN rows)[k]) >= Deadline
                           \/ DueElsewhere(t, Owners(DOMAIN rows)[k])
                           \/ UnansweredSingle(Owners(DOMAIN rows)[k], k)
    BY DEF LeftOutIsCounted
  <2> DEFINE possible == PossibleOwners(Runs(DOMAIN rows), Summaries, k)
  <2>1. k \in Answers(DOMAIN rows) /\ possible # {} /\ \A i \in possible : Own(t, i)
    BY DEF WholeReading, Hide, Listed, Answers
  <2> HIDE DEF possible
  <2>2. CASE Owners(DOMAIN rows)[k] = 0
    <3>1. Takers(DOMAIN rows, k) = {}
      BY <2>1, <2>2, NobodyTakes
    <3>2. PICK i \in possible : rows[i].summary
      BY <2>1 DEF Own
    <3> QED
      BY <2>1, <2>2, <3>1, <3>2, OwnerlessLeftOut DEF possible
  <2>3. CASE Owners(DOMAIN rows)[k] # 0
    <3> DEFINE i == Owners(DOMAIN rows)[k]
    <3>1. i \in Takers(DOMAIN rows, k)
      BY <2>1, <2>3, OwnerTakes DEF EnergyBase
    <3> HIDE DEF i
    <3> SUFFICES \/ i \in Live(t)
                 \/ Own(t, i) /\ (Closed(DOMAIN rows, i) # {} \/ Age(i) >= Deadline)
                 \/ DueElsewhere(t, i)
                 \/ UnansweredSingle(i, k)
      BY <2>3 DEF i
    <3>2. /\ i \in Runs(DOMAIN rows) /\ i \in DOMAIN rows /\ rows[i].at \in Nat /\ clock \in Nat
          /\ Deadline \in Nat /\ LockWindow \in Nat /\ View \in SUBSET DOMAIN rows
      BY <3>1, NumbersOfRows DEF Takers, Requesting, Runs
    <3>3. CASE i \in possible
      <4>1. Own(t, i)
        BY <2>1, <3>3
      <4>2. CASE Closed(DOMAIN rows, i) = {} /\ Age(i) < Deadline
        <5>1. Open(i)
          BY <3>2, <4>1, <4>2 DEF Open, Own, Closed
        <5>2. i \in Runs(View)
          BY <3>2, <4>2 DEF Runs, View, LookBack, Age
        <5> QED
          BY <4>1, <4>2, <5>1, <5>2 DEF Live
      <4>3. CASE ~(Age(i) < Deadline)
        BY <3>2, <4>1, <4>3 DEF Age
      <4> QED
        BY <4>1, <4>2, <4>3
    <3>4. CASE i \notin possible
      <4>1. ~(IF rows[i].summary THEN Closed(DOMAIN rows, i) # {} \/ Age(i) < Deadline
              ELSE ~(rows[i].at + CollapseWindow < rows[k].at))
        BY <2>1, <3>1, <3>4, OwnerMayOwn DEF possible
      <4>2. CASE ~rows[i].summary
        BY <4>1, <4>2 DEF UnansweredSingle
      <4>3. CASE rows[i].summary
        <5>1. Closed(DOMAIN rows, i) = {} /\ Age(i) >= Deadline
          BY <3>2, <4>1, <4>3 DEF Age
        <5>2. Open(i)
          BY <3>2, <4>3, <5>1 DEF Open, Closed
        <5> QED
          BY <4>3, <5>1, <5>2 DEF DueElsewhere
      <4> QED
        BY <4>2, <4>3
    <3> QED
      BY <3>3, <3>4
  <2> QED
    BY <2>2, <2>3
<1> QED
  BY <1>1, EnergyBaseInvariance, SummaryInvariance, ClosedInvariance, PTL

-----------------------------------------------------------------------------
(* The newest rows of a set. *)

LEMMA NewestAreLast ==
  ASSUME NEW S \in SUBSET Nat, NEW top \in Nat, \A y \in S : y <= top, NEW n \in Nat
  PROVE  /\ Newest(S, n) \subseteq S /\ IsFiniteSet(Newest(S, n))
         /\ \A k \in Newest(S, n), j \in S : k <= j => j \in Newest(S, n)
         /\ Newest(S, n) = S \/ Cardinality(Newest(S, n)) >= n
         /\ Cardinality(Newest(S, n)) \in Nat /\ Cardinality(Newest(S, n)) <= n
<1> DEFINE Later(k) == {j \in S : j > k}
<1>0. IsFiniteSet(S)
  BY FS_BoundedSetOfNaturals
<1>1. \A k \in S : IsFiniteSet(Later(k)) /\ Cardinality(Later(k)) \in Nat
  <2> TAKE k \in S
  <2>1. Later(k) \in SUBSET S
    OBVIOUS
  <2> QED
    BY <1>0, <2>1, FS_Subset, FS_CardinalityType
<1>2. Newest(S, n) = {k \in S : Cardinality(Later(k)) < n}
  BY DEF Newest
<1>3. ASSUME NEW k \in Newest(S, n), NEW j \in S, k <= j
      PROVE  j \in Newest(S, n)
  <2>1. k \in S /\ k \in Nat /\ j \in Nat
    BY <1>2
  <2>2. Later(j) \in SUBSET Later(k)
    <3>1. \A x \in Nat : x > j => x > k
      BY <1>3, <2>1
    <3> QED
      BY <3>1
  <2>3. Cardinality(Later(j)) <= Cardinality(Later(k))
    BY <1>1, <2>1, <2>2, FS_Subset
  <2> HIDE DEF Later
  <2> QED
    BY <1>1, <1>2, <2>1, <2>3
<1>4. ASSUME Newest(S, n) # S
      PROVE  Cardinality(Newest(S, n)) >= n
  <2> DEFINE rest == S \ Newest(S, n)
  <2>1. rest \in SUBSET Nat /\ rest # {}
    BY <1>2, <1>4
  <2>2. \A y \in rest : y <= top
    OBVIOUS
  <2> DEFINE k == Max(rest)
  <2>3. k \in rest /\ \A y \in rest : y <= k
    <3> HIDE DEF rest
    <3> QED
      BY <2>1, <2>2, HasLast
  <2>4. k \in S /\ k \notin Newest(S, n)
    BY <2>3
  <2>5. \A j \in S : j > k => j \in Newest(S, n)
    BY <2>1, <2>3
  <2> HIDE DEF k, rest
  <2>6. Later(k) \in SUBSET Newest(S, n)
    BY <2>5
  <2>7. IsFiniteSet(Newest(S, n))
    BY <1>0, <1>2, FS_Subset
  <2>8. Cardinality(Later(k)) <= Cardinality(Newest(S, n)) /\ Cardinality(Newest(S, n)) \in Nat
    BY <2>6, <2>7, FS_Subset, FS_CardinalityType
  <2>9. ~(Cardinality(Later(k)) < n)
    BY <1>2, <2>4
  <2> HIDE DEF Later
  <2> QED
    BY <1>1, <2>4, <2>8, <2>9
<1>5. Newest(S, n) \subseteq S
  BY <1>2
<1>6. IsFiniteSet(Newest(S, n)) /\ Cardinality(Newest(S, n)) \in Nat
  BY <1>0, <1>5, FS_Subset, FS_CardinalityType
<1>7. Cardinality(Newest(S, n)) <= n
  <2>1. CASE Newest(S, n) = {}
    BY <2>1, FS_EmptySet
  <2>2. CASE Newest(S, n) # {}
    <3> DEFINE k == Min(Newest(S, n))
    <3>1. Newest(S, n) \in SUBSET Nat
      BY <1>5
    <3>2. k \in Newest(S, n) /\ \A y \in Newest(S, n) : k <= y
      BY <2>2, <3>1, HasFirst
    <3> HIDE DEF k
    <3>3. k \in S /\ Cardinality(Later(k)) < n
      BY <1>2, <3>2
    <3>4. \A y \in Newest(S, n) : y = k \/ y > k
      BY <3>1, <3>2
    <3>5. Newest(S, n) \in SUBSET (Later(k) \cup {k})
      BY <1>5, <3>4
    <3>6. k \notin Later(k)
      BY <3>3
    <3> HIDE DEF Later
    <3>7. IsFiniteSet(Later(k) \cup {k}) /\ Cardinality(Later(k) \cup {k}) = Cardinality(Later(k)) + 1
      BY <1>1, <3>3, <3>6, FS_AddElement
    <3>8. IsFiniteSet(Later(k) \cup {k})
      BY <3>7
    <3>9. Cardinality(Newest(S, n)) <= Cardinality(Later(k) \cup {k})
      BY <3>5, <3>8, FS_Subset
    <3> QED
      BY <1>1, <1>6, <3>3, <3>7, <3>9
  <2> QED
    BY <2>1, <2>2
<1> QED
  BY <1>3, <1>4, <1>5, <1>6, <1>7

\* Of two sets, one above the other, the newest rows are the upper ones and
\* then the newest of the others.
LEMMA NewestJoins ==
  ASSUME NEW A \in SUBSET Nat, NEW B \in SUBSET Nat, NEW top \in Nat, \A y \in A \cup B : y <= top,
         \A a \in A, b \in B : b < a, NEW n \in Nat, Cardinality(A) <= n
  PROVE  Newest(A \cup B, n) = A \cup Newest(B, n - Cardinality(A))
<1>1. IsFiniteSet(A) /\ IsFiniteSet(B) /\ Cardinality(A) \in Nat
  BY FS_BoundedSetOfNaturals, FS_CardinalityType
<1>2. ASSUME NEW a \in A
      PROVE  Cardinality({j \in A \cup B : j > a}) < n
  <2> DEFINE L == {j \in A \cup B : j > a}
  <2>1. L \in SUBSET (A \ {a})
    <3> SUFFICES ASSUME NEW j \in A \cup B, j > a PROVE j \in A \ {a}
      OBVIOUS
    <3>1. j \notin B
      <4> SUFFICES ASSUME j \in B PROVE FALSE
        OBVIOUS
      <4>1. j < a /\ j \in Nat /\ a \in Nat
        OBVIOUS
      <4> QED
        BY <4>1
    <3> QED
      BY <3>1
  <2>2. IsFiniteSet(A \ {a}) /\ Cardinality(A \ {a}) = Cardinality(A) - 1
    BY <1>1, FS_RemoveElement
  <2> HIDE DEF L
  <2>3. IsFiniteSet(A \ {a})
    BY <2>2
  <2>4. IsFiniteSet(L) /\ Cardinality(L) <= Cardinality(A \ {a})
    BY <2>1, <2>3, FS_Subset
  <2>5. Cardinality(L) \in Nat
    BY <2>4, FS_CardinalityType
  <2>6. Cardinality(L) < n
    BY <1>1, <2>2, <2>4, <2>5
  <2> QED
    BY <2>6 DEF L
<1>3. ASSUME NEW b \in B
      PROVE  Cardinality({j \in A \cup B : j > b}) = Cardinality(A) + Cardinality({j \in B : j > b})
  <2> DEFINE L == {j \in B : j > b}
  <2>1. {j \in A \cup B : j > b} = A \cup L
    <3>1. \A j \in A : j > b
      <4> TAKE j \in A
      <4>1. b < j /\ j \in Nat /\ b \in Nat
        OBVIOUS
      <4> QED
        BY <4>1
    <3> QED
      BY <3>1
  <2>2. A \cap L = {}
    <3> SUFFICES ASSUME NEW j \in A, j \in B PROVE FALSE
      OBVIOUS
    <3>1. j < j /\ j \in Nat
      OBVIOUS
    <3> QED
      BY <3>1
  <2>3. L \in SUBSET B
    OBVIOUS
  <2> HIDE DEF L
  <2>4. IsFiniteSet(L) /\ Cardinality(L) \in Nat
    BY <1>1, <2>3, FS_Subset, FS_CardinalityType
  <2>5. Cardinality(A \cup L) = Cardinality(A) + Cardinality(L) - Cardinality(A \cap L)
    BY <1>1, <2>4, FS_Union
  <2>6. Cardinality(A \cap L) = 0
    BY <2>2, FS_EmptySet
  <2>7. Cardinality(A \cup L) = Cardinality(A) + Cardinality(L)
    BY <1>1, <2>4, <2>5, <2>6
  <2> QED
    BY <2>1, <2>7 DEF L
<1>4. \A b \in B : Cardinality({j \in B : j > b}) \in Nat
  <2> TAKE b \in B
  <2>1. {j \in B : j > b} \in SUBSET B
    OBVIOUS
  <2> QED
    BY <1>1, <2>1, FS_Subset, FS_CardinalityType
<1>5. \A b \in B : Cardinality({j \in A \cup B : j > b}) < n <=> Cardinality({j \in B : j > b}) < n - Cardinality(A)
  BY <1>1, <1>3, <1>4
<1>6. Newest(A \cup B, n) = {k \in A : Cardinality({j \in A \cup B : j > k}) < n}
                              \cup {k \in B : Cardinality({j \in A \cup B : j > k}) < n}
  BY DEF Newest
<1>7. {k \in B : Cardinality({j \in A \cup B : j > k}) < n} = Newest(B, n - Cardinality(A))
  BY <1>5 DEF Newest
<1>8. {k \in A : Cardinality({j \in A \cup B : j > k}) < n} = A
  BY <1>2
<1> QED
  BY <1>6, <1>7, <1>8

-----------------------------------------------------------------------------
(* What the batches know. *)

\* The runs that are close enough to answer k to be asked about.
Near(k) == {i \in Runs(DOMAIN rows) : i < k /\ rows[i].at + CollapseWindow >= rows[k].at}

\* Who may own an answer is decided with its near runs, and the summaries since
\* the oldest of them, as with all.
LEMMA OwnersKnown ==
  ASSUME EnergyBase, SummariesLater, NEW k \in Answers(DOMAIN rows),
         NEW runs \in SUBSET Runs(DOMAIN rows), Near(k) \subseteq runs,
         NEW from \in Nat, \A i \in runs : from <= i
  PROVE  PossibleOwners(runs, {s \in Summaries : from <= s}, k) = PossibleOwners(Runs(DOMAIN rows), Summaries, k)
<1> DEFINE summaries == {s \in Summaries : from <= s}
<1>1. \A i \in DOMAIN rows : i \in Nat /\ rows[i].at \in Nat
  BY NumbersOfRows
<1>2. CollapseWindow \in Nat
  BY NumbersOfRows DEF CollapseWindow
<1>3. ASSUME NEW i \in runs, NEW s \in Summaries, rows[s].run = i
      PROVE  s \in summaries
  <2>1. i < s /\ from <= i /\ i \in DOMAIN rows /\ s \in DOMAIN rows
    BY <1>3 DEF SummariesLater, Summaries, Runs
  <2>2. i \in Nat /\ s \in Nat
    BY <1>1, <2>1
  <2> QED
    BY <2>1, <2>2
<1>4. summaries \subseteq Summaries
  OBVIOUS
<1> HIDE DEF summaries
<1>5. \A i \in runs : MayOwn(summaries, i, k) <=> MayOwn(Summaries, i, k)
  <2> TAKE i \in runs
  <2>1. \A s : s \in summaries /\ rows[s].run = i <=> s \in Summaries /\ rows[s].run = i
    BY <1>3, <1>4
  <2> QED
    BY <2>1 DEF MayOwn
<1>6. \A i \in Runs(DOMAIN rows) : MayOwn(Summaries, i, k) => i \in runs
  <2> SUFFICES ASSUME NEW i \in Runs(DOMAIN rows), MayOwn(Summaries, i, k) PROVE i \in runs
    OBVIOUS
  <2>1. i < k /\ rows[k].at - rows[i].at <= CollapseWindow
    BY DEF MayOwn
  <2>2. rows[k].at \in Nat /\ rows[i].at \in Nat
    BY <1>1 DEF Runs, Answers
  <2>3. rows[i].at + CollapseWindow >= rows[k].at
    BY <1>2, <2>1, <2>2
  <2> QED
    BY <2>1, <2>3 DEF Near
<1> QED
  BY <1>5, <1>6 DEF PossibleOwners, summaries

From(S, b) == {k \in S : k >= b}

LeftOut(t, stored) == WholeReading(t, stored).left
Visible(t, stored) == WholeReading(t, stored).visible

\* What has been read: of the rows from before on everything is known, and the
\* newest PageSize that are not left out are on the page.
ReadingInv(t, stored, r) ==
  /\ r.before \in Nat /\ r.summariesFrom \in Nat /\ r.more \in BOOLEAN
  /\ r.runs \subseteq Runs(DOMAIN rows) /\ \A i \in r.runs : r.summariesFrom <= i
  /\ r.summaries = {s \in Summaries : r.summariesFrom <= s}
  /\ \A k \in From(stored, r.before) : rows[k].kind = "answer" => Near(k) \subseteq r.runs
  /\ r.left = From(LeftOut(t, stored), r.before)
  /\ r.visible = Newest(From(Visible(t, stored), r.before), PageSize)
  /\ r.more => Cardinality(r.visible) < PageSize
  /\ r.more \/ Cardinality(r.visible) >= PageSize \/ From(stored, r.before) = stored

ListParts(t, stored) ==
  /\ stored \in SUBSET Nat /\ stored \subseteq DOMAIN rows /\ \A k \in stored : k <= Len(rows)
  /\ LeftOut(t, stored) = {k \in stored : /\ rows[k].kind = "answer"
       /\ PossibleOwners(Runs(DOMAIN rows), Summaries, k) # {}
       /\ \A i \in PossibleOwners(Runs(DOMAIN rows), Summaries, k) : Own(t, i)}
  /\ Visible(t, stored) = stored \ LeftOut(t, stored)
  /\ LeftOut(t, stored) \subseteq stored /\ Visible(t, stored) \subseteq stored
  /\ Len(rows) \in Nat
  /\ PageSize \in Nat \ {0} /\ FirstBatch \in Nat \ {0} /\ Batch \in Nat \ {0} /\ MaxBatches \in Nat \ {0}

LEMMA ListHasParts ==
  ASSUME EnergyBase, NEW t, NEW stored \in SUBSET Listed
  PROVE  ListParts(t, stored)
<1>1. \A k \in stored : k \in DOMAIN rows
  BY DEF Listed
<1>2. PageSize \in Nat \ {0} /\ FirstBatch \in Nat \ {0} /\ Batch \in Nat \ {0} /\ MaxBatches \in Nat \ {0}
  BY PageAssumption
<1>3. stored \in SUBSET Nat /\ stored \subseteq DOMAIN rows /\ \A k \in stored : k <= Len(rows)
  BY <1>1, NumbersOfRows
<1>4. /\ LeftOut(t, stored) = {k \in stored : /\ rows[k].kind = "answer"
              /\ PossibleOwners(Runs(DOMAIN rows), Summaries, k) # {}
              /\ \A i \in PossibleOwners(Runs(DOMAIN rows), Summaries, k) : Own(t, i)}
      /\ Visible(t, stored) = stored \ LeftOut(t, stored)
  BY DEF LeftOut, Visible, WholeReading, Hide
<1> QED
  <2>1. Len(rows) \in Nat
    BY NumbersOfRows
  <2>2. LeftOut(t, stored) \subseteq stored /\ Visible(t, stored) \subseteq stored
    BY <1>4
  <2> QED
    BY <1>2, <1>3, <1>4, <2>1, <2>2 DEF ListParts

LEMMA NothingRead ==
  ASSUME EnergyBase, NEW stored \in SUBSET Listed, NEW t
  PROVE  ReadingInv(t, stored, FirstReading)
<1> DEFINE r == FirstReading
<1>1. /\ r.before = Len(rows) + 1 /\ r.summariesFrom = Len(rows) + 1 /\ r.more = TRUE
      /\ r.runs = {} /\ r.summaries = {} /\ r.left = {} /\ r.visible = {}
  BY DEF FirstReading
<1> HIDE DEF r
<1>2. /\ stored \in SUBSET Nat /\ \A k \in stored : k <= Len(rows)
      /\ LeftOut(t, stored) \subseteq stored /\ Visible(t, stored) \subseteq stored
      /\ Len(rows) \in Nat /\ PageSize \in Nat \ {0}
  <2>1. ListParts(t, stored)
    BY ListHasParts
  <2> QED
    BY <2>1 DEF ListParts
<1>3. \A S \in SUBSET stored : From(S, r.before) = {}
  <2> SUFFICES ASSUME NEW S \in SUBSET stored, NEW k \in From(S, r.before) PROVE FALSE
    OBVIOUS
  <2>1. k \in Nat /\ k <= Len(rows) /\ k >= Len(rows) + 1
    BY <1>1, <1>2 DEF From
  <2> QED
    BY <1>2, <2>1
<1>4. From(stored, r.before) = {} /\ From(LeftOut(t, stored), r.before) = {} /\ From(Visible(t, stored), r.before) = {}
  BY <1>2, <1>3
<1>5. Newest({}, PageSize) = {}
  BY DEF Newest
<1>6. \A s \in Summaries : ~(Len(rows) + 1 <= s)
  <2> SUFFICES ASSUME NEW s \in Summaries PROVE ~(Len(rows) + 1 <= s)
    OBVIOUS
  <2>1. s \in Nat /\ s <= Len(rows)
    BY NumbersOfRows DEF Summaries
  <2> QED
    BY <1>2, <2>1
<1>7. Cardinality({}) < PageSize
  BY <1>2, FS_EmptySet
<1>8. r.summaries = {s \in Summaries : r.summariesFrom <= s}
  BY <1>1, <1>6
<1>9. r.visible = Newest(From(Visible(t, stored), r.before), PageSize) /\ Cardinality(r.visible) < PageSize
  BY <1>1, <1>4, <1>5, <1>7
<1>10. r.before \in Nat /\ r.summariesFrom \in Nat /\ r.more \in BOOLEAN
  <2>1. r.more \in BOOLEAN
    BY <1>1
  <2> QED
    BY <1>1, <1>2, <2>1
<1>11. ReadingInv(t, stored, r)
  BY <1>1, <1>4, <1>8, <1>9, <1>10 DEF ReadingInv
<1> QED
  BY <1>11 DEF r

\* A batch adds the next rows to what is known.
LEMMA BatchRead ==
  ASSUME EnergyBase, SummariesLater, NEW t, NEW stored \in SUBSET Listed, NEW r, ReadingInv(t, stored, r),
         r.more, NEW size \in Nat \ {0}
  PROVE  ReadingInv(t, stored, ReadBatch(t, stored, r, size))
<1>1. /\ stored \in SUBSET Nat /\ stored \subseteq DOMAIN rows /\ \A k \in stored : k <= Len(rows)
      /\ LeftOut(t, stored) = {k \in stored : /\ rows[k].kind = "answer"
              /\ PossibleOwners(Runs(DOMAIN rows), Summaries, k) # {}
              /\ \A i \in PossibleOwners(Runs(DOMAIN rows), Summaries, k) : Own(t, i)}
      /\ Visible(t, stored) = stored \ LeftOut(t, stored)
      /\ LeftOut(t, stored) \subseteq stored /\ Visible(t, stored) \subseteq stored
      /\ Len(rows) \in Nat /\ PageSize \in Nat \ {0}
  <2>1. ListParts(t, stored)
    BY ListHasParts
  <2> QED
    BY <2>1 DEF ListParts
<1> DEFINE unread == {k \in stored : k < r.before}
           batch == Newest(unread, size)
           messages == {k \in batch : rows[k].kind = "answer"}
           read == IF messages = {} THEN {} ELSE RunsRead(messages)
           from == Min(read \cup {r.summariesFrom})
           runs == r.runs \cup read
           summaries == r.summaries \cup {s \in Summaries : from <= s /\ s < r.summariesFrom}
           left == Hide(t, runs, summaries, messages)
           visible == r.visible \cup Newest(batch \ left, PageSize - Cardinality(r.visible))
           q == ReadBatch(t, stored, r, size)
           before == Min(batch \cup {r.before})
<1>2. /\ q.before = before /\ q.visible = visible /\ q.left = r.left \cup left /\ q.runs = runs
      /\ q.summaries = summaries /\ q.summariesFrom = from
      /\ q.more = (Cardinality(batch) = size /\ Cardinality(visible) < PageSize)
  BY DEF ReadBatch
<1> HIDE DEF q
<1>3. /\ r.before \in Nat /\ r.summariesFrom \in Nat
      /\ r.runs \subseteq Runs(DOMAIN rows) /\ \A i \in r.runs : r.summariesFrom <= i
      /\ r.summaries = {s \in Summaries : r.summariesFrom <= s}
      /\ \A k \in From(stored, r.before) : rows[k].kind = "answer" => Near(k) \subseteq r.runs
      /\ r.left = From(LeftOut(t, stored), r.before)
      /\ r.visible = Newest(From(Visible(t, stored), r.before), PageSize)
      /\ Cardinality(r.visible) < PageSize
  BY DEF ReadingInv
<1>4. \A i \in DOMAIN rows : i \in Nat /\ rows[i].at \in Nat
  BY NumbersOfRows
\* The rows of the batch.
<1>5. unread \in SUBSET Nat /\ \A k \in unread : k \in stored /\ k < r.before /\ k <= Len(rows)
  BY <1>1
<1>6. /\ batch \subseteq unread /\ \A k \in batch, j \in unread : k <= j => j \in batch
      /\ batch = unread \/ Cardinality(batch) >= size
      /\ Cardinality(batch) \in Nat /\ Cardinality(batch) <= size
  <2> HIDE DEF unread
  <2> QED
    BY <1>1, <1>5, NewestAreLast
<1>7. batch \in SUBSET Nat /\ \A k \in batch : k \in stored /\ k < r.before
  BY <1>5, <1>6
<1> HIDE DEF batch
<1>8. before \in batch \cup {r.before} /\ before \in Nat /\ before <= r.before /\ \A k \in batch : before <= k
  <2>1. (batch \cup {r.before}) \in SUBSET Nat /\ batch \cup {r.before} # {}
    BY <1>3, <1>7
  <2> QED
    BY <2>1, HasFirst
<1> HIDE DEF before
<1>9. \A k \in stored : k >= before <=> k \in batch \/ k >= r.before
  <2> TAKE k \in stored
  <2>1. k \in Nat
    BY <1>1
  <2>2. k \in batch \/ k >= r.before => k >= before
    BY <1>3, <1>7, <1>8, <2>1
  <2>3. ASSUME k >= before, k < r.before PROVE k \in batch
    <3>1. before \in batch
      BY <1>3, <1>8, <2>1, <2>3
    <3>2. k \in unread
      BY <2>3
    <3> QED
      BY <1>6, <1>8, <2>1, <2>3, <3>1, <3>2
  <2> QED
    BY <1>3, <2>1, <2>2, <2>3
<1>10. batch = unread => From(stored, before) = stored
  <2> SUFFICES ASSUME batch = unread, NEW k \in stored PROVE k >= before
    BY DEF From
  <2>1. k \in Nat
    BY <1>1
  <2> QED
    BY <1>3, <1>9, <2>1
<1> HIDE DEF unread
\* Runs and summaries.
<1>11. messages \in SUBSET Nat /\ messages \subseteq batch /\ messages \subseteq Answers(DOMAIN rows)
       /\ \A k \in messages : k \in DOMAIN rows /\ k <= Len(rows)
  BY <1>1, <1>7 DEF Answers
<1> HIDE DEF messages
<1>12. read \subseteq Runs(DOMAIN rows) /\ \A k \in messages : Near(k) \subseteq read
  <2>1. CASE messages = {}
    BY <2>1
  <2>2. CASE messages # {}
    <3>1. /\ Min(messages) \in messages /\ \A k \in messages : Min(messages) <= k
          /\ Max(messages) \in messages /\ \A k \in messages : k <= Max(messages)
      BY <1>1, <1>11, <2>2, HasFirst, HasLast
    <3>2. ASSUME NEW k \in messages, NEW i \in Near(k)
          PROVE  i \in RunsRead(messages)
      <4>1. i \in Runs(DOMAIN rows) /\ i < k /\ rows[i].at + CollapseWindow >= rows[k].at
        BY DEF Near
      <4>2. i \in Nat /\ k \in Nat /\ Max(messages) \in Nat /\ k <= Max(messages)
        BY <1>4, <1>11, <3>1, <4>1 DEF Runs
      <4>3. rows[Min(messages)].at <= rows[k].at
        BY <1>11, <3>1 DEF EnergyBase, TimesInOrder
      <4>4. rows[Min(messages)].at \in Nat /\ rows[k].at \in Nat /\ rows[i].at \in Nat /\ CollapseWindow \in Nat
        <5>1. Min(messages) \in DOMAIN rows /\ k \in DOMAIN rows /\ i \in DOMAIN rows
          BY <1>11, <3>1, <4>1 DEF Runs
        <5>2. CollapseWindow \in Nat
          BY NumbersOfRows DEF CollapseWindow
        <5> QED
          BY <1>4, <5>1, <5>2
      <4>5. i < Max(messages)
        BY <4>1, <4>2
      <4>6. rows[i].at + CollapseWindow >= rows[Min(messages)].at
        BY <4>1, <4>3, <4>4
      <4> QED
        BY <4>1, <4>5, <4>6 DEF RunsRead
    <3> QED
      BY <2>2, <3>2 DEF RunsRead
  <2> QED
    BY <2>1, <2>2
<1> HIDE DEF read
<1>13. from \in Nat /\ from <= r.summariesFrom /\ \A i \in read : from <= i
  <2>1. (read \cup {r.summariesFrom}) \in SUBSET Nat /\ read \cup {r.summariesFrom} # {}
    BY <1>3, <1>4, <1>12 DEF Runs
  <2>2. from \in read \cup {r.summariesFrom} /\ \A i \in read \cup {r.summariesFrom} : from <= i
    BY <2>1, HasFirst
  <2> QED
    BY <2>1, <2>2
<1> HIDE DEF from
<1>14. runs \subseteq Runs(DOMAIN rows) /\ \A i \in runs : from <= i
  <2> SUFFICES ASSUME NEW i \in runs PROVE i \in Runs(DOMAIN rows) /\ from <= i
    OBVIOUS
  <2>1. i \in Runs(DOMAIN rows)
    BY <1>3, <1>12
  <2>2. i \in Nat
    BY <1>4, <2>1 DEF Runs
  <2> QED
    BY <1>3, <1>13, <2>1, <2>2
<1>15. summaries = {s \in Summaries : from <= s}
  <2>1. \A s \in Summaries : s \in Nat
    BY <1>4 DEF Summaries
  <2>2. \A s \in Summaries : from <= s <=> r.summariesFrom <= s \/ (from <= s /\ s < r.summariesFrom)
    BY <1>3, <1>13, <2>1
  <2> QED
    BY <1>3, <2>2
<1>16. r.runs \subseteq runs /\ read \subseteq runs
  OBVIOUS
<1> HIDE DEF runs, summaries
\* What is left out.
<1>17. left = {k \in batch : k \in LeftOut(t, stored)}
  <2>1. ASSUME NEW k \in messages
        PROVE  PossibleOwners(runs, summaries, k) = PossibleOwners(Runs(DOMAIN rows), Summaries, k)
    <3>1. k \in Answers(DOMAIN rows) /\ Near(k) \subseteq runs
      BY <1>11, <1>12, <1>16
    <3> QED
      BY <1>13, <1>14, <1>15, <3>1, OwnersKnown
  <2>2. left = {k \in messages : /\ PossibleOwners(Runs(DOMAIN rows), Summaries, k) # {}
                                 /\ \A i \in PossibleOwners(Runs(DOMAIN rows), Summaries, k) : Own(t, i)}
    <3>1. \A k \in messages : rows[k].kind = "answer"
      BY <1>11 DEF Answers
    <3> QED
      BY <2>1, <3>1 DEF Hide
  <2> QED
    BY <1>1, <1>7, <2>2 DEF messages
<1> HIDE DEF left
<1>18. r.left \cup left = From(LeftOut(t, stored), before)
  BY <1>1, <1>3, <1>7, <1>9, <1>17 DEF From
\* What is visible.
<1> DEFINE A == From(Visible(t, stored), r.before)
           B == batch \ left
<1>19. /\ A \in SUBSET Nat /\ B \in SUBSET Nat /\ \A y \in A \cup B : y \in stored /\ y <= Len(rows)
       /\ \A a \in A, b \in B : b < a
  <2>1. A \in SUBSET Nat /\ B \in SUBSET Nat /\ \A y \in A \cup B : y \in stored /\ y <= Len(rows)
    BY <1>1, <1>7 DEF From
  <2>2. \A a \in A, b \in B : b < r.before /\ r.before <= a
    BY <1>1, <1>3, <1>7 DEF From
  <2> HIDE DEF A, B
  <2>3. \A a \in A, b \in B : a \in Nat /\ b \in Nat
    BY <2>1
  <2> QED
    BY <1>3, <2>1, <2>2, <2>3
<1>20. A \cup B = From(Visible(t, stored), before)
  BY <1>1, <1>7, <1>9, <1>17 DEF From
<1>21. r.visible = Newest(A, PageSize)
  BY <1>3
<1>22. batch \ left = B
  OBVIOUS
<1> HIDE DEF A, B
<1>23. r.visible = A
  <2>1. Newest(A, PageSize) = A \/ Cardinality(Newest(A, PageSize)) >= PageSize
    BY <1>1, <1>19, NewestAreLast
  <2>2. Cardinality(Newest(A, PageSize)) \in Nat
    BY <1>1, <1>19, NewestAreLast
  <2> QED
    BY <1>1, <1>3, <1>21, <2>1, <2>2
<1>24. visible = Newest(From(Visible(t, stored), before), PageSize)
  <2>1. IsFiniteSet(A) /\ Cardinality(A) \in Nat /\ Cardinality(A) <= PageSize
    <3>1. IsFiniteSet(A)
      BY <1>1, <1>19, FS_BoundedSetOfNaturals
    <3>2. Cardinality(A) \in Nat
      BY <3>1, FS_CardinalityType
    <3> QED
      BY <1>1, <1>3, <1>23, <3>1, <3>2
  <2>2. Newest(A \cup B, PageSize) = A \cup Newest(B, PageSize - Cardinality(A))
    BY <1>1, <1>19, <2>1, NewestJoins
  <2> QED
    BY <1>20, <1>22, <1>23, <2>2
<1>25. Cardinality(visible) \in Nat
  <2>1. From(Visible(t, stored), before) \in SUBSET Nat /\ \A y \in From(Visible(t, stored), before) : y <= Len(rows)
    BY <1>19, <1>20
  <2> QED
    BY <1>1, <1>24, <2>1, NewestAreLast
<1> HIDE DEF visible
<1>26. q.more \in BOOLEAN /\ (q.more => Cardinality(q.visible) < PageSize)
  BY <1>2
<1>27. q.more \/ Cardinality(q.visible) >= PageSize \/ From(stored, q.before) = stored
  <2>1. CASE Cardinality(batch) = size /\ ~(Cardinality(visible) < PageSize)
    BY <1>2, <1>1, <1>25, <2>1
  <2>2. CASE Cardinality(batch) # size
    BY <1>2, <1>6, <1>10, <2>2
  <2>3. CASE Cardinality(batch) = size /\ Cardinality(visible) < PageSize
    BY <1>2, <2>3
  <2> QED
    BY <2>1, <2>2, <2>3
<1>28. \A k \in From(stored, before) : rows[k].kind = "answer" => Near(k) \subseteq runs
  <2> SUFFICES ASSUME NEW k \in From(stored, before), rows[k].kind = "answer" PROVE Near(k) \subseteq runs
    OBVIOUS
  <2>1. k \in batch \/ k \in From(stored, r.before)
    BY <1>9 DEF From
  <2>2. k \in batch => k \in messages
    BY DEF messages
  <2> QED
    BY <1>3, <1>12, <1>16, <2>1, <2>2
<1>29. ReadingInv(t, stored, q)
  BY <1>2, <1>8, <1>13, <1>14, <1>15, <1>18, <1>24, <1>26, <1>27, <1>28 DEF ReadingInv
<1> QED
  BY <1>29 DEF q

\* The readings one after another: each is defined by the one before.
IsReading(f, t, stored, x) ==
  f = [n \in 0 .. x |-> IF n = 0 THEN FirstReading ELSE NextReading(t, stored, f[n - 1], n)]

LEMMA ReadingsExist ==
  ASSUME NEW t, NEW stored, NEW x \in Nat
  PROVE  \E f : IsReading(f, t, stored, x)
<1> DEFINE T == {y \in Nat : ~ \E f : IsReading(f, t, stored, y)}
<1>1. SUFFICES ASSUME T # {} PROVE FALSE
  OBVIOUS
<1>2. T \in SUBSET Nat
  OBVIOUS
<1> HIDE DEF T
<1>3. Min(T) \in T /\ \A y \in T : Min(T) <= y
  BY <1>1, <1>2, HasFirst
<1> DEFINE y == Min(T)
<1>4. y \in Nat /\ ~ \E f : IsReading(f, t, stored, y)
  BY <1>3 DEF T
<1>5. \A z \in Nat : z < y => \E f : IsReading(f, t, stored, z)
  BY <1>3, <1>4 DEF T
<1> HIDE DEF y
<1>6. CASE y = 0
  <2> DEFINE f == [n \in 0 .. 0 |-> FirstReading]
  <2>1. f = [n \in 0 .. 0 |-> IF n = 0 THEN FirstReading ELSE NextReading(t, stored, f[n - 1], n)]
    <3>1. \A n \in 0 .. 0 : n = 0
      OBVIOUS
    <3> QED
      BY <3>1
  <2> HIDE DEF f
  <2>2. IsReading(f, t, stored, y)
    BY <1>6, <2>1 DEF IsReading
  <2> QED
    BY <1>4, <2>2
<1>7. CASE y # 0
  <2>1. y - 1 \in Nat /\ y - 1 < y
    BY <1>4, <1>7
  <2>2. PICK f : IsReading(f, t, stored, y - 1)
    BY <1>5, <2>1
  <2> DEFINE g == [n \in 0 .. y |-> IF n = 0 THEN FirstReading ELSE NextReading(t, stored, f[n - 1], n)]
  <2>3. \A n \in 0 .. y - 1 : g[n] = f[n]
    <3> TAKE n \in 0 .. y - 1
    <3>1. n \in 0 .. y
      BY <1>4
    <3>2. g[n] = IF n = 0 THEN FirstReading ELSE NextReading(t, stored, f[n - 1], n)
      BY <3>1
    <3>3. f[n] = IF n = 0 THEN FirstReading ELSE NextReading(t, stored, f[n - 1], n)
      BY <2>2 DEF IsReading
    <3> QED
      BY <3>2, <3>3
  <2>4. \A n \in 0 .. y : n # 0 => n - 1 \in 0 .. y - 1
    BY <1>4
  <2>5. \A n \in 0 .. y : (IF n = 0 THEN FirstReading ELSE NextReading(t, stored, f[n - 1], n))
                        = (IF n = 0 THEN FirstReading ELSE NextReading(t, stored, g[n - 1], n))
    <3> HIDE DEF g
    <3> QED
      BY <2>3, <2>4
  <2>6. g = [n \in 0 .. y |-> IF n = 0 THEN FirstReading ELSE NextReading(t, stored, g[n - 1], n)]
    BY <2>5
  <2> HIDE DEF g
  <2>7. IsReading(g, t, stored, y)
    BY <2>6 DEF IsReading
  <2> QED
    BY <1>4, <2>7
<1> QED
  BY <1>6, <1>7

\* Whatever the list has read when it stops, it knows.
LEMMA ListIsRead ==
  ASSUME EnergyBase, SummariesLater, NEW t, NEW stored \in SUBSET Listed
  PROVE  ReadingInv(t, stored, CollapsedNotifications(t, stored))
<1>1. /\ MaxBatches \in Nat /\ FirstBatch \in Nat \ {0} /\ Batch \in Nat \ {0}
  BY PageAssumption
<1> DEFINE f == CHOOSE f : IsReading(f, t, stored, MaxBatches)
<1>2. CollapsedNotifications(t, stored) = f[MaxBatches]
  BY DEF CollapsedNotifications, IsReading
<1>3. IsReading(f, t, stored, MaxBatches)
  BY <1>1, ReadingsExist
<1> HIDE DEF f
<1>4. \A n \in 0 .. MaxBatches : f[n] = IF n = 0 THEN FirstReading ELSE NextReading(t, stored, f[n - 1], n)
  BY <1>3 DEF IsReading
<1> DEFINE T == {n \in 0 .. MaxBatches : ~ReadingInv(t, stored, f[n])}
<1>5. T = {}
  <2> SUFFICES ASSUME T # {} PROVE FALSE
    OBVIOUS
  <2>1. T \in SUBSET Nat
    OBVIOUS
  <2> HIDE DEF T
  <2>2. Min(T) \in T /\ \A y \in T : Min(T) <= y
    BY <2>1, HasFirst
  <2> DEFINE n == Min(T)
  <2>3. n \in 0 .. MaxBatches /\ ~ReadingInv(t, stored, f[n])
    BY <2>2 DEF T
  <2>4. \A y \in 0 .. MaxBatches : y < n => ReadingInv(t, stored, f[y])
    BY <1>1, <2>2, <2>3 DEF T
  <2> HIDE DEF n
  <2>5. n # 0
    <3>1. n = 0 => f[n] = FirstReading
      BY <1>4, <2>3
    <3> QED
      BY <2>3, <3>1, NothingRead
  <2>6. n - 1 \in 0 .. MaxBatches /\ n - 1 < n
    BY <1>1, <2>3, <2>5
  <2>7. ReadingInv(t, stored, f[n - 1])
    BY <2>4, <2>6
  <2>8. f[n] = NextReading(t, stored, f[n - 1], n)
    BY <1>4, <2>3, <2>5
  <2> DEFINE r == f[n - 1]
  <2> HIDE DEF r
  <2>9. CASE r.more
    <3>1. (IF n = 1 THEN FirstBatch ELSE Batch) \in Nat \ {0}
      BY <1>1
    <3>2. ReadingInv(t, stored, ReadBatch(t, stored, r, IF n = 1 THEN FirstBatch ELSE Batch))
      BY <2>7, <2>9, <3>1, BatchRead DEF r
    <3> QED
      BY <2>3, <2>8, <2>9, <3>2 DEF NextReading, r
  <2>10. CASE ~r.more
    BY <2>3, <2>7, <2>8, <2>10 DEF NextReading, r
  <2> QED
    BY <2>9, <2>10
<1> QED
  BY <1>1, <1>2, <1>5

-----------------------------------------------------------------------------
(* The page. *)

\* An entry whose place has been read has the same place in the whole list.
LEMMA PlacesAgree ==
  ASSUME EnergyBase, SummariesLater, NEW t, NEW stored \in SUBSET Listed, NEW r, ReadingInv(t, stored, r),
         NEW i \in DOMAIN rows
  PROVE  LET whole == WholeReading(t, stored)
         IN /\ Place(r, i) \in Nat /\ Place(whole, i) \in Nat /\ Place(r, i) <= Place(whole, i)
            /\ Place(whole, i) >= r.before => Place(r, i) = Place(whole, i)
            /\ From(stored, r.before) = stored => Place(r, i) = Place(whole, i)
<1> DEFINE whole == WholeReading(t, stored)
           W == {k \in LeftOut(t, stored) : Max(PossibleOwners(Runs(DOMAIN rows), Summaries, k)) = i}
           R == {k \in W : k >= r.before}
<1>1. ListParts(t, stored)
  BY ListHasParts
<1>2. i \in Nat /\ i <= Len(rows) /\ Len(rows) \in Nat
  BY NumbersOfRows
<1>3. r.before \in Nat
  BY DEF ReadingInv
<1>4. CASE i \notin Runs(DOMAIN rows)
  BY <1>2, <1>4 DEF Place
<1>5. CASE i \in Runs(DOMAIN rows)
  <2>1. Place(whole, i) = Max({i} \cup W)
    BY <1>5 DEF Place, LeftOut, WholeReading
  <2>2. Place(r, i) = Max({i} \cup R)
    <3>1. \A k \in r.left : k \in LeftOut(t, stored) /\ k >= r.before
      BY DEF ReadingInv, From
    <3>2. ASSUME NEW k \in r.left
          PROVE  PossibleOwners(r.runs, r.summaries, k) = PossibleOwners(Runs(DOMAIN rows), Summaries, k)
      <4>1. k \in stored /\ k \in Answers(DOMAIN rows) /\ k >= r.before
        BY <1>1, <3>1 DEF ListParts, Answers
      <4>2. Near(k) \subseteq r.runs
        BY <4>1 DEF ReadingInv, From, Answers
      <4>3. /\ r.runs \in SUBSET Runs(DOMAIN rows) /\ r.summariesFrom \in Nat
            /\ \A j \in r.runs : r.summariesFrom <= j
            /\ r.summaries = {s \in Summaries : r.summariesFrom <= s}
        BY DEF ReadingInv
      <4> QED
        BY <4>1, <4>2, <4>3, OwnersKnown
    <3>3. {k \in r.left : Max(PossibleOwners(r.runs, r.summaries, k)) = i} = R
      BY <3>2 DEF ReadingInv, From
    <3> QED
      BY <1>5, <3>3 DEF Place
  <2>3. W \in SUBSET Nat /\ \A k \in W : k <= Len(rows)
    BY <1>1 DEF ListParts
  <2>4. R \subseteq W /\ \A k \in W : k >= r.before => k \in R
    OBVIOUS
  <2>5. From(stored, r.before) = stored => R = W
    BY <1>1 DEF ListParts, From
  <2> DEFINE w == Max({i} \cup W)
             p == Max({i} \cup R)
  <2> HIDE DEF W, R
  <2>6. ({i} \cup W) \in SUBSET Nat /\ ({i} \cup R) \in SUBSET Nat
    BY <1>2, <2>3, <2>4
  <2>7. /\ \A y \in {i} \cup W : y <= Len(rows)
        /\ \A y \in {i} \cup R : y <= Len(rows)
    BY <1>2, <2>3, <2>4
  <2>8. w \in {i} \cup W /\ \A y \in {i} \cup W : y <= w
    BY <1>2, <2>6, <2>7, HasLast
  <2>9. p \in {i} \cup R /\ \A y \in {i} \cup R : y <= p
    BY <1>2, <2>6, <2>7, HasLast
  <2>10. p \in Nat /\ w \in Nat
    BY <2>6, <2>8, <2>9
  <2>11. From(stored, r.before) = stored => p = w
    BY <2>5
  <2> HIDE DEF w, p
  <2>12. p <= w
    BY <2>4, <2>8, <2>9
  <2>13. w >= r.before => p = w
    <3> SUFFICES ASSUME w >= r.before PROVE p = w
      OBVIOUS
    <3>1. w \in {i} \cup R
      BY <2>4, <2>8
    <3>2. w <= p
      BY <2>9, <3>1
    <3> QED
      BY <2>10, <2>12, <3>2
  <2> QED
    BY <2>1, <2>2, <2>10, <2>11, <2>12, <2>13 DEF w, p
<1> QED
  BY <1>4, <1>5

\* The entries that come before entry i, of what reading q has found.
Higher(t, q, i) == {j \in q.visible \cup Live(t) : Place(q, j) > Place(q, i)}

LEMMA EntriesAre ==
  ASSUME EnergyBase, NEW t, NEW q, q.visible \subseteq DOMAIN rows
  PROVE  /\ Entries(t, q) = {i \in q.visible \cup Live(t) : Cardinality(Higher(t, q, i)) < PageSize}
         /\ q.visible \cup Live(t) \subseteq DOMAIN rows
         /\ \A i : IsFiniteSet(Higher(t, q, i)) /\ Cardinality(Higher(t, q, i)) \in Nat
<1>1. q.visible \cup Live(t) \subseteq DOMAIN rows
  BY NumbersOfRows DEF Live, Runs
<1>2. Entries(t, q) = {i \in q.visible \cup Live(t) : Cardinality(Higher(t, q, i)) < PageSize}
  <2> DEFINE all == q.visible \cup Live(t)
             place == [i \in all |-> Place(q, i)]
  <2>1. \A i \in all : place[i] = Place(q, i)
    OBVIOUS
  <2>2. \A i \in all : {j \in all : place[j] > place[i]} = Higher(t, q, i)
    <3> HIDE DEF place
    <3> QED
      BY <2>1 DEF Higher
  <2>3. Entries(t, q) = {i \in all : Cardinality({j \in all : place[j] > place[i]}) < PageSize}
    BY DEF Entries
  <2> HIDE DEF place
  <2>4. \A i \in all : Cardinality({j \in all : place[j] > place[i]}) = Cardinality(Higher(t, q, i))
    BY <2>2
  <2> HIDE DEF all
  <2>5. Entries(t, q) = {i \in all : Cardinality(Higher(t, q, i)) < PageSize}
    BY <2>3, <2>4
  <2> QED
    BY <2>5 DEF all
<1>3. IsFiniteSet(DOMAIN rows)
  <2>1. Len(rows) \in Int /\ DOMAIN rows = 1 .. Len(rows)
    BY NumbersOfRows
  <2> QED
    BY <2>1, FS_Interval
<1>4. ASSUME NEW i
      PROVE  IsFiniteSet(Higher(t, q, i)) /\ Cardinality(Higher(t, q, i)) \in Nat
  <2>1. Higher(t, q, i) \in SUBSET DOMAIN rows
    BY <1>1 DEF Higher
  <2> QED
    BY <1>3, <2>1, FS_Subset, FS_CardinalityType
<1> QED
  BY <1>1, <1>2, <1>4

LEMMA PageAgrees ==
  ASSUME EnergyBase, SummariesLater, NEW t, NEW stored \in SUBSET Listed, NEW r, ReadingInv(t, stored, r)
  PROVE  LET page == Entries(t, r)
             whole == WholeReading(t, stored)
             first == Entries(t, whole)
         IN \/ page = first
            \/ /\ CutShort(stored, r)
               /\ {i \in page : Place(whole, i) >= r.before} = {i \in first : Place(whole, i) >= r.before}
<1> DEFINE page == Entries(t, r)
           whole == WholeReading(t, stored)
           first == Entries(t, whole)
           V == From(Visible(t, stored), r.before)
<1>1. /\ stored \in SUBSET Nat /\ stored \subseteq DOMAIN rows /\ \A k \in stored : k <= Len(rows)
      /\ Visible(t, stored) \subseteq stored /\ Len(rows) \in Nat /\ PageSize \in Nat \ {0}
  <2>1. ListParts(t, stored)
    BY ListHasParts
  <2> QED
    BY <2>1 DEF ListParts
<1>2. whole.visible = Visible(t, stored)
  BY DEF Visible
<1>3. r.visible = Newest(V, PageSize) /\ r.before \in Nat
  BY DEF ReadingInv
<1> HIDE DEF whole
<1>4. V \in SUBSET Nat /\ V \subseteq Visible(t, stored) /\ \A k \in V : k <= Len(rows) /\ k >= r.before
  BY <1>1 DEF From
<1>5. \A k \in Visible(t, stored) : k >= r.before => k \in V
  BY DEF From
<1> HIDE DEF V
<1>6. /\ r.visible \subseteq V /\ IsFiniteSet(r.visible) /\ Cardinality(r.visible) \in Nat
      /\ \A k \in r.visible, j \in V : k <= j => j \in r.visible
      /\ r.visible = V \/ Cardinality(r.visible) >= PageSize
  <2> DEFINE shown == Newest(V, PageSize)
  <2>1. V \in SUBSET Nat /\ Len(rows) \in Nat /\ (\A y \in V : y <= Len(rows)) /\ PageSize \in Nat
    BY <1>1, <1>4
  <2>2. /\ shown \subseteq V /\ IsFiniteSet(shown) /\ Cardinality(shown) \in Nat
        /\ \A k \in shown, j \in V : k <= j => j \in shown
        /\ shown = V \/ Cardinality(shown) >= PageSize
    BY <2>1, NewestAreLast
  <2>3. r.visible = shown
    BY <1>3
  <2> HIDE DEF shown
  <2> QED
    BY <2>2, <2>3
<1>7. /\ r.visible \subseteq DOMAIN rows /\ whole.visible \subseteq DOMAIN rows
      /\ r.visible \cup Live(t) \subseteq whole.visible \cup Live(t)
  BY <1>1, <1>2, <1>4, <1>6
<1>8. /\ page = {i \in r.visible \cup Live(t) : Cardinality(Higher(t, r, i)) < PageSize}
      /\ first = {i \in whole.visible \cup Live(t) : Cardinality(Higher(t, whole, i)) < PageSize}
      /\ whole.visible \cup Live(t) \subseteq DOMAIN rows
  BY <1>7, EntriesAre
<1>9. \A i : /\ IsFiniteSet(Higher(t, r, i)) /\ Cardinality(Higher(t, r, i)) \in Nat
             /\ IsFiniteSet(Higher(t, whole, i)) /\ Cardinality(Higher(t, whole, i)) \in Nat
  BY <1>7, EntriesAre
<1> HIDE DEF page, first
<1>10. \A i \in DOMAIN rows :
         /\ Place(r, i) \in Nat /\ Place(whole, i) \in Nat /\ Place(r, i) <= Place(whole, i)
         /\ Place(whole, i) >= r.before => Place(r, i) = Place(whole, i)
         /\ From(stored, r.before) = stored => Place(r, i) = Place(whole, i)
  BY PlacesAgree DEF whole
<1>11. \A k \in stored : \A q : Place(q, k) = k
  <2>1. \A k \in stored : k \notin Runs(DOMAIN rows)
    BY DEF Listed, Runs
  <2> QED
    BY <2>1 DEF Place
\* A page is full of what is placed before i: then i is not on it.
<1>12. ASSUME NEW q \in {r, whole}, NEW i, r.visible \subseteq Higher(t, q, i), Cardinality(r.visible) >= PageSize
       PROVE  ~(Cardinality(Higher(t, q, i)) < PageSize)
  <2>1. IsFiniteSet(Higher(t, q, i)) /\ Cardinality(Higher(t, q, i)) \in Nat
    BY <1>9
  <2>2. Cardinality(r.visible) <= Cardinality(Higher(t, q, i))
    BY <1>12, <2>1, FS_Subset
  <2> QED
    BY <1>1, <1>6, <1>12, <2>1, <2>2
<1>13. ASSUME NEW i \in first, Place(whole, i) >= r.before
       PROVE  i \in page
  <2>1. i \in whole.visible \cup Live(t) /\ i \in DOMAIN rows /\ Cardinality(Higher(t, whole, i)) < PageSize
    BY <1>8
  <2>2. Place(r, i) = Place(whole, i)
    BY <1>10, <1>13, <2>1
  <2>3. i \in r.visible \cup Live(t)
    <3> SUFFICES ASSUME i \in Visible(t, stored) PROVE i \in r.visible
      BY <1>2, <2>1
    <3>1. Place(whole, i) = i /\ i \in V
      BY <1>1, <1>5, <1>11, <1>13
    <3>2. {j \in V : j > i} \in SUBSET Higher(t, whole, i)
      <4> SUFFICES ASSUME NEW j \in V, j > i PROVE j \in Higher(t, whole, i)
        OBVIOUS
      <4>1. j \in whole.visible /\ Place(whole, j) = j
        BY <1>1, <1>2, <1>4, <1>11
      <4> QED
        BY <3>1, <4>1 DEF Higher
    <3>3. IsFiniteSet(Higher(t, whole, i)) /\ Cardinality(Higher(t, whole, i)) \in Nat
      BY <1>9
    <3>4. /\ IsFiniteSet({j \in V : j > i})
          /\ Cardinality({j \in V : j > i}) <= Cardinality(Higher(t, whole, i))
      BY <3>2, <3>3, FS_Subset
    <3>5. Cardinality({j \in V : j > i}) \in Nat
      BY <3>4, FS_CardinalityType
    <3>6. Cardinality({j \in V : j > i}) < PageSize
      BY <1>1, <2>1, <3>3, <3>4, <3>5
    <3> QED
      BY <1>3, <3>1, <3>6 DEF Newest
  <2>4. Higher(t, r, i) \in SUBSET Higher(t, whole, i)
    <3> SUFFICES ASSUME NEW j \in Higher(t, r, i) PROVE j \in Higher(t, whole, i)
      OBVIOUS
    <3>1. j \in r.visible \cup Live(t) /\ Place(r, j) > Place(r, i)
      BY DEF Higher
    <3>2. j \in whole.visible \cup Live(t) /\ j \in DOMAIN rows
      BY <1>7, <1>8, <3>1
    <3>3. Place(whole, j) > Place(whole, i)
      BY <1>10, <2>1, <2>2, <3>1, <3>2
    <3> QED
      BY <3>2, <3>3 DEF Higher
  <2>5. IsFiniteSet(Higher(t, whole, i))
    BY <1>9
  <2>6. Cardinality(Higher(t, r, i)) <= Cardinality(Higher(t, whole, i))
    BY <2>4, <2>5, FS_Subset
  <2>7. Cardinality(Higher(t, r, i)) < PageSize
    BY <1>1, <1>9, <2>1, <2>6
  <2> QED
    BY <1>8, <2>3, <2>7
<1>14. ASSUME NEW i \in page, Place(whole, i) >= r.before
       PROVE  i \in first
  <2>1. i \in r.visible \cup Live(t) /\ i \in DOMAIN rows /\ Cardinality(Higher(t, r, i)) < PageSize
    BY <1>7, <1>8
  <2>2. i \in whole.visible \cup Live(t)
    BY <1>7, <2>1
  <2>3. Place(r, i) = Place(whole, i)
    BY <1>10, <1>14, <2>1
  <2>4. Higher(t, whole, i) \in SUBSET Higher(t, r, i)
    <3> SUFFICES ASSUME NEW j \in Higher(t, whole, i) PROVE j \in Higher(t, r, i)
      OBVIOUS
    <3>1. j \in whole.visible \cup Live(t) /\ j \in DOMAIN rows /\ Place(whole, j) > Place(whole, i)
      BY <1>8 DEF Higher
    <3>2. Place(r, j) = Place(whole, j) /\ Place(whole, j) >= r.before
      <4>1. Place(whole, j) \in Nat /\ Place(whole, i) \in Nat
        BY <1>10, <2>1, <3>1
      <4>2. Place(whole, j) >= r.before
        BY <1>3, <1>14, <3>1, <4>1
      <4> QED
        BY <1>10, <3>1, <4>2
    <3>3. Place(r, j) > Place(r, i)
      BY <2>3, <3>1, <3>2
    <3>4. j \in r.visible \cup Live(t)
      <4> SUFFICES ASSUME j \in Visible(t, stored), j \notin r.visible PROVE FALSE
        BY <1>2, <3>1
      <4>1. Place(whole, j) = j /\ j \in V /\ j \in Nat
        BY <1>1, <1>5, <1>11, <3>2
      <4>2. Cardinality(r.visible) >= PageSize
        BY <1>6, <4>1
      <4>3. r.visible \subseteq Higher(t, r, i)
        <5> SUFFICES ASSUME NEW v \in r.visible PROVE Place(r, v) > Place(r, i)
          BY DEF Higher
        <5>1. v \in Nat /\ Place(r, v) = v /\ ~(v <= j)
          BY <1>1, <1>4, <1>6, <1>11, <4>1
        <5>2. Place(r, i) \in Nat
          BY <1>10, <2>1
        <5> QED
          BY <3>2, <3>3, <4>1, <5>1, <5>2
      <4> QED
        BY <1>12, <2>1, <4>2, <4>3
    <3> QED
      BY <3>3, <3>4 DEF Higher
  <2>5. IsFiniteSet(Higher(t, r, i))
    BY <1>9
  <2>6. Cardinality(Higher(t, whole, i)) <= Cardinality(Higher(t, r, i))
    BY <2>4, <2>5, FS_Subset
  <2>7. Cardinality(Higher(t, whole, i)) < PageSize
    BY <1>1, <1>9, <2>1, <2>6
  <2> QED
    BY <1>8, <2>2, <2>7
\* A full page shows nothing that is placed before what has been read.
<1>15. ASSUME Cardinality(r.visible) >= PageSize
       PROVE  page = first
  <2>1. ASSUME NEW i \in page
        PROVE  Place(whole, i) >= r.before
    <3>1. i \in DOMAIN rows /\ Cardinality(Higher(t, r, i)) < PageSize
      BY <1>7, <1>8
    <3> SUFFICES ASSUME ~(Place(whole, i) >= r.before) PROVE FALSE
      OBVIOUS
    <3>2. r.visible \subseteq Higher(t, r, i)
      <4> SUFFICES ASSUME NEW v \in r.visible PROVE Place(r, v) > Place(r, i)
        BY DEF Higher
      <4>1. v \in Nat /\ Place(r, v) = v /\ v >= r.before
        BY <1>1, <1>4, <1>6, <1>11
      <4> QED
        BY <1>3, <1>10, <3>1, <4>1
    <3> QED
      BY <1>12, <1>15, <3>1, <3>2
  <2>2. ASSUME NEW i \in first
        PROVE  Place(whole, i) >= r.before
    <3>1. i \in DOMAIN rows /\ Cardinality(Higher(t, whole, i)) < PageSize
      BY <1>8
    <3> SUFFICES ASSUME ~(Place(whole, i) >= r.before) PROVE FALSE
      OBVIOUS
    <3>2. r.visible \subseteq Higher(t, whole, i)
      <4> SUFFICES ASSUME NEW v \in r.visible PROVE v \in whole.visible /\ Place(whole, v) > Place(whole, i)
        BY DEF Higher
      <4>1. v \in Nat /\ Place(whole, v) = v /\ v >= r.before /\ v \in whole.visible
        BY <1>1, <1>2, <1>4, <1>6, <1>11
      <4> QED
        BY <1>3, <1>10, <3>1, <4>1
    <3> QED
      BY <1>12, <1>15, <3>1, <3>2
  <2> QED
    BY <1>13, <1>14, <2>1, <2>2
\* When everything has been read the page is made of the same entries.
<1>16. ASSUME ~(Cardinality(r.visible) >= PageSize), From(stored, r.before) = stored
       PROVE  page = first
  <2>1. r.visible = whole.visible
    <3>1. \A k \in Visible(t, stored) : k \in V
      BY <1>1, <1>5, <1>16 DEF From
    <3> QED
      BY <1>2, <1>4, <1>6, <1>16, <3>1
  <2>2. \A i \in DOMAIN rows : Place(r, i) = Place(whole, i)
    BY <1>10, <1>16
  <2>3. \A i \in r.visible \cup Live(t) : Higher(t, r, i) = Higher(t, whole, i)
    BY <1>8, <2>1, <2>2 DEF Higher
  <2>4. \A i \in r.visible \cup Live(t) : Cardinality(Higher(t, r, i)) = Cardinality(Higher(t, whole, i))
    BY <2>3
  <2> QED
    BY <1>8, <2>1, <2>4
<1>17. ASSUME ~(Cardinality(r.visible) >= PageSize), From(stored, r.before) # stored
       PROVE  CutShort(stored, r)
  <2>1. r.more
    BY <1>17 DEF ReadingInv
  <2>2. PICK k \in stored : ~(k >= r.before)
    BY <1>17 DEF From
  <2>3. k < r.before
    BY <1>1, <1>3, <2>2
  <2> QED
    BY <2>1, <2>3 DEF CutShort
<1>18. {i \in page : Place(whole, i) >= r.before} = {i \in first : Place(whole, i) >= r.before}
  BY <1>13, <1>14
<1> QED
  BY <1>15, <1>16, <1>17, <1>18 DEF page, first, whole

\* The list of messages shows the newest entries, although it reads the rows in
\* batches, with a part of the runs and summaries, and leaves answers out: for
\* pages and batches of any size and any number of rows of any tenants.  Only
\* when the batches run out is it short, and then right as far as it has read.
THEOREM NewestListed == EnergySpec => []PageIsNewest
<1>1. EnergyBase /\ SummaryInv => PageIsNewest
  <2> SUFFICES ASSUME EnergyBase, SummaryInv, NEW t \in ListedTenants, NEW stored \in SUBSET Listed
               PROVE  LET r == CollapsedNotifications(t, stored)
                          page == GetNotification(t, stored)
                          whole == WholeReading(t, stored)
                          first == Entries(t, whole)
                      IN \/ page = first
                         \/ /\ CutShort(stored, r)
                            /\ {i \in page : Place(whole, i) >= r.before} = {i \in first : Place(whole, i) >= r.before}
    BY DEF PageIsNewest
  <2>1. SummariesLater
    BY DEF SummaryInv
  <2>2. ReadingInv(t, stored, CollapsedNotifications(t, stored))
    BY <2>1, ListIsRead
  <2> QED
    BY <2>1, <2>2, PageAgrees DEF GetNotification
<1> QED
  BY <1>1, EnergyBaseInvariance, SummaryInvariance, PTL

-----------------------------------------------------------------------------
(* How long a list has to be for the batches to run out.                   *)

\* The rows of n batches that are all full.
RowsOf(n) == IF n = 0 THEN 0 ELSE FirstBatch + (n - 1) * Batch

LEMMA RowsGrow ==
  ASSUME NEW n \in Nat \ {0}
  PROVE  RowsOf(n) = RowsOf(n - 1) + (IF n = 1 THEN FirstBatch ELSE Batch) /\ RowsOf(n - 1) \in Nat
<1>1. FirstBatch \in Nat /\ Batch \in Nat /\ n - 1 \in Nat
  BY PageAssumption
<1>2. CASE n = 1
  BY <1>1, <1>2 DEF RowsOf
<1>3. CASE n # 1
  <2>1. n - 2 \in Nat /\ n - 1 # 0 /\ n # 0 /\ (n - 1) - 1 = n - 2
    BY <1>1, <1>3
  <2>2. (n - 1) * Batch = (n - 2) * Batch + Batch /\ (n - 2) * Batch \in Nat
    BY <1>1, <2>1
  <2>3. RowsOf(n) = FirstBatch + (n - 1) * Batch /\ RowsOf(n - 1) = FirstBatch + (n - 2) * Batch
    BY <2>1 DEF RowsOf
  <2> QED
    BY <1>1, <1>3, <2>2, <2>3
<1> QED
  BY <1>2, <1>3

\* A batch after which the list goes on was full, of rows not read before.
LEMMA BatchCounts ==
  ASSUME EnergyBase, NEW t, NEW stored \in SUBSET Listed, NEW r, r.before \in Nat,
         NEW size \in Nat \ {0}, NEW m \in Nat, Cardinality(From(stored, r.before)) >= m,
         ReadBatch(t, stored, r, size).more
  PROVE  Cardinality(From(stored, ReadBatch(t, stored, r, size).before)) >= m + size
<1> DEFINE unread == {k \in stored : k < r.before}
           batch == Newest(unread, size)
           before == Min(batch \cup {r.before})
           known == From(stored, r.before)
           q == ReadBatch(t, stored, r, size)
<1>1. q.before = before /\ Cardinality(batch) = size
  BY DEF ReadBatch
<1> HIDE DEF q
<1>2. stored \in SUBSET Nat /\ (\A k \in stored : k <= Len(rows)) /\ Len(rows) \in Nat
  <2>1. ListParts(t, stored)
    BY ListHasParts
  <2> QED
    BY <2>1 DEF ListParts
<1>3. unread \in SUBSET Nat /\ \A k \in unread : k \in stored /\ k < r.before /\ k <= Len(rows)
  BY <1>2
<1>4. batch \subseteq unread
  BY DEF Newest
<1>5. batch \in SUBSET stored /\ \A k \in batch : k \in Nat /\ k < r.before
  BY <1>3, <1>4
<1> HIDE DEF unread, batch
<1>6. before \in Nat /\ before <= r.before /\ \A k \in batch : before <= k
  <2>1. (batch \cup {r.before}) \in SUBSET Nat /\ batch \cup {r.before} # {}
    BY <1>5
  <2> QED
    BY <2>1, HasFirst
<1> HIDE DEF before
<1>7. known \cap batch = {} /\ known \subseteq stored
  <2>1. \A k \in known : k \in stored /\ k >= r.before
    BY DEF From
  <2>2. \A k \in batch : ~(k >= r.before)
    BY <1>5
  <2> HIDE DEF known
  <2> QED
    BY <2>1, <2>2
<1>8. (known \cup batch) \in SUBSET From(stored, before)
  <2>1. \A k \in known : k \in stored /\ k >= before
    BY <1>2, <1>6 DEF From
  <2>2. \A k \in batch : k \in stored /\ k >= before
    BY <1>5, <1>6
  <2> QED
    BY <2>1, <2>2 DEF From
<1> HIDE DEF known
<1>9. IsFiniteSet(stored)
  BY <1>2, FS_BoundedSetOfNaturals
<1>10. From(stored, before) \in SUBSET stored /\ known \in SUBSET stored /\ batch \in SUBSET stored
  BY <1>5, <1>7 DEF From
<1>11. IsFiniteSet(From(stored, before)) /\ IsFiniteSet(known) /\ IsFiniteSet(batch)
  BY <1>9, <1>10, FS_Subset
<1>12. Cardinality(known \cup batch) = Cardinality(known) + Cardinality(batch)
  <2>1. Cardinality(known \cup batch) = Cardinality(known) + Cardinality(batch) - Cardinality(known \cap batch)
    BY <1>11, FS_Union
  <2>2. Cardinality(known \cap batch) = 0
    BY <1>7, FS_EmptySet
  <2>3. Cardinality(known) \in Nat /\ Cardinality(batch) \in Nat
    BY <1>11, FS_CardinalityType
  <2> QED
    BY <2>1, <2>2, <2>3
<1>13. Cardinality(known \cup batch) <= Cardinality(From(stored, before))
  BY <1>8, <1>11, FS_Subset
<1>14. Cardinality(known) >= m /\ Cardinality(known) \in Nat /\ Cardinality(From(stored, before)) \in Nat
  BY <1>11, FS_CardinalityType DEF known
<1> QED
  BY <1>1, <1>12, <1>13, <1>14 DEF q

\* If the list would go on after the last batch, all of them were full.
LEMMA BatchesWereFull ==
  ASSUME EnergyBase, SummariesLater, NEW t, NEW stored \in SUBSET Listed,
         CollapsedNotifications(t, stored).more
  PROVE  Cardinality(From(stored, CollapsedNotifications(t, stored).before)) >= RowsOf(MaxBatches)
<1>1. /\ MaxBatches \in Nat \ {0} /\ FirstBatch \in Nat \ {0} /\ Batch \in Nat \ {0}
  BY PageAssumption
<1> DEFINE f == CHOOSE f : IsReading(f, t, stored, MaxBatches)
<1>2. CollapsedNotifications(t, stored) = f[MaxBatches]
  BY DEF CollapsedNotifications, IsReading
<1>3. IsReading(f, t, stored, MaxBatches)
  BY <1>1, ReadingsExist
<1> HIDE DEF f
<1>4. \A n \in 0 .. MaxBatches : f[n] = IF n = 0 THEN FirstReading ELSE NextReading(t, stored, f[n - 1], n)
  BY <1>3 DEF IsReading
<1> DEFINE Counted(r, n) == /\ r.before \in Nat
                            /\ r.more => Cardinality(From(stored, r.before)) >= RowsOf(n)
           T == {n \in 0 .. MaxBatches : ~(ReadingInv(t, stored, f[n]) /\ Counted(f[n], n))}
<1> HIDE DEF Counted
<1>5. T = {}
  <2> SUFFICES ASSUME T # {} PROVE FALSE
    OBVIOUS
  <2>1. T \in SUBSET Nat
    OBVIOUS
  <2> HIDE DEF T
  <2>2. Min(T) \in T /\ \A y \in T : Min(T) <= y
    BY <2>1, HasFirst
  <2> DEFINE n == Min(T)
  <2>3. n \in 0 .. MaxBatches /\ ~(ReadingInv(t, stored, f[n]) /\ Counted(f[n], n))
    BY <2>2 DEF T
  <2>a. \A y \in T : n <= y
    BY <2>2
  <2> HIDE DEF n
  <2>4. \A y \in 0 .. MaxBatches : y < n => ReadingInv(t, stored, f[y]) /\ Counted(f[y], y)
    <3> SUFFICES ASSUME NEW y \in 0 .. MaxBatches, y < n
                 PROVE  ReadingInv(t, stored, f[y]) /\ Counted(f[y], y)
      OBVIOUS
    <3>1. ~(n <= y)
      BY <1>1, <2>3
    <3>2. y \notin T
      BY <2>a, <3>1
    <3> QED
      BY <3>2 DEF T
  <2>5. n # 0
    <3> SUFFICES ASSUME n = 0 PROVE FALSE
      OBVIOUS
    <3>1. f[n] = FirstReading
      BY <1>4, <2>3
    <3>2. ReadingInv(t, stored, FirstReading)
      BY NothingRead
    <3>3. FirstReading.before \in Nat
      BY <3>2 DEF ReadingInv
    <3>4. IsFiniteSet(From(stored, FirstReading.before))
      <4>1. ListParts(t, stored)
        BY ListHasParts
      <4>2. stored \in SUBSET Nat /\ (\A k \in stored : k <= Len(rows)) /\ Len(rows) \in Nat
        BY <4>1 DEF ListParts
      <4>3. From(stored, FirstReading.before) \in SUBSET stored /\ IsFiniteSet(stored)
        BY <4>2, FS_BoundedSetOfNaturals DEF From
      <4> QED
        BY <4>3, FS_Subset
    <3>5. Cardinality(From(stored, FirstReading.before)) >= RowsOf(n)
      BY <3>4, FS_CardinalityType DEF RowsOf
    <3> QED
      BY <2>3, <3>1, <3>2, <3>3, <3>5 DEF Counted
  <2>6. n - 1 \in 0 .. MaxBatches /\ n - 1 < n /\ n \in Nat \ {0}
    BY <1>1, <2>3, <2>5
  <2> DEFINE r == f[n - 1]
             size == IF n = 1 THEN FirstBatch ELSE Batch
  <2>7. ReadingInv(t, stored, r) /\ Counted(r, n - 1)
    BY <2>4, <2>6
  <2>8. f[n] = NextReading(t, stored, r, n)
    BY <1>4, <2>3, <2>5
  <2> HIDE DEF r
  <2>9. CASE r.more
    <3>1. size \in Nat \ {0}
      BY <1>1
    <3>2. f[n] = ReadBatch(t, stored, r, size)
      BY <2>8, <2>9 DEF NextReading
    <3>3. RowsOf(n) = RowsOf(n - 1) + size /\ RowsOf(n - 1) \in Nat
      BY <2>6, RowsGrow
    <3> HIDE DEF size
    <3>4. ReadingInv(t, stored, ReadBatch(t, stored, r, size))
      BY <2>7, <2>9, <3>1, BatchRead
    <3>5. r.before \in Nat /\ Cardinality(From(stored, r.before)) >= RowsOf(n - 1)
      BY <2>7, <2>9 DEF Counted
    <3>6. ReadBatch(t, stored, r, size).more =>
            Cardinality(From(stored, ReadBatch(t, stored, r, size).before)) >= RowsOf(n - 1) + size
      BY <3>1, <3>3, <3>5, BatchCounts
    <3>7. ReadBatch(t, stored, r, size).before \in Nat
      BY <3>4 DEF ReadingInv
    <3> QED
      BY <2>3, <3>2, <3>3, <3>4, <3>6, <3>7 DEF Counted
  <2>10. CASE ~r.more
    <3>1. f[n] = r
      BY <2>8, <2>10 DEF NextReading
    <3> QED
      BY <2>3, <2>7, <2>10, <3>1 DEF Counted
  <2> QED
    BY <2>9, <2>10
<1>6. Counted(f[MaxBatches], MaxBatches)
  BY <1>1, <1>5
<1> QED
  BY <1>2, <1>6 DEF Counted

\* A list of no more rows than the batches hold is never cut short, whatever is
\* left out of it: its page is the first page of the whole list.  (In the code
\* these are 30 + 39 * 500 rows.)
ShortListsWhole ==
  \A t \in ListedTenants, stored \in SUBSET Listed :
     Cardinality(stored) <= FirstBatch + (MaxBatches - 1) * Batch =>
       GetNotification(t, stored) = Entries(t, WholeReading(t, stored))

\* The limit of the batches (collapsedNotifications: collapseMaxBatches) never
\* shortens a list that they could hold.
THEOREM ShortListsAreWhole == EnergySpec => []ShortListsWhole
<1>1. EnergyBase /\ SummaryInv => ShortListsWhole
  <2> SUFFICES ASSUME EnergyBase, SummaryInv, NEW t \in ListedTenants, NEW stored \in SUBSET Listed,
                      Cardinality(stored) <= FirstBatch + (MaxBatches - 1) * Batch
               PROVE  GetNotification(t, stored) = Entries(t, WholeReading(t, stored))
    BY DEF ShortListsWhole
  <2> DEFINE r == CollapsedNotifications(t, stored)
             read == From(stored, r.before)
  <2>1. SummariesLater
    BY DEF SummaryInv
  <2>2. ReadingInv(t, stored, r)
    BY <2>1, ListIsRead
  <2>3. GetNotification(t, stored) = Entries(t, WholeReading(t, stored)) \/ CutShort(stored, r)
    BY <2>1, <2>2, PageAgrees DEF GetNotification
  <2> SUFFICES ASSUME CutShort(stored, r) PROVE FALSE
    BY <2>3
  <2>4. PICK k \in stored : k < r.before
    BY DEF CutShort
  <2>5. Cardinality(read) >= RowsOf(MaxBatches)
    BY <2>1, BatchesWereFull DEF CutShort
  <2>6. RowsOf(MaxBatches) = FirstBatch + (MaxBatches - 1) * Batch
    BY PageAssumption DEF RowsOf
  <2>7. stored \in SUBSET Nat /\ (\A x \in stored : x <= Len(rows)) /\ Len(rows) \in Nat
    <3>1. ListParts(t, stored)
      BY ListHasParts
    <3> QED
      BY <3>1 DEF ListParts
  <2>8. IsFiniteSet(stored) /\ read \in SUBSET stored
    BY <2>7, FS_BoundedSetOfNaturals DEF From
  <2>9. k \notin read
    <3>1. r.before \in Nat /\ k \in Nat
      BY <2>2, <2>7 DEF ReadingInv
    <3> HIDE DEF r
    <3> QED
      BY <2>4, <3>1 DEF From
  <2> HIDE DEF read
  <2>10. IsFiniteSet(read) /\ Cardinality(read) <= Cardinality(stored) /\ Cardinality(read) # Cardinality(stored)
    BY <2>8, <2>9, FS_Subset
  <2>11. Cardinality(read) \in Nat /\ Cardinality(stored) \in Nat
    BY <2>8, <2>10, FS_CardinalityType
  <2>12. FirstBatch + (MaxBatches - 1) * Batch \in Int
    BY PageAssumption
  <2> QED
    BY <2>5, <2>6, <2>10, <2>11, <2>12
<1> QED
  BY <1>1, EnergyBaseInvariance, SummaryInvariance, PTL
=============================================================================
