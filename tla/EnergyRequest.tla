---------------------------- MODULE EnergyRequest ----------------------------
(***************************************************************************)
(* Requests of energy data from the grid operators, for several metering   *)
(* points at once, and the summaries of their answers, for the members of  *)
(* one community id (several tenants for a GEA).                           *)
(*                                                                         *)
(* Nothing is stored but rows of base.notification, in the order of their  *)
(* ids: hidden rows of the requests ("runs"), the grid operators' answers, *)
(* and the summaries.  An answer names only its metering point; the run it *)
(* belongs to is computed from the rows whenever it matters, by the lock   *)
(* against double requests, by the list of messages and by the check that  *)
(* writes the summaries.                                                   *)
(*                                                                         *)
(* A period is the set of its days.  Time passes in steps of LockWindow.   *)
(* Bounds: MaxRuns runs, MaxAnswers answers, MaxClock steps of time.       *)
(***************************************************************************)
EXTENDS Naturals, Sequences, FiniteSets, FiniteSetsExt

CONSTANTS Clients,     \* goroutines of requestMeteringPointValues
          TenantOf,    \* TenantOf[c]: the tenant of the client
          Checkers,    \* instances that check the open runs
          Meters, Periods,
          LockWindow, Deadline,
          MaxRuns, MaxAnswers, MaxClock

ASSUME PeriodAssumption == \A p \in Periods : p # {}
ASSUME TimeAssumption == LockWindow \in Nat \ {0} /\ Deadline \in Nat \ {0} /\ MaxClock \in Nat
ASSUME CountAssumption == MaxRuns \in Nat /\ MaxAnswers \in Nat

VARIABLES rows,     \* the notification rows, by id
          clock,
          client,   \* client[c]: what it is doing with which periods
          sent,     \* <<i, m>>: the request of run i for m was sent
          checker   \* checker[k]: the summaries it is about to write

energyVars == <<rows, clock, client, sent, checker>>

Requests == UNION {[M -> Periods] : M \in SUBSET Meters}
Results == UNION {[M -> {"accepted", "rejected", "noAnswer", "superseded"}] : M \in SUBSET Meters}

EnergyTypeOK ==
  /\ rows \in Seq([kind : {"run"}, at : Nat, tenant : {TenantOf[c] : c \in Clients},
                   periods : Requests \ {<<>>}, summary : BOOLEAN]
             \cup [kind : {"answer"}, at : Nat, meter : Meters, accepted : BOOLEAN]
             \cup [kind : {"summary"}, at : Nat, run : Nat, result : Results]
             \cup [kind : {"deleted"}, at : Nat])
  /\ clock \in 0 .. MaxClock
  /\ client \in [Clients -> [pc : {"idle", "saving", "sending"}, periods : Requests, row : Nat, failed : SUBSET Meters]]
  /\ sent \subseteq (DOMAIN rows) \X Meters
  /\ checker \in [Checkers -> SUBSET [run : Nat, result : Results]]

-----------------------------------------------------------------------------
(* Which answer belongs to which run (attribute), of the rows in view.     *)

Runs(view) == {i \in view : rows[i].kind = "run"}
Answers(view) == {k \in view : rows[k].kind = "answer"}
Requesting(view, m) == {i \in Runs(view) : m \in DOMAIN rows[i].periods}

Overlap(p, q) == p \cap q # {}

\* Later runs that request m again for an overlapping period.
Superseding(view, i, m) ==
  {j \in Requesting(view, m) : j > i /\ Overlap(rows[i].periods[m], rows[j].periods[m])}

Closed(view, i) == {s \in view : rows[s].kind = "summary" /\ rows[s].run = i}

\* The runs that can take answer k: neither superseded nor closed before it.
Takers(view, k) ==
  {i \in Requesting(view, rows[k].meter) :
     i < k /\ \A j \in Superseding(view, i, rows[k].meter) \cup Closed(view, i) : k < j}

\* The oldest of the runs without an answer yet, else the newest; 0 if none.
Takes(takers, answered) ==
  IF takers \ answered # {} THEN Min(takers \ answered)
  ELSE IF takers # {} THEN Max(takers) ELSE 0

Owners(view) ==
  LET own[k \in Answers(view)] ==
        Takes(Takers(view, k),
              {own[j] : j \in {j \in Answers(view) : j < k /\ rows[j].meter = rows[k].meter}})
  IN own

\* The latest answer for m that belongs to run i, 0 without one.
Latest(own, i, m) ==
  LET belonging == {k \in DOMAIN own : own[k] = i /\ rows[k].meter = m}
  IN IF belonging = {} THEN 0 ELSE Max(belonging)

LastRejected(own, i, m) == Latest(own, i, m) # 0 /\ ~rows[Latest(own, i, m)].accepted

\* What a summary of run i says: the latest answer counts.
Evaluate(view, i) ==
  LET own == Owners(view)
  IN [m \in DOMAIN rows[i].periods |->
        IF Latest(own, i, m) = 0
          THEN IF Superseding(view, i, m) # {} THEN "superseded" ELSE "noAnswer"
          ELSE IF LastRejected(own, i, m) THEN "rejected" ELSE "accepted"]

\* (slip: back to the runs that can be open, not to those they compete with)
LookBackOpen == Deadline + LockWindow

\* How far back rows are read: a run that can still be open, and the runs up
\* to a Deadline older, which compete with it for answers.
LookBack == 2 * Deadline + LockWindow

\* The rows every evaluation reads.
View == {i \in DOMAIN rows : rows[i].at + LookBack > clock}

Age(i) == clock - rows[i].at
Open(i) == rows[i].summary /\ Closed(View, i) = {}

Locked(t, m, p) ==
  \E i \in Requesting(View, m) :
     /\ rows[i].tenant = t /\ Age(i) < LockWindow
     /\ Overlap(rows[i].periods[m], p)
     /\ ~LastRejected(Owners(View), i, m)

-----------------------------------------------------------------------------
(* requestMeteringPointValues. *)

Nothing == [pc |-> "idle", periods |-> <<>>, row |-> 0, failed |-> {}]

EnergyInit ==
  /\ rows = <<>> /\ clock = 0 /\ sent = {}
  /\ client = [c \in Clients |-> Nothing]
  /\ checker = [k \in Checkers |-> {}]

\* (slip: without the mutex of the tenant)
TenantIsFreeAlways(t) == TRUE

TenantIsFree(t) == \A c \in Clients : TenantOf[c] = t => client[c].pc # "saving"

\* The bound on runs, and on the time in which they are made.
MayAsk ==
  /\ clock + Deadline <= MaxClock
  /\ Cardinality({i \in DOMAIN rows : rows[i].kind \in {"run", "deleted"}})
       + Cardinality({c \in Clients : client[c].pc = "saving"}) < MaxRuns

\* Take the mutex of the tenant and read the locks; what is locked is skipped.
Ask(c, wanted) ==
  /\ client[c].pc = "idle" /\ TenantIsFree(TenantOf[c]) /\ MayAsk
  /\ LET free == {m \in DOMAIN wanted : ~Locked(TenantOf[c], m, wanted[m])}
     IN /\ free # {}
        /\ client' = [client EXCEPT ![c].pc = "saving", ![c].periods = [m \in free |-> wanted[m]]]
  /\ UNCHANGED <<rows, clock, sent, checker>>

\* Store the run, with a summary if two metering points were asked for (one
\* of them may have been skipped), and release the mutex.
Save(c) ==
  /\ client[c].pc = "saving" /\ clock + Deadline <= MaxClock
  /\ \E s \in BOOLEAN :
       /\ Cardinality(DOMAIN client[c].periods) > 1 => s
       /\ rows' = Append(rows, [kind |-> "run", at |-> clock, tenant |-> TenantOf[c],
                                periods |-> client[c].periods, summary |-> s])
  /\ client' = [client EXCEPT ![c].pc = "sending", ![c].row = Len(rows')]
  /\ UNCHANGED <<clock, sent, checker>>

\* What is not stored is not sent.
SaveFails(c) ==
  /\ client[c].pc = "saving"
  /\ client' = [client EXCEPT ![c] = Nothing]
  /\ UNCHANGED <<rows, clock, sent, checker>>

Unsent(c) == {m \in DOMAIN client[c].periods \ client[c].failed : <<client[c].row, m>> \notin sent}

\* A request for which no grid operator is found fails.
Send(c, m) ==
  /\ client[c].pc = "sending" /\ m \in Unsent(c)
  /\ \/ sent' = sent \cup {<<client[c].row, m>>} /\ UNCHANGED client
     \/ client' = [client EXCEPT ![c].failed = @ \cup {m}] /\ UNCHANGED sent
  /\ UNCHANGED <<rows, clock, checker>>

\* The run is reduced to what was sent, and deleted if that is nothing.
KeepSent(c) ==
  LET i == client[c].row
      kept == DOMAIN client[c].periods \ client[c].failed
  IN rows' = [rows EXCEPT ![i] =
                IF kept = {} THEN [kind |-> "deleted", at |-> rows[i].at]
                ELSE [@ EXCEPT !.periods = [m \in kept |-> client[c].periods[m]]]]

\* Reducing the run may fail, too.  (Without a failure it changes nothing.)
Respond(c) ==
  /\ client[c].pc = "sending" /\ Unsent(c) = {}
  /\ \/ KeepSent(c)
     \/ client[c].failed # {} /\ UNCHANGED rows
  /\ client' = [client EXCEPT ![c] = Nothing]
  /\ UNCHANGED <<clock, sent, checker>>

-----------------------------------------------------------------------------
(* Answers, checks, time. *)

\* A grid operator answers a request, or answers it once more.
Answer(i, m) ==
  /\ <<i, m>> \in sent /\ Cardinality(Answers(DOMAIN rows)) < MaxAnswers
  /\ \E a \in BOOLEAN :
       rows' = Append(rows, [kind |-> "answer", at |-> clock, meter |-> m, accepted |-> a])
  /\ UNCHANGED <<clock, client, sent, checker>>

\* (slip: a run is due when its locks end)
DoneAfterLock(i, result) == (\A m \in DOMAIN result : result[m] # "noAnswer") \/ Age(i) >= LockWindow

Done(i, result) == (\A m \in DOMAIN result : result[m] # "noAnswer") \/ Age(i) >= Deadline

\* Read the rows and evaluate the open runs.
Check(k) ==
  /\ checker[k] = {}
  /\ checker' = [checker EXCEPT ![k] =
       {s \in {[run |-> i, result |-> Evaluate(View, i)] : i \in {i \in Runs(View) : Open(i)}} :
          Done(s.run, s.result)}]
  /\ checker'[k] # {}
  /\ UNCHANGED <<rows, clock, client, sent>>

\* (slip: the summaries were looked for when the rows were read)
AlreadyClosedRead(i) == FALSE

AlreadyClosed(i) == \E s \in DOMAIN rows : s > i /\ rows[s].kind = "summary" /\ rows[s].run = i

\* Write the summaries in the order of the runs, under a lock, unless another
\* instance was faster.
CloseEnergyRequest(k) ==
  /\ checker[k] # {}
  /\ LET next == CHOOSE s \in checker[k] : \A u \in checker[k] : s.run <= u.run
     IN /\ rows' = IF AlreadyClosed(next.run) THEN rows
                   ELSE Append(rows, [kind |-> "summary", at |-> clock, run |-> next.run, result |-> next.result])
        /\ checker' = [checker EXCEPT ![k] = @ \ {next}]
  /\ UNCHANGED <<clock, client, sent>>

\* An error ends the check; the next one starts anew.
CheckFails(k) ==
  /\ checker[k] # {}
  /\ checker' = [checker EXCEPT ![k] = {}]
  /\ UNCHANGED <<rows, clock, client, sent>>

\* A step of time is long: a run is stored within seconds, and checked every
\* few minutes, so one that is due is closed before the next step.
Tick ==
  /\ clock < MaxClock
  /\ \A c \in Clients : client[c].pc # "saving"
  /\ \A i \in Runs(View) : Open(i) => Age(i) < Deadline
  /\ clock' = clock + 1
  /\ UNCHANGED <<rows, client, sent, checker>>

-----------------------------------------------------------------------------
ClientStep(c) == Save(c) \/ SaveFails(c) \/ Respond(c) \/ \E m \in Meters : Send(c, m)

EnergyNext ==
  \/ \E c \in Clients : ClientStep(c) \/ \E wanted \in Requests : Ask(c, wanted)
  \/ \E i \in DOMAIN rows, m \in Meters : Answer(i, m)
  \/ \E k \in Checkers : Check(k) \/ CloseEnergyRequest(k) \/ CheckFails(k)
  \/ Tick

EnergySpec == EnergyInit /\ [][EnergyNext]_energyVars

-----------------------------------------------------------------------------
\* "A summary is written once", by overlapping checks and by two instances.
OneSummaryPerRun ==
  \A s, u \in DOMAIN rows :
     rows[s].kind = "summary" /\ rows[u].kind = "summary" /\ rows[s].run = rows[u].run => s = u

\* Two clients of a tenant never request the same days of a metering point
\* within LockWindow, unless it was rejected in between.
NoDoubleRequest ==
  \A j \in Runs(DOMAIN rows) : \A i \in Runs(DOMAIN rows) : \A m \in DOMAIN rows[i].periods \cap DOMAIN rows[j].periods :
     /\ i < j /\ rows[i].tenant = rows[j].tenant
     /\ Overlap(rows[i].periods[m], rows[j].periods[m])
     /\ rows[j].at < rows[i].at + LockWindow
     => \E k \in Answers(i .. j) : rows[k].meter = m /\ ~rows[k].accepted

\* Lock, list and check see an answer with the run it belongs to, although
\* they read a part of the rows: "the owner of an answer stays in the set".
OwnerStays ==
  \A i \in Runs(View) : Open(i) => Evaluate(View, i) = Evaluate(DOMAIN rows, i)

\* The owner does stay for run i when every older run gets a summary, or is at
\* most a Deadline older, and none that dropped out of view was still open when
\* one between, in view, asked for the same metering point.  (It is not enough
\* that such a run is too old to compete with run i itself: an answer it took
\* leaves the one between waiting for the answer that, in view, run i gets.)
OlderRunsClose(i) == \A j \in Runs(1 .. i) : rows[j].summary \/ rows[j].at + Deadline >= rows[i].at

NoneBetween(i) ==
  \A j \in Runs(DOMAIN rows) \ View, r \in Runs(1 .. i - 1) \cap View :
     DOMAIN rows[j].periods \cap DOMAIN rows[r].periods # {} => rows[j].at + Deadline < rows[r].at

OwnerOfRunsStays ==
  \A i \in Runs(View) :
     Open(i) /\ OlderRunsClose(i) /\ NoneBetween(i) => Evaluate(View, i) = Evaluate(DOMAIN rows, i)

\* A summary says "no answer" only when the deadline has passed, also if the
\* run was requested again or reduced while the check was under way.
NoAnswerMeansDeadline ==
  \A s \in DOMAIN rows : rows[s].kind = "summary" =>
     \A m \in DOMAIN rows[s].result :
        rows[s].result[m] = "noAnswer" => rows[s].at >= rows[rows[s].run].at + Deadline
=============================================================================
