----------------------------- MODULE MailWorker -----------------------------
(***************************************************************************)
(* The worker that sends the mails of the EDA handlers, outside the loop   *)
(* that handles their messages: a bounded queue in memory, one caller (the *)
(* loop) that queues jobs and must never block, one goroutine that sends   *)
(* them one at a time, and a stop with two time limits.                    *)
(*                                                                         *)
(* A job is a sequence of attempts; an attempt may carry a key, and what   *)
(* it comes to is decided by the mail server.  A time limit is an action   *)
(* that may happen at any time once the limit runs.                        *)
(***************************************************************************)
EXTENDS Naturals, Sequences, FiniteSets

CONSTANTS Jobs,        \* mail jobs, each queued at most once
          Keys,        \* dedupe keys
          NoKey,       \* an attempt without a dedupe key
          KeysOf,      \* KeysOf[j]: the keys of the attempts of job j, in order
          QueueSize,   \* MailQueueSize
          NoJob

ASSUME QueueAssumption == QueueSize \in Nat \ {0}
ASSUME JobsAssumption == /\ NoJob \notin Jobs /\ NoKey \notin Keys
                         /\ KeysOf \in [Jobs -> Seq(Keys \cup {NoKey})]

VARIABLES queue,     \* the channel of jobs
          closed,    \* the channel is closed, and w.closed says so
          caller,    \* the goroutine that calls Enqueue
          worker,    \* the goroutine of Start
          stopper,   \* the goroutine that calls Stop
          result,    \* result[j][i]: what is known of attempt i of job j
          lost       \* jobs that Stop gave up without a report

mailVars == <<queue, closed, caller, worker, stopper, result, lost>>

\* A mail the server did not confirm, or that reached only some recipients,
\* counts as sent (and is reported): "unconfirmed".
CountsAsSent == {"sent", "unconfirmed"}
Outcomes == CountsAsSent \cup {"failed", "panicked"}

\* An attempt without an outcome is still open, skipped for its key, or
\* reported with ErrMailNotQueued.
Results == Outcomes \cup {"open", "skipped", "notQueued"}

Last(j) == Len(KeysOf[j])
Tried(j) == {i \in 1 .. Last(j) : result[j][i] \in Outcomes}
Asked(j) == j = caller.job \/ j \in caller.past

MailTypeOK ==
  /\ queue \in Seq(Jobs) /\ Len(queue) <= QueueSize
  /\ closed \in BOOLEAN
  /\ caller \in [pc : {"idle", "open", "refused"}, job : Jobs \cup {NoJob}, at : Nat, past : SUBSET Jobs]
  /\ worker \in [pc : {"idle", "sending", "done"}, job : Jobs \cup {NoJob}, at : Nat, sent : SUBSET Keys]
  /\ stopper \in [pc : {"up", "waiting", "draining", "reporting", "returned"},
                  job : Jobs \cup {NoJob}, at : Nat]
  /\ DOMAIN result = Jobs /\ \A j \in Jobs : result[j] \in [1 .. Last(j) -> Results]
  /\ lost \in SUBSET Jobs

MailInit ==
  /\ queue = <<>> /\ closed = FALSE /\ lost = {}
  /\ caller = [pc |-> "idle", job |-> NoJob, at |-> 0, past |-> {}]
  /\ worker = [pc |-> "idle", job |-> NoJob, at |-> 0, sent |-> {}]
  /\ stopper = [pc |-> "up", job |-> NoJob, at |-> 0]
  /\ result = [j \in Jobs |-> [i \in 1 .. Last(j) |-> "open"]]

-----------------------------------------------------------------------------
(* Enqueue. *)

\* Take the read lock and look whether the worker is stopped.
Enqueue(j) ==
  /\ caller.pc = "idle" /\ j \notin caller.past
  /\ caller' = [caller EXCEPT !.pc = IF closed THEN "refused" ELSE "open", !.job = j, !.at = 1]
  /\ UNCHANGED <<queue, closed, worker, stopper, result, lost>>

Return == [caller EXCEPT !.pc = "idle", !.job = NoJob, !.at = 0, !.past = @ \cup {caller.job}]

\* Put the job into the queue if there is a place; release the read lock.
TryQueue ==
  /\ caller.pc = "open"
  /\ IF Len(queue) < QueueSize
       THEN queue' = Append(queue, caller.job) /\ caller' = Return
       ELSE caller' = [caller EXCEPT !.pc = "refused"] /\ UNCHANGED queue
  /\ UNCHANGED <<closed, worker, stopper, result, lost>>

\* Report one attempt of a refused job after the other.
Refuse ==
  /\ caller.pc = "refused"
  /\ IF caller.at <= Last(caller.job)
       THEN /\ result' = [result EXCEPT ![caller.job][caller.at] = "notQueued"]
            /\ caller' = [caller EXCEPT !.at = @ + 1]
       ELSE caller' = Return /\ UNCHANGED result
  /\ UNCHANGED <<queue, closed, worker, stopper, lost>>

CallerStep == TryQueue \/ Refuse

-----------------------------------------------------------------------------
(* The worker. *)

Take ==
  /\ worker.pc = "idle" /\ queue # <<>>
  /\ worker' = [pc |-> "sending", job |-> Head(queue), at |-> 1, sent |-> {}]
  /\ queue' = Tail(queue)
  /\ UNCHANGED <<closed, caller, stopper, result, lost>>

\* (slip: only a confirmed mail is remembered)
RemembersConfirmed(o) == o = "sent"

\* An attempt that was, or probably was, sent is not repeated for its key.
Remembers(o) == o \in CountsAsSent

Attempt ==
  /\ worker.pc = "sending" /\ worker.at <= Last(worker.job)
  /\ LET key == KeysOf[worker.job][worker.at]
         outcome(o) == result' = [result EXCEPT ![worker.job][worker.at] = o]
     IN \/ /\ key \in worker.sent
           /\ outcome("skipped")
           /\ worker' = [worker EXCEPT !.at = @ + 1]
        \/ /\ key \notin worker.sent
           /\ \E o \in Outcomes :
                /\ outcome(o)
                /\ worker' = [worker EXCEPT !.at = @ + 1,
                                            !.sent = IF Remembers(o) /\ key # NoKey THEN @ \cup {key} ELSE @]
  /\ UNCHANGED <<queue, closed, caller, stopper, lost>>

JobDone ==
  /\ worker.pc = "sending" /\ worker.at > Last(worker.job)
  /\ worker' = [pc |-> "idle", job |-> NoJob, at |-> 0, sent |-> {}]
  /\ UNCHANGED <<queue, closed, caller, stopper, result, lost>>

\* (slip: a closed queue ends it, whatever is queued)
WorkerEndsAtOnce ==
  /\ worker.pc = "idle" /\ closed
  /\ worker' = [worker EXCEPT !.pc = "done"]
  /\ UNCHANGED <<queue, closed, caller, stopper, result, lost>>

\* The queue is closed and empty: the goroutine ends and closes done.
WorkerEnds ==
  /\ worker.pc = "idle" /\ queue = <<>> /\ closed
  /\ worker' = [worker EXCEPT !.pc = "done"]
  /\ UNCHANGED <<queue, closed, caller, stopper, result, lost>>

WorkerStep == Take \/ Attempt \/ JobDone \/ WorkerEnds

-----------------------------------------------------------------------------
(* Stop. *)

\* (slip: without the lock)
CloseUnlocked ==
  /\ stopper.pc = "up"
  /\ closed' = TRUE /\ stopper' = [stopper EXCEPT !.pc = "waiting"]
  /\ UNCHANGED <<queue, caller, worker, result, lost>>

\* Under the write lock: nobody is between looking and sending.
Close ==
  /\ stopper.pc = "up" /\ caller.pc # "open"
  /\ closed' = TRUE /\ stopper' = [stopper EXCEPT !.pc = "waiting"]
  /\ UNCHANGED <<queue, caller, worker, result, lost>>

Finished ==
  /\ stopper.pc = "waiting" /\ worker.pc = "done"
  /\ stopper' = [stopper EXCEPT !.pc = "returned"]
  /\ UNCHANGED <<queue, closed, caller, worker, result, lost>>

\* (slip: the limit is looked at between two mails only)
LimitBetweenMails ==
  /\ stopper.pc = "waiting" /\ worker.pc = "idle"
  /\ stopper' = [stopper EXCEPT !.pc = "draining"]
  /\ UNCHANGED <<queue, closed, caller, worker, result, lost>>

LimitReached ==
  /\ stopper.pc = "waiting"
  /\ stopper' = [stopper EXCEPT !.pc = "draining"]
  /\ UNCHANGED <<queue, closed, caller, worker, result, lost>>

\* (slip: look at the job, leave it in the queue)
DrainPeeks ==
  /\ stopper.pc = "draining"
  /\ IF queue = <<>>
       THEN stopper' = [stopper EXCEPT !.pc = "returned"] /\ UNCHANGED <<queue, lost>>
       ELSE \/ /\ stopper' = [stopper EXCEPT !.pc = "reporting", !.job = Head(queue), !.at = 1]
               /\ UNCHANGED <<queue, lost>>
            \/ /\ stopper' = [stopper EXCEPT !.pc = "returned"]
               /\ lost' = {queue[i] : i \in DOMAIN queue}
               /\ UNCHANGED queue
  /\ UNCHANGED <<closed, caller, worker, result>>

\* Take a job that is left, as the worker may still do at the same time;
\* after the second limit it and the rest of the queue are given up.
Drain ==
  /\ stopper.pc = "draining"
  /\ IF queue = <<>>
       THEN stopper' = [stopper EXCEPT !.pc = "returned"] /\ UNCHANGED <<queue, lost>>
       ELSE /\ queue' = Tail(queue)
            /\ \/ /\ stopper' = [stopper EXCEPT !.pc = "reporting", !.job = Head(queue), !.at = 1]
                  /\ UNCHANGED lost
               \/ /\ stopper' = [stopper EXCEPT !.pc = "returned"]
                  /\ lost' = {queue[i] : i \in DOMAIN queue}
  /\ UNCHANGED <<closed, caller, worker, result>>

\* (slip: the first attempt of a job stands for all)
ReportLeftOnce ==
  /\ stopper.pc = "reporting"
  /\ IF stopper.at <= 1
       THEN /\ result' = [result EXCEPT ![stopper.job][stopper.at] = "notQueued"]
            /\ stopper' = [stopper EXCEPT !.at = @ + 1]
       ELSE stopper' = [stopper EXCEPT !.pc = "draining", !.job = NoJob, !.at = 0] /\ UNCHANGED result
  /\ UNCHANGED <<queue, closed, caller, worker, lost>>

ReportLeft ==
  /\ stopper.pc = "reporting"
  /\ IF stopper.at <= Last(stopper.job)
       THEN /\ result' = [result EXCEPT ![stopper.job][stopper.at] = "notQueued"]
            /\ stopper' = [stopper EXCEPT !.at = @ + 1]
       ELSE stopper' = [stopper EXCEPT !.pc = "draining", !.job = NoJob, !.at = 0] /\ UNCHANGED result
  /\ UNCHANGED <<queue, closed, caller, worker, lost>>

StopStep == Finished \/ LimitReached \/ Drain \/ ReportLeft

-----------------------------------------------------------------------------
MailNext == \/ \E j \in Jobs : Enqueue(j)
            \/ CallerStep \/ WorkerStep
            \/ Close \/ StopStep

\* The goroutines run on, every notification is written, the limits run out.
\* A mail may hang; nobody has to queue a mail or to stop.
MailFairness == /\ WF_mailVars(CallerStep)
                /\ WF_mailVars(Take \/ JobDone \/ WorkerEnds)
                /\ WF_mailVars(StopStep)

MailSpec == MailInit /\ [][MailNext]_mailVars /\ MailFairness

-----------------------------------------------------------------------------
\* Nothing is sent on a closed channel: that would panic in the loop of the
\* broker (tryQueue and Stop share a lock for it).
NeverOnClosedChannel == caller.pc = "open" => ~closed

\* ErrMailNotQueued tells the community that "the mail did not go out": no
\* attempt of such a job was or will be made, by whomever it was reported.
NotQueuedIsTrue ==
  \A j \in Jobs : (\E i \in 1 .. Last(j) : result[j][i] = "notQueued") =>
                     Tried(j) = {} /\ j # worker.job /\ \A i \in DOMAIN queue : queue[i] # j

\* In one job nobody is mailed twice under the same key, also when the first
\* mail was not confirmed.
MailedOnce ==
  \A j \in Jobs : \A a, b \in 1 .. Last(j) :
     /\ a # b /\ KeysOf[j][a] = KeysOf[j][b] /\ KeysOf[j][a] # NoKey
     /\ result[j][a] \in CountsAsSent
     => result[j][b] \notin CountsAsSent

\* No job vanishes: whatever was passed to Enqueue is in somebody's hands,
\* settled attempt by attempt, or counted by Stop as lost without a report.
Accounted ==
  \A j \in Jobs : Asked(j) =>
     \/ j \in lost \cup {caller.job, worker.job, stopper.job}
     \/ \E i \in DOMAIN queue : queue[i] = j
     \/ \A i \in 1 .. Last(j) : result[j][i] # "open"

\* Stop comes back, however many mails are queued and even if one hangs: the
\* pod has 30 s.
StopReturns == closed ~> stopper.pc = "returned"

\* If no mail hangs for ever, every job is settled in the end, unless Stop
\* gave it up.
EveryJobSettles ==
  []<>(worker.pc # "sending") =>
     \A j \in Jobs : Asked(j) ~> (j \in lost \/ \A i \in 1 .. Last(j) : result[j][i] # "open")
=============================================================================
