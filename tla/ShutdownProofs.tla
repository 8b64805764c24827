--------------------------- MODULE ShutdownProofs ---------------------------
(***************************************************************************)
(* Proofs about MailWorker, MessageBroker and Shutdown, for any number of  *)
(* mails, messages and requests: what no interleaving of their goroutines  *)
(* can lose or send twice.                                                 *)
(***************************************************************************)
EXTENDS Shutdown, FiniteSetTheorems, TLAPS

-----------------------------------------------------------------------------
(* The queue of the mail worker. *)

Elements(q) == {q[i] : i \in DOMAIN q}
Distinct(q) == \A i, k \in DOMAIN q : q[i] = q[k] => i = k

LEMMA QueueAppends ==
  ASSUME NEW q \in Seq(Jobs), NEW j \in Jobs, Distinct(q), j \notin Elements(q)
  PROVE  /\ Append(q, j) \in Seq(Jobs) /\ Distinct(Append(q, j))
         /\ Elements(Append(q, j)) = Elements(q) \cup {j}
<1>1. /\ Append(q, j) \in Seq(Jobs) /\ DOMAIN Append(q, j) = 1 .. Len(q) + 1
      /\ DOMAIN q = 1 .. Len(q) /\ Len(q) \in Nat
  OBVIOUS
<1>2. \A i \in 1 .. Len(q) + 1 : Append(q, j)[i] = IF i = Len(q) + 1 THEN j ELSE q[i]
  OBVIOUS
<1>3. Distinct(Append(q, j))
  BY <1>1, <1>2 DEF Distinct, Elements
<1>4. Elements(Append(q, j)) = Elements(q) \cup {j}
  BY <1>1, <1>2 DEF Elements
<1> QED
  BY <1>1, <1>3, <1>4

LEMMA QueueTakes ==
  ASSUME NEW q \in Seq(Jobs), q # << >>, Distinct(q)
  PROVE  /\ Tail(q) \in Seq(Jobs) /\ Distinct(Tail(q))
         /\ Head(q) \in Elements(q) /\ Elements(Tail(q)) = Elements(q) \ {Head(q)}
<1>1. /\ Tail(q) \in Seq(Jobs) /\ DOMAIN Tail(q) = 1 .. Len(q) - 1
      /\ DOMAIN q = 1 .. Len(q) /\ Len(q) \in Nat \ {0} /\ Head(q) = q[1]
  OBVIOUS
<1>2. \A i \in 1 .. Len(q) - 1 : Tail(q)[i] = q[i + 1]
  OBVIOUS
<1>3. Distinct(Tail(q))
  <2>1. ASSUME NEW i \in 1 .. Len(q) - 1, NEW k \in 1 .. Len(q) - 1, Tail(q)[i] = Tail(q)[k]
        PROVE  i = k
    <3>1. q[i + 1] = q[k + 1] /\ i + 1 \in DOMAIN q /\ k + 1 \in DOMAIN q
      BY <1>1, <1>2, <2>1
    <3> QED
      BY <1>1, <3>1 DEF Distinct
  <2> QED
    BY <1>1, <2>1 DEF Distinct
<1>4. Head(q) \in Elements(q)
  BY <1>1 DEF Elements
<1>5. \A j \in Elements(Tail(q)) : j \in Elements(q) \ {Head(q)}
  <2>1. ASSUME NEW i \in 1 .. Len(q) - 1
        PROVE  q[i + 1] \in Elements(q) /\ q[i + 1] # q[1]
    BY <1>1 DEF Elements, Distinct
  <2> QED
    BY <1>1, <1>2, <2>1 DEF Elements
<1>6. \A j \in Elements(q) \ {Head(q)} : j \in Elements(Tail(q))
  <2>1. ASSUME NEW i \in 1 .. Len(q), i # 1
        PROVE  q[i] \in Elements(Tail(q))
    <3>1. i - 1 \in 1 .. Len(q) - 1 /\ (i - 1) + 1 = i
      BY <1>1, <2>1
    <3>2. i - 1 \in DOMAIN Tail(q) /\ Tail(q)[i - 1] = q[i]
      BY <1>1, <1>2, <3>1
    <3> QED
      BY <3>2 DEF Elements
  <2> QED
    BY <1>1, <2>1 DEF Elements
<1> QED
  BY <1>1, <1>3, <1>4, <1>5, <1>6

-----------------------------------------------------------------------------
(* Where a job is, and what is known of it. *)

Attempts == Outcomes \cup {"skipped"}
Queued(j) == j \in Elements(queue)
Untouched(j) == \A i \in 1 .. Last(j) : result[j][i] = "open"
Settled(j) == \A i \in 1 .. Last(j) : result[j][i] # "open"
ReportedTo(j, n) == \A i \in 1 .. Last(j) : result[j][i] = IF i < n THEN "notQueued" ELSE "open"
AttemptedTo(j, n) == \A i \in 1 .. Last(j) : IF i < n THEN result[j][i] \in Attempts
                                                      ELSE result[j][i] = "open"

\* Every job is in the hands of one goroutine, or in the queue, once.
OnePlace ==
  /\ caller.pc = "idle" <=> caller.job = NoJob
  /\ worker.pc = "sending" <=> worker.job # NoJob
  /\ stopper.pc = "reporting" <=> stopper.job # NoJob
  /\ caller.pc = "open" => caller.at = 1
  /\ caller.pc = "refused" => caller.at # 0
  /\ worker.pc = "sending" => worker.at # 0
  /\ stopper.pc = "reporting" => stopper.at # 0
  /\ caller.job \notin caller.past
  /\ Distinct(queue) /\ Elements(queue) \subseteq caller.past
  /\ {worker.job, stopper.job} \subseteq caller.past \cup {NoJob}
  /\ ~Queued(worker.job) /\ ~Queued(stopper.job)
  /\ worker.job = stopper.job => worker.job = NoJob

\* What is known of a job tells where it is.
Progress ==
  /\ \A j \in Jobs : ~Asked(j) \/ Queued(j) => Untouched(j)
  /\ caller.pc = "open" => Untouched(caller.job)
  /\ caller.pc = "refused" => ReportedTo(caller.job, caller.at)
  /\ stopper.pc = "reporting" => ReportedTo(stopper.job, stopper.at)
  /\ worker.pc = "sending" => AttemptedTo(worker.job, worker.at)
  /\ stopper.pc # "returned" => lost = {}
  /\ \A j \in caller.past : Queued(j) \/ j \in lost \cup {worker.job, stopper.job} \/ Settled(j)

\* No job is reported and tried.
ReportsTrue ==
  \A j \in Jobs : (\E i \in 1 .. Last(j) : result[j][i] = "notQueued") =>
                     \A i \in 1 .. Last(j) : result[j][i] \in {"notQueued", "open"}

\* The worker remembers the keys it has mailed to.
KeysRemembered ==
  worker.pc = "sending" =>
     \A a \in 1 .. Last(worker.job) :
        /\ a < worker.at /\ result[worker.job][a] \in CountsAsSent
        /\ KeysOf[worker.job][a] # NoKey
        => KeysOf[worker.job][a] \in worker.sent

MailInv == /\ MailTypeOK /\ OnePlace /\ Progress /\ ReportsTrue /\ KeysRemembered
           /\ MailedOnce /\ NeverOnClosedChannel

LEMMA LastIsNat == \A j \in Jobs : Last(j) \in Nat
BY JobsAssumption DEF Last

\* What recording one outcome does to the results.
LEMMA OutcomeSet ==
  ASSUME MailTypeOK, NEW j \in Jobs, NEW i \in 1 .. Last(j), NEW o \in Results,
         result' = [result EXCEPT ![j][i] = o]
  PROVE  /\ DOMAIN result' = Jobs /\ \A k \in Jobs : result'[k] \in [1 .. Last(k) -> Results]
         /\ \A k \in Jobs : \A n \in 1 .. Last(k) :
              result'[k][n] = IF k = j /\ n = i THEN o ELSE result[k][n]
<1>1. DOMAIN result = Jobs /\ \A k \in Jobs : result[k] \in [1 .. Last(k) -> Results]
  BY DEF MailTypeOK
<1>2. result' = [result EXCEPT ![j] = [result[j] EXCEPT ![i] = o]]
  OBVIOUS
<1>3. DOMAIN result' = Jobs /\ \A k \in Jobs : result'[k] = IF k = j THEN [result[j] EXCEPT ![i] = o] ELSE result[k]
  BY <1>1, <1>2
<1> QED
  BY <1>1, <1>3

LEMMA MailStarts == MailInit => MailInv
<1> SUFFICES ASSUME MailInit PROVE MailInv
  OBVIOUS
<1> USE DEF MailInit
<1>1. MailTypeOK
  <2>1. queue \in Seq(Jobs) /\ Len(queue) <= QueueSize
    BY QueueAssumption
  <2>2. \A j \in Jobs : result[j] \in [1 .. Last(j) -> Results]
    BY DEF Results
  <2> QED
    BY <2>1, <2>2 DEF MailTypeOK
<1>2. Elements(queue) = {} /\ Distinct(queue)
  BY DEF Elements, Distinct
<1>3. OnePlace
  BY <1>2, JobsAssumption DEF OnePlace, Queued
<1>4. \A j \in Jobs : Untouched(j)
  BY DEF Untouched
<1>5. Progress
  BY <1>4 DEF Progress
<1>6. ReportsTrue
  BY <1>4 DEF ReportsTrue, Untouched
<1>7. KeysRemembered
  BY DEF KeysRemembered
<1>8. MailedOnce
  BY <1>4 DEF MailedOnce, Untouched, CountsAsSent
<1>9. NeverOnClosedChannel
  BY DEF NeverOnClosedChannel
<1> QED
  BY <1>1, <1>3, <1>5, <1>6, <1>7, <1>8, <1>9 DEF MailInv

\* One more attempt of a refused job is reported.
LEMMA OneMoreReported ==
  ASSUME MailInv, NEW j \in Jobs, NEW n \in Nat \ {0}, n <= Last(j), ReportedTo(j, n),
         result' = [result EXCEPT ![j][n] = "notQueued"]
  PROVE  /\ DOMAIN result' = Jobs /\ \A k \in Jobs : result'[k] \in [1 .. Last(k) -> Results]
         /\ \A k \in Jobs \ {j} : \A i \in 1 .. Last(k) : result'[k][i] = result[k][i]
         /\ \A i \in 1 .. Last(j) : result'[j][i] = IF i < n + 1 THEN "notQueued" ELSE "open"
         /\ ReportsTrue' /\ MailedOnce'
<1>1. n \in 1 .. Last(j) /\ "notQueued" \in Results
  BY LastIsNat DEF Results
<1>2. /\ DOMAIN result' = Jobs /\ \A k \in Jobs : result'[k] \in [1 .. Last(k) -> Results]
      /\ \A k \in Jobs : \A i \in 1 .. Last(k) :
           result'[k][i] = IF k = j /\ i = n THEN "notQueued" ELSE result[k][i]
  <2>1. MailTypeOK
    BY DEF MailInv
  <2> QED
    BY <1>1, <2>1, OutcomeSet, ZenonT(40)
<1>3. \A k \in Jobs \ {j} : \A i \in 1 .. Last(k) : result'[k][i] = result[k][i]
  BY <1>2
<1>4. \A i \in 1 .. Last(j) : result'[j][i] = IF i < n + 1 THEN "notQueued" ELSE "open"
  BY <1>2, LastIsNat DEF ReportedTo
<1>5. ReportsTrue'
  BY <1>3, <1>4 DEF MailInv, ReportsTrue, Last
<1>6. MailedOnce'
  BY <1>3, <1>4 DEF MailInv, MailedOnce, CountsAsSent, Last
<1> QED
  BY <1>2, <1>3, <1>4, <1>5, <1>6

-----------------------------------------------------------------------------
(* The steps of the goroutine that queues. *)

LEMMA EnqueueKeeps ==
  ASSUME MailInv, NEW j \in Jobs, Enqueue(j)
  PROVE  MailInv'
<1> USE DEF MailInv
<1>1. /\ caller.pc = "idle" /\ j \notin caller.past
      /\ caller'.pc = (IF closed THEN "refused" ELSE "open")
      /\ caller'.job = j /\ caller'.at = 1 /\ caller'.past = caller.past
      /\ caller' \in [pc : {"idle", "open", "refused"}, job : Jobs \cup {NoJob}, at : Nat, past : SUBSET Jobs]
      /\ UNCHANGED <<queue, closed, worker, stopper, result, lost>>
  BY DEF Enqueue, MailTypeOK
<1>2. caller.job = NoJob /\ j # NoJob
  BY <1>1, JobsAssumption DEF OnePlace
<1>3. MailTypeOK'
  BY <1>1 DEF MailTypeOK, Last
<1>4. OnePlace'
  BY <1>1, <1>2 DEF OnePlace, Queued, Elements, Distinct
<1>5. Untouched(j)
  BY <1>1, <1>2 DEF Progress, Asked
<1>6. ReportedTo(j, 1)
  BY <1>5, LastIsNat DEF Untouched, ReportedTo
<1>7. Progress'
  <2>1. (\A k \in Jobs : ~Asked(k) \/ Queued(k) => Untouched(k))'
    <3>1. \A k \in Jobs : Asked(k) => Asked(k)'
      BY <1>1, <1>2, JobsAssumption DEF Asked
    <3>2. \A k \in Jobs : ~Asked(k) \/ Queued(k) => Untouched(k)
      BY DEF Progress
    <3> QED
      BY <1>1, <3>1, <3>2 DEF Queued, Elements, Untouched, Last
  <2>2. (caller.pc = "open" => Untouched(caller.job))'
    BY <1>1, <1>5 DEF Untouched, Last
  <2>3. (caller.pc = "refused" => ReportedTo(caller.job, caller.at))'
    BY <1>1, <1>6 DEF ReportedTo, Last
  <2> QED
    BY <1>1, <2>1, <2>2, <2>3 DEF Progress, ReportedTo, AttemptedTo, Settled, Queued, Elements, Last
<1> QED
  BY <1>1, <1>3, <1>4, <1>7
     DEF ReportsTrue, KeysRemembered, MailedOnce, NeverOnClosedChannel, Last

\* The caller is idle again, and remembers its job as queued or refused.
LEMMA CallerReturns ==
  ASSUME caller \in [pc : {"idle", "open", "refused"}, job : Jobs \cup {NoJob}, at : Nat, past : SUBSET Jobs],
         caller.job \in Jobs
  PROVE  /\ Return.pc = "idle" /\ Return.job = NoJob /\ Return.at = 0
         /\ Return.past = caller.past \cup {caller.job}
         /\ Return \in [pc : {"idle", "open", "refused"}, job : Jobs \cup {NoJob}, at : Nat, past : SUBSET Jobs]
BY DEF Return

LEMMA TryQueueKeeps ==
  ASSUME MailInv, TryQueue
  PROVE  MailInv'
<1> USE DEF MailInv
<1>1. /\ caller.pc = "open" /\ caller.at = 1 /\ caller.job \in Jobs /\ caller.job # NoJob
      /\ UNCHANGED <<closed, worker, stopper, result, lost>>
  BY JobsAssumption DEF TryQueue, OnePlace, MailTypeOK
<1>2. ~closed
  BY <1>1 DEF NeverOnClosedChannel
<1>3. Untouched(caller.job) /\ caller.job \notin Elements(queue) /\ caller.job \notin caller.past
  BY <1>1 DEF Progress, OnePlace
<1>4. CASE Len(queue) < QueueSize
  <2>1. /\ queue' = Append(queue, caller.job)
        /\ caller'.pc = "idle" /\ caller'.job = NoJob /\ caller'.at = 0
        /\ caller'.past = caller.past \cup {caller.job}
        /\ caller' \in [pc : {"idle", "open", "refused"}, job : Jobs \cup {NoJob}, at : Nat, past : SUBSET Jobs]
    <3>1. queue' = Append(queue, caller.job) /\ caller' = Return
      BY <1>4 DEF TryQueue
    <3> QED
      BY <1>1, <3>1, CallerReturns DEF MailTypeOK
  <2>2. queue' \in Seq(Jobs) /\ Distinct(queue') /\ Elements(queue') = Elements(queue) \cup {caller.job}
    BY <1>1, <1>3, <2>1, QueueAppends DEF MailTypeOK, OnePlace
  <2>3. Len(queue') <= QueueSize
    BY <1>4, <2>1, QueueAssumption DEF MailTypeOK
  <2>4. MailTypeOK'
    BY <1>1, <2>1, <2>2, <2>3 DEF MailTypeOK, Last
  <2>5. OnePlace'
    BY <1>1, <1>3, <2>1, <2>2, JobsAssumption DEF OnePlace, Queued
  <2>6. Progress'
    <3>1. (\A k \in Jobs : ~Asked(k) \/ Queued(k) => Untouched(k))'
      BY <1>1, <1>3, <2>1, <2>2 DEF Progress, Asked, Queued, Untouched, Last
    <3>2. (\A k \in caller.past : Queued(k) \/ k \in lost \cup {worker.job, stopper.job} \/ Settled(k))'
      BY <1>1, <2>1, <2>2 DEF Progress, Queued, Settled, Last
    <3> QED
      BY <1>1, <2>1, <3>1, <3>2 DEF Progress, ReportedTo, AttemptedTo, Last
  <2> QED
    BY <1>1, <2>1, <2>4, <2>5, <2>6
       DEF ReportsTrue, KeysRemembered, MailedOnce, NeverOnClosedChannel, Last
<1>5. CASE ~(Len(queue) < QueueSize)
  <2>1. /\ queue' = queue /\ caller'.pc = "refused"
        /\ caller'.job = caller.job /\ caller'.at = 1 /\ caller'.past = caller.past
        /\ caller' \in [pc : {"idle", "open", "refused"}, job : Jobs \cup {NoJob}, at : Nat, past : SUBSET Jobs]
    BY <1>1, <1>5 DEF TryQueue, MailTypeOK
  <2>2. MailTypeOK'
    BY <1>1, <2>1 DEF MailTypeOK, Last
  <2>3. OnePlace'
    BY <1>1, <2>1 DEF OnePlace, Queued, Elements, Distinct
  <2>4. ReportedTo(caller.job, 1)
    BY <1>1, <1>3, LastIsNat DEF Untouched, ReportedTo
  <2>5. Progress'
    <3>1. (\A k \in Jobs : ~Asked(k) \/ Queued(k) => Untouched(k))'
      BY <1>1, <2>1 DEF Progress, Asked, Queued, Elements, Untouched, Last
    <3>2. (caller.pc = "refused" => ReportedTo(caller.job, caller.at))'
      BY <1>1, <2>1, <2>4 DEF ReportedTo, Last
    <3> QED
      BY <1>1, <2>1, <3>1, <3>2 DEF Progress, ReportedTo, AttemptedTo, Settled, Queued, Elements, Last
  <2> QED
    BY <1>1, <2>1, <2>2, <2>3, <2>5
       DEF ReportsTrue, KeysRemembered, MailedOnce, NeverOnClosedChannel, Last
<1> QED
  BY <1>4, <1>5

LEMMA RefuseKeeps ==
  ASSUME MailInv, Refuse
  PROVE  MailInv'
<1> USE DEF MailInv
<1>1. /\ caller.pc = "refused" /\ caller.at \in Nat \ {0} /\ caller.job \in Jobs /\ caller.job # NoJob
      /\ UNCHANGED <<queue, closed, worker, stopper, lost>>
  BY JobsAssumption DEF Refuse, OnePlace, MailTypeOK
<1>2. ReportedTo(caller.job, caller.at) /\ caller.job \notin Elements(queue) /\ caller.job \notin caller.past
  BY <1>1 DEF Progress, OnePlace
<1>3. caller.job # worker.job /\ caller.job # stopper.job
  BY <1>1, <1>2 DEF OnePlace
<1>4. CASE caller.at <= Last(caller.job)
  <2>1. /\ result' = [result EXCEPT ![caller.job][caller.at] = "notQueued"]
        /\ caller'.pc = "refused" /\ caller'.job = caller.job /\ caller'.at = caller.at + 1
        /\ caller'.past = caller.past
        /\ caller' \in [pc : {"idle", "open", "refused"}, job : Jobs \cup {NoJob}, at : Nat, past : SUBSET Jobs]
    BY <1>1, <1>4 DEF Refuse, MailTypeOK
  <2>2. /\ DOMAIN result' = Jobs /\ \A k \in Jobs : result'[k] \in [1 .. Last(k) -> Results]
        /\ \A k \in Jobs \ {caller.job} : \A i \in 1 .. Last(k) : result'[k][i] = result[k][i]
        /\ \A i \in 1 .. Last(caller.job) :
             result'[caller.job][i] = IF i < caller.at + 1 THEN "notQueued" ELSE "open"
        /\ ReportsTrue' /\ MailedOnce'
    BY <1>1, <1>2, <1>4, <2>1, OneMoreReported
  <2>3. MailTypeOK'
    BY <1>1, <2>1, <2>2 DEF MailTypeOK, Last
  <2>4. OnePlace'
    BY <1>1, <2>1 DEF OnePlace, Queued, Elements, Distinct
  <2>5. Progress'
    <3>1. (\A k \in Jobs : ~Asked(k) \/ Queued(k) => Untouched(k))'
      BY <1>1, <1>2, <2>1, <2>2 DEF Progress, Asked, Queued, Elements, Untouched, Last
    <3>2. (caller.pc = "refused" => ReportedTo(caller.job, caller.at))'
      BY <2>1, <2>2 DEF ReportedTo, Last
    <3>3. (stopper.pc = "reporting" => ReportedTo(stopper.job, stopper.at))'
      BY <1>1, <1>3, <2>2 DEF Progress, ReportedTo, OnePlace, MailTypeOK, Last
    <3>4. (worker.pc = "sending" => AttemptedTo(worker.job, worker.at))'
      BY <1>1, <1>3, <2>2 DEF Progress, AttemptedTo, OnePlace, MailTypeOK, Last
    <3>5. (\A k \in caller.past : Queued(k) \/ k \in lost \cup {worker.job, stopper.job} \/ Settled(k))'
      <4>1. \A k \in caller.past : k \in Jobs \ {caller.job}
        BY <1>2 DEF MailTypeOK
      <4>2. \A k \in caller.past : Settled(k) => Settled(k)'
        BY <2>2, <4>1 DEF Settled, Last
      <4> QED
        BY <1>1, <2>1, <4>2 DEF Progress, Queued, Elements
    <3> QED
      BY <1>1, <2>1, <3>1, <3>2, <3>3, <3>4, <3>5 DEF Progress
  <2>6. KeysRemembered'
    BY <1>1, <1>3, <2>2 DEF KeysRemembered, OnePlace, MailTypeOK, Last
  <2>7. NeverOnClosedChannel'
    BY <2>1 DEF NeverOnClosedChannel
  <2> QED
    BY <2>2, <2>3, <2>4, <2>5, <2>6, <2>7
<1>5. CASE ~(caller.at <= Last(caller.job))
  <2>1. result' = result /\ caller' = Return
    BY <1>1, <1>5 DEF Refuse
  <2>2. /\ caller'.pc = "idle" /\ caller'.job = NoJob /\ caller'.at = 0
        /\ caller'.past = caller.past \cup {caller.job}
        /\ caller' \in [pc : {"idle", "open", "refused"}, job : Jobs \cup {NoJob}, at : Nat, past : SUBSET Jobs]
    BY <1>1, <2>1, CallerReturns DEF MailTypeOK
  <2>3. Settled(caller.job)
    BY <1>1, <1>2, <1>5, LastIsNat DEF ReportedTo, Settled
  <2>4. MailTypeOK'
    BY <1>1, <2>1, <2>2 DEF MailTypeOK, Last
  <2>5. OnePlace'
    BY <1>1, <2>2, JobsAssumption DEF OnePlace, Queued, Elements, Distinct
  <2>6. Progress'
    <3>1. (\A k \in Jobs : ~Asked(k) \/ Queued(k) => Untouched(k))'
      BY <1>1, <2>1, <2>2 DEF Progress, Asked, Queued, Elements, Untouched, Last
    <3>2. (\A k \in caller.past : Queued(k) \/ k \in lost \cup {worker.job, stopper.job} \/ Settled(k))'
      BY <1>1, <2>1, <2>2, <2>3 DEF Progress, Queued, Elements, Settled, Last
    <3> QED
      BY <1>1, <2>1, <2>2, <3>1, <3>2 DEF Progress, ReportedTo, AttemptedTo, Last
  <2> QED
    BY <1>1, <2>1, <2>2, <2>4, <2>5, <2>6
       DEF ReportsTrue, KeysRemembered, MailedOnce, NeverOnClosedChannel, Last
<1> QED
  BY <1>4, <1>5

-----------------------------------------------------------------------------
(* The steps of the worker. *)

LEMMA TakeKeeps ==
  ASSUME MailInv, Take
  PROVE  MailInv'
<1> USE DEF MailInv
<1>1. /\ worker.pc = "idle" /\ worker.job = NoJob /\ queue # << >> /\ queue \in Seq(Jobs)
      /\ UNCHANGED <<closed, caller, stopper, result, lost>>
  BY DEF Take, OnePlace, MailTypeOK
<1>2. queue' = Tail(queue) /\ worker' = [pc |-> "sending", job |-> Head(queue), at |-> 1, sent |-> {}]
  BY DEF Take
<1>3. /\ queue' \in Seq(Jobs) /\ Distinct(queue') /\ Head(queue) \in Elements(queue)
      /\ Elements(queue') = Elements(queue) \ {Head(queue)}
  BY <1>1, <1>2, QueueTakes DEF OnePlace
<1>4. Head(queue) \in Jobs /\ Head(queue) # NoJob /\ Len(queue') <= Len(queue)
  BY <1>1, <1>2, JobsAssumption
<1>5. MailTypeOK'
  BY <1>1, <1>2, <1>3, <1>4, QueueAssumption DEF MailTypeOK, Last
<1>6. OnePlace'
  BY <1>1, <1>2, <1>3, <1>4 DEF OnePlace, Queued
<1>7. Untouched(Head(queue))
  BY <1>3, <1>4 DEF Progress, Queued
<1>8. AttemptedTo(Head(queue), 1)
  BY <1>4, <1>7, LastIsNat DEF Untouched, AttemptedTo
<1>9. Progress'
  <2>1. (\A k \in Jobs : ~Asked(k) \/ Queued(k) => Untouched(k))'
    BY <1>1, <1>3 DEF Progress, Asked, Queued, Untouched, Last
  <2>2. (worker.pc = "sending" => AttemptedTo(worker.job, worker.at))'
    BY <1>1, <1>2, <1>8 DEF AttemptedTo, Last
  <2>3. (\A k \in caller.past : Queued(k) \/ k \in lost \cup {worker.job, stopper.job} \/ Settled(k))'
    BY <1>1, <1>2, <1>3, JobsAssumption DEF Progress, Queued, Settled, MailTypeOK, Last
  <2> QED
    BY <1>1, <2>1, <2>2, <2>3 DEF Progress, Untouched, ReportedTo, Last
<1>10. KeysRemembered'
  BY <1>2, <1>4, LastIsNat DEF KeysRemembered, Last
<1> QED
  BY <1>1, <1>5, <1>6, <1>9, <1>10 DEF ReportsTrue, MailedOnce, NeverOnClosedChannel, Last

LEMMA AttemptKeeps ==
  ASSUME MailInv, Attempt
  PROVE  MailInv'
<1> USE DEF MailInv
<1> DEFINE j == worker.job
           n == worker.at
           key == KeysOf[worker.job][worker.at]
<1>1. /\ worker.pc = "sending" /\ j \in Jobs /\ j # NoJob /\ n \in Nat \ {0} /\ n <= Last(j)
      /\ UNCHANGED <<queue, closed, caller, stopper, lost>>
  BY JobsAssumption DEF Attempt, OnePlace, MailTypeOK
<1>2. n \in 1 .. Last(j) /\ key \in Keys \cup {NoKey}
  <2>1. n \in 1 .. Last(j)
    BY <1>1, LastIsNat
  <2>2. KeysOf[j] \in Seq(Keys \cup {NoKey}) /\ Last(j) = Len(KeysOf[j])
    BY <1>1, JobsAssumption DEF Last
  <2> QED
    BY <2>1, <2>2
<1>3. AttemptedTo(j, n) /\ j \notin Elements(queue) /\ j \in caller.past
  BY <1>1 DEF Progress, OnePlace, Queued
<1>4. j # caller.job /\ j # stopper.job
  BY <1>1, <1>3 DEF OnePlace
<1>5. PICK o \in Attempts :
        /\ result' = [result EXCEPT ![j][n] = o]
        /\ worker'.pc = "sending" /\ worker'.job = j /\ worker'.at = n + 1
        /\ worker' \in [pc : {"idle", "sending", "done"}, job : Jobs \cup {NoJob}, at : Nat, sent : SUBSET Keys]
        /\ worker.sent \subseteq worker'.sent
        /\ o \in CountsAsSent /\ key # NoKey => key \notin worker.sent /\ key \in worker'.sent
  <2>1. CASE key \in worker.sent
    <3>1. result' = [result EXCEPT ![j][n] = "skipped"] /\ worker' = [worker EXCEPT !.at = @ + 1]
      BY <2>1 DEF Attempt
    <3> QED
      BY <1>1, <3>1 DEF MailTypeOK, Attempts, Outcomes, CountsAsSent
  <2>2. CASE key \notin worker.sent
    <3>1. PICK o \in Outcomes :
            /\ result' = [result EXCEPT ![j][n] = o]
            /\ worker' = [worker EXCEPT !.at = @ + 1,
                 !.sent = IF Remembers(o) /\ key # NoKey THEN @ \cup {key} ELSE @]
      BY <2>2 DEF Attempt
    <3>2. worker'.sent = IF o \in CountsAsSent /\ key # NoKey THEN worker.sent \cup {key} ELSE worker.sent
      BY <3>1 DEF MailTypeOK, Remembers
    <3>3. /\ worker'.pc = "sending" /\ worker'.job = j /\ worker'.at = n + 1
          /\ worker' \in [pc : {"idle", "sending", "done"}, job : Jobs \cup {NoJob}, at : Nat, sent : SUBSET Keys]
      <4> DEFINE S == IF Remembers(o) /\ key # NoKey THEN worker.sent \cup {key} ELSE worker.sent
      <4>1. S \in SUBSET Keys
        BY <1>2 DEF MailTypeOK
      <4>2. worker' = [worker EXCEPT !.at = n + 1, !.sent = S]
        BY <3>1 DEF MailTypeOK
      <4>3. /\ worker \in [pc : {"idle", "sending", "done"}, job : Jobs \cup {NoJob}, at : Nat, sent : SUBSET Keys]
            /\ n + 1 \in Nat /\ worker.pc = "sending"
        BY <1>1 DEF MailTypeOK
      <4> HIDE DEF S, n
      <4> QED
        BY <4>1, <4>2, <4>3
    <3> QED
      BY <2>2, <3>1, <3>2, <3>3 DEF Attempts
  <2> QED
    BY <2>1, <2>2
<1>6. o \in Results /\ o # "notQueued" /\ o # "open"
  BY DEF Attempts, Results, Outcomes, CountsAsSent
<1> HIDE DEF j, n, key
<1>7. /\ DOMAIN result' = Jobs /\ \A k \in Jobs : result'[k] \in [1 .. Last(k) -> Results]
      /\ \A k \in Jobs : \A i \in 1 .. Last(k) :
           result'[k][i] = IF k = j /\ i = n THEN o ELSE result[k][i]
  <2>1. /\ MailTypeOK /\ j \in Jobs /\ n \in 1 .. Last(j) /\ o \in Results
        /\ result' = [result EXCEPT ![j][n] = o]
    BY <1>1, <1>2, <1>5, <1>6
  <2> QED
    BY <2>1, OutcomeSet, ZenonT(40)
<1>8. \A i \in 1 .. Last(j) : IF i < n + 1 THEN result'[j][i] \in Attempts ELSE result'[j][i] = "open"
  BY <1>1, <1>3, <1>5, <1>7, LastIsNat DEF AttemptedTo
<1>9. MailTypeOK'
  BY <1>1, <1>5, <1>7 DEF MailTypeOK, Last
<1>10. OnePlace'
  BY <1>1, <1>5 DEF OnePlace, Queued, Elements, Distinct, j, n
<1>11. Progress'
  <2>1. (\A k \in Jobs : ~Asked(k) \/ Queued(k) => Untouched(k))'
    BY <1>1, <1>3, <1>7 DEF Progress, Asked, Queued, Elements, Untouched, Last
  <2>2. (caller.pc = "open" => Untouched(caller.job))'
    BY <1>1, <1>4, <1>7 DEF Progress, Untouched, OnePlace, MailTypeOK, Last
  <2>3. (caller.pc = "refused" => ReportedTo(caller.job, caller.at))'
    BY <1>1, <1>4, <1>7 DEF Progress, ReportedTo, OnePlace, MailTypeOK, Last
  <2>4. (stopper.pc = "reporting" => ReportedTo(stopper.job, stopper.at))'
    BY <1>1, <1>4, <1>7 DEF Progress, ReportedTo, OnePlace, MailTypeOK, Last
  <2>5. (worker.pc = "sending" => AttemptedTo(worker.job, worker.at))'
    BY <1>5, <1>8 DEF AttemptedTo, Last
  <2>6. (\A k \in caller.past : Queued(k) \/ k \in lost \cup {worker.job, stopper.job} \/ Settled(k))'
    <3>1. \A k \in caller.past : k \in Jobs
      BY DEF MailTypeOK
    <3>2. \A k \in caller.past : k # j /\ Settled(k) => Settled(k)'
      BY <1>7, <3>1 DEF Settled, Last
    <3> QED
      BY <1>1, <1>5, <3>2 DEF Progress, Queued, Elements, j
  <2> QED
    BY <1>1, <2>1, <2>2, <2>3, <2>4, <2>5, <2>6 DEF Progress
<1>12. ReportsTrue'
  <2>1. \A i \in 1 .. Last(j) : result'[j][i] # "notQueued"
    BY <1>8 DEF Attempts, Outcomes, CountsAsSent
  <2> QED
    BY <1>7, <2>1 DEF ReportsTrue, Last
<1>13. \A a \in 1 .. Last(j) : a < n /\ result[j][a] \in CountsAsSent /\ KeysOf[j][a] # NoKey
                                 => KeysOf[j][a] \in worker.sent
  BY <1>1 DEF KeysRemembered, j, n
<1>14. KeysRemembered'
  <2>1. ASSUME NEW a \in 1 .. Last(j), a < n + 1, result'[j][a] \in CountsAsSent, KeysOf[j][a] # NoKey
        PROVE  KeysOf[j][a] \in worker'.sent
    <3>1. CASE a = n
      BY <1>1, <1>5, <1>7, <2>1, <3>1 DEF key, j, n
    <3>2. CASE a # n
      <4>1. a < n /\ result'[j][a] = result[j][a]
        BY <1>1, <1>7, <2>1, <3>2, LastIsNat
      <4> QED
        BY <1>5, <1>13, <2>1, <4>1
    <3> QED
      BY <3>1, <3>2
  <2> QED
    BY <1>5, <2>1 DEF KeysRemembered, Last
<1>15. MailedOnce'
  <2>1. ASSUME NEW a \in 1 .. Last(j), NEW b \in 1 .. Last(j), a # b, KeysOf[j][a] = KeysOf[j][b],
               KeysOf[j][a] # NoKey, result'[j][a] \in CountsAsSent, result'[j][b] \in CountsAsSent
        PROVE  FALSE
    <3>1. a < n + 1 /\ b < n + 1
      BY <1>8, <2>1 DEF CountsAsSent
    <3>2. ASSUME NEW x \in 1 .. Last(j), NEW y \in 1 .. Last(j), x = n, y < n, KeysOf[j][x] = KeysOf[j][y],
                 KeysOf[j][x] # NoKey, result'[j][x] \in CountsAsSent, result'[j][y] \in CountsAsSent
          PROVE  FALSE
      <4>1. o \in CountsAsSent /\ KeysOf[j][x] = key
        BY <1>1, <1>7, <3>2 DEF key, j, n
      <4>2. result[j][y] \in CountsAsSent
        BY <1>1, <1>7, <3>2, LastIsNat
      <4>3. KeysOf[j][y] \in worker.sent
        BY <1>13, <3>2, <4>2
      <4> QED
        BY <1>5, <3>2, <4>1, <4>3
    <3>3. CASE a # n /\ b # n
      BY <1>1, <1>7, <2>1, <3>3 DEF MailedOnce
    <3>4. CASE a = n
      <4>1. b < n
        BY <1>1, <2>1, <3>1, <3>4, LastIsNat
      <4> QED
        BY <2>1, <3>2, <3>4, <4>1
    <3>5. CASE b = n
      <4>1. a < n
        BY <1>1, <2>1, <3>1, <3>5, LastIsNat
      <4> QED
        BY <2>1, <3>2, <3>5, <4>1
    <3> QED
      BY <3>3, <3>4, <3>5
  <2>2. \A k \in Jobs \ {j} : \A a \in 1 .. Last(k) : result'[k][a] = result[k][a]
    BY <1>7
  <2> QED
    BY <2>1, <2>2 DEF MailedOnce, Last
<1> QED
  BY <1>1, <1>9, <1>10, <1>11, <1>12, <1>14, <1>15 DEF NeverOnClosedChannel

LEMMA JobDoneKeeps ==
  ASSUME MailInv, JobDone
  PROVE  MailInv'
<1> USE DEF MailInv
<1>1. /\ worker.pc = "sending" /\ worker.job \in Jobs /\ ~(worker.at <= Last(worker.job))
      /\ worker' = [pc |-> "idle", job |-> NoJob, at |-> 0, sent |-> {}]
      /\ UNCHANGED <<queue, closed, caller, stopper, result, lost>>
  BY LastIsNat DEF JobDone, OnePlace, MailTypeOK
<1>2. Settled(worker.job)
  <2>1. AttemptedTo(worker.job, worker.at) /\ worker.at \in Nat
    BY <1>1 DEF Progress, MailTypeOK
  <2>2. \A i \in 1 .. Last(worker.job) : result[worker.job][i] \in Attempts
    BY <1>1, <2>1, LastIsNat DEF AttemptedTo
  <2> QED
    BY <2>2 DEF Settled, Attempts, Outcomes, CountsAsSent
<1>3. MailTypeOK'
  BY <1>1 DEF MailTypeOK, Last
<1>4. NoJob \notin Elements(queue)
  BY JobsAssumption DEF OnePlace, MailTypeOK
<1>5. OnePlace'
  BY <1>1, <1>4 DEF OnePlace, Queued, Elements, Distinct
<1>6. Progress'
  <2>1. (\A k \in caller.past : Queued(k) \/ k \in lost \cup {worker.job, stopper.job} \/ Settled(k))'
    BY <1>1, <1>2 DEF Progress, Queued, Elements, Settled, Last
  <2> QED
    BY <1>1, <2>1 DEF Progress, Asked, Queued, Elements, Untouched, ReportedTo, Last
<1> QED
  BY <1>1, <1>3, <1>5, <1>6
     DEF ReportsTrue, KeysRemembered, MailedOnce, NeverOnClosedChannel, Last

LEMMA WorkerEndsKeeps ==
  ASSUME MailInv, WorkerEnds
  PROVE  MailInv'
<1> USE DEF MailInv
<1>1. /\ worker.pc = "idle" /\ worker'.pc = "done" /\ worker'.job = worker.job
      /\ worker' \in [pc : {"idle", "sending", "done"}, job : Jobs \cup {NoJob}, at : Nat, sent : SUBSET Keys]
      /\ UNCHANGED <<queue, closed, caller, stopper, result, lost>>
  BY DEF WorkerEnds, MailTypeOK
<1>2. MailTypeOK' /\ OnePlace'
  BY <1>1 DEF MailTypeOK, OnePlace, Queued, Elements, Distinct, Last
<1>3. Progress'
  BY <1>1 DEF Progress, Asked, Queued, Elements, Untouched, Settled, ReportedTo, Last
<1> QED
  BY <1>1, <1>2, <1>3 DEF ReportsTrue, KeysRemembered, MailedOnce, NeverOnClosedChannel, Last

-----------------------------------------------------------------------------
(* The steps of Stop. *)

LEMMA StopAloneKeeps ==
  ASSUME MailInv, Close \/ Finished \/ LimitReached
  PROVE  MailInv'
<1> USE DEF MailInv
<1>1. /\ stopper.pc \in {"up", "waiting"} /\ stopper'.pc \in {"waiting", "returned", "draining"}
      /\ stopper'.job = stopper.job
      /\ stopper' \in [pc : {"up", "waiting", "draining", "reporting", "returned"},
                       job : Jobs \cup {NoJob}, at : Nat]
      /\ closed' \in BOOLEAN /\ (closed' # closed => caller.pc # "open")
      /\ UNCHANGED <<queue, caller, worker, result, lost>>
  BY DEF Close, Finished, LimitReached, MailTypeOK
<1>2. MailTypeOK' /\ OnePlace'
  BY <1>1 DEF MailTypeOK, OnePlace, Queued, Elements, Distinct, Last
<1>3. Progress'
  BY <1>1 DEF Progress, Asked, Queued, Elements, Untouched, Settled, ReportedTo, AttemptedTo, Last
<1> QED
  BY <1>1, <1>2, <1>3 DEF ReportsTrue, KeysRemembered, MailedOnce, NeverOnClosedChannel, Last

LEMMA DrainKeeps ==
  ASSUME MailInv, Drain
  PROVE  MailInv'
<1> USE DEF MailInv
<1>1. /\ stopper.pc = "draining" /\ stopper.job = NoJob /\ queue \in Seq(Jobs) /\ lost = {}
      /\ stopper \in [pc : {"up", "waiting", "draining", "reporting", "returned"},
                      job : Jobs \cup {NoJob}, at : Nat]
      /\ UNCHANGED <<closed, caller, worker, result>>
  BY DEF Drain, OnePlace, MailTypeOK, Progress
<1>2. CASE queue = << >>
  <2>1. /\ stopper'.pc = "returned" /\ stopper'.job = NoJob
        /\ stopper' \in [pc : {"up", "waiting", "draining", "reporting", "returned"},
                         job : Jobs \cup {NoJob}, at : Nat]
        /\ UNCHANGED <<queue, lost>>
    BY <1>1, <1>2 DEF Drain
  <2>2. MailTypeOK' /\ OnePlace'
    BY <1>1, <2>1 DEF MailTypeOK, OnePlace, Queued, Elements, Distinct, Last
  <2>3. Progress'
    BY <1>1, <2>1 DEF Progress, Asked, Queued, Elements, Untouched, Settled, ReportedTo, AttemptedTo, Last
  <2> QED
    BY <1>1, <2>1, <2>2, <2>3 DEF ReportsTrue, KeysRemembered, MailedOnce, NeverOnClosedChannel, Last
<1>3. CASE queue # << >>
  <2>1. queue' = Tail(queue)
    BY <1>3 DEF Drain
  <2>2. /\ queue' \in Seq(Jobs) /\ Distinct(queue') /\ Head(queue) \in Elements(queue)
        /\ Elements(queue') = Elements(queue) \ {Head(queue)}
    BY <1>1, <1>3, <2>1, QueueTakes DEF OnePlace
  <2>3. Head(queue) \in Jobs /\ Head(queue) # NoJob /\ Len(queue') <= Len(queue)
    BY <1>1, <1>3, <2>1, JobsAssumption
  <2>4. Elements(queue) \subseteq Jobs /\ Elements(queue) \subseteq caller.past
    BY <1>1 DEF Elements, OnePlace
  <2>5. CASE /\ stopper' = [stopper EXCEPT !.pc = "reporting", !.job = Head(queue), !.at = 1]
             /\ UNCHANGED lost
    <3>1. /\ stopper'.pc = "reporting" /\ stopper'.job = Head(queue) /\ stopper'.at = 1
          /\ stopper' \in [pc : {"up", "waiting", "draining", "reporting", "returned"},
                           job : Jobs \cup {NoJob}, at : Nat]
      BY <1>1, <2>3, <2>5
    <3>2. MailTypeOK'
      BY <1>1, <2>2, <2>3, <2>5, <3>1, QueueAssumption DEF MailTypeOK, Last
    <3>3. OnePlace'
      BY <1>1, <2>2, <2>3, <2>4, <3>1 DEF OnePlace, Queued
    <3>4. ReportedTo(Head(queue), 1)
      BY <2>2, <2>3, LastIsNat DEF Progress, Queued, Untouched, ReportedTo
    <3>5. Progress'
      <4>1. (\A k \in Jobs : ~Asked(k) \/ Queued(k) => Untouched(k))'
        BY <1>1, <2>2 DEF Progress, Asked, Queued, Untouched, Last
      <4>2. (stopper.pc = "reporting" => ReportedTo(stopper.job, stopper.at))'
        BY <1>1, <3>1, <3>4 DEF ReportedTo, Last
      <4>3. (\A k \in caller.past : Queued(k) \/ k \in lost \cup {worker.job, stopper.job} \/ Settled(k))'
        <5>1. \A k \in caller.past : k \in Jobs /\ k # NoJob
          BY JobsAssumption DEF MailTypeOK
        <5>2. \A k \in caller.past : Queued(k) \/ k \in lost \cup {worker.job} \/ Settled(k)
          BY <1>1, <5>1 DEF Progress
        <5> QED
          BY <1>1, <2>2, <2>5, <3>1, <5>2 DEF Queued, Settled, Last
      <4> QED
        BY <1>1, <2>5, <3>1, <4>1, <4>2, <4>3 DEF Progress, Untouched, ReportedTo, AttemptedTo, Last
    <3> QED
      BY <1>1, <3>2, <3>3, <3>5
         DEF ReportsTrue, KeysRemembered, MailedOnce, NeverOnClosedChannel, Last
  <2>6. CASE /\ stopper' = [stopper EXCEPT !.pc = "returned"]
             /\ lost' = {queue[i] : i \in DOMAIN queue}
    <3>1. /\ stopper'.pc = "returned" /\ stopper'.job = NoJob /\ lost' = Elements(queue)
          /\ stopper' \in [pc : {"up", "waiting", "draining", "reporting", "returned"},
                           job : Jobs \cup {NoJob}, at : Nat]
      BY <1>1, <2>6 DEF Elements
    <3>2. MailTypeOK'
      BY <1>1, <2>2, <2>3, <2>4, <3>1, QueueAssumption DEF MailTypeOK, Last
    <3>3. OnePlace'
      BY <1>1, <2>2, <2>4, <3>1, JobsAssumption DEF OnePlace, Queued, MailTypeOK
    <3>4. Progress'
      <4>1. (\A k \in Jobs : ~Asked(k) \/ Queued(k) => Untouched(k))'
        BY <1>1, <2>2 DEF Progress, Asked, Queued, Untouched, Last
      <4>2. (\A k \in caller.past : Queued(k) \/ k \in lost \cup {worker.job, stopper.job} \/ Settled(k))'
        BY <1>1, <3>1 DEF Progress, Queued, Settled, Last
      <4> QED
        BY <1>1, <3>1, <4>1, <4>2 DEF Progress, Untouched, ReportedTo, AttemptedTo, Last
    <3> QED
      BY <1>1, <3>2, <3>3, <3>4
         DEF ReportsTrue, KeysRemembered, MailedOnce, NeverOnClosedChannel, Last
  <2> QED
    BY <1>3, <2>5, <2>6 DEF Drain
<1> QED
  BY <1>2, <1>3

LEMMA ReportLeftKeeps ==
  ASSUME MailInv, ReportLeft
  PROVE  MailInv'
<1> USE DEF MailInv
<1>1. /\ stopper.pc = "reporting" /\ stopper.at \in Nat \ {0} /\ stopper.job \in Jobs /\ stopper.job # NoJob
      /\ stopper \in [pc : {"up", "waiting", "draining", "reporting", "returned"},
                      job : Jobs \cup {NoJob}, at : Nat]
      /\ UNCHANGED <<queue, closed, caller, worker, lost>>
  BY JobsAssumption DEF ReportLeft, OnePlace, MailTypeOK
<1>2. ReportedTo(stopper.job, stopper.at) /\ stopper.job \notin Elements(queue) /\ stopper.job \in caller.past
  BY <1>1 DEF Progress, OnePlace, Queued
<1>3. stopper.job # worker.job /\ caller.job # stopper.job
  BY <1>1, <1>2 DEF OnePlace
<1>4. CASE stopper.at <= Last(stopper.job)
  <2>1. /\ result' = [result EXCEPT ![stopper.job][stopper.at] = "notQueued"]
        /\ stopper'.pc = "reporting" /\ stopper'.job = stopper.job /\ stopper'.at = stopper.at + 1
        /\ stopper' \in [pc : {"up", "waiting", "draining", "reporting", "returned"},
                         job : Jobs \cup {NoJob}, at : Nat]
    BY <1>1, <1>4 DEF ReportLeft
  <2>2. /\ DOMAIN result' = Jobs /\ \A k \in Jobs : result'[k] \in [1 .. Last(k) -> Results]
        /\ \A k \in Jobs \ {stopper.job} : \A i \in 1 .. Last(k) : result'[k][i] = result[k][i]
        /\ \A i \in 1 .. Last(stopper.job) :
             result'[stopper.job][i] = IF i < stopper.at + 1 THEN "notQueued" ELSE "open"
        /\ ReportsTrue' /\ MailedOnce'
    BY <1>1, <1>2, <1>4, <2>1, OneMoreReported
  <2>3. MailTypeOK'
    BY <1>1, <2>1, <2>2 DEF MailTypeOK, Last
  <2>4. OnePlace'
    BY <1>1, <2>1 DEF OnePlace, Queued, Elements, Distinct
  <2>5. Progress'
    <3>1. (\A k \in Jobs : ~Asked(k) \/ Queued(k) => Untouched(k))'
      BY <1>1, <1>2, <2>1, <2>2 DEF Progress, Asked, Queued, Elements, Untouched, Last
    <3>2. (caller.pc = "open" => Untouched(caller.job))'
      BY <1>1, <1>3, <2>2 DEF Progress, Untouched, OnePlace, MailTypeOK, Last
    <3>3. (caller.pc = "refused" => ReportedTo(caller.job, caller.at))'
      BY <1>1, <1>3, <2>2 DEF Progress, ReportedTo, OnePlace, MailTypeOK, Last
    <3>4. (stopper.pc = "reporting" => ReportedTo(stopper.job, stopper.at))'
      BY <2>1, <2>2 DEF ReportedTo, Last
    <3>5. (worker.pc = "sending" => AttemptedTo(worker.job, worker.at))'
      BY <1>1, <1>3, <2>2 DEF Progress, AttemptedTo, OnePlace, MailTypeOK, Last
    <3>6. (\A k \in caller.past : Queued(k) \/ k \in lost \cup {worker.job, stopper.job} \/ Settled(k))'
      <4>1. \A k \in caller.past : k \in Jobs
        BY DEF MailTypeOK
      <4>2. \A k \in caller.past : k # stopper.job /\ Settled(k) => Settled(k)'
        BY <2>2, <4>1 DEF Settled, Last
      <4> QED
        BY <1>1, <2>1, <4>2 DEF Progress, Queued, Elements
    <3> QED
      BY <1>1, <2>1, <3>1, <3>2, <3>3, <3>4, <3>5, <3>6 DEF Progress
  <2>6. KeysRemembered'
    BY <1>1, <1>3, <2>2 DEF KeysRemembered, OnePlace, MailTypeOK, Last
  <2> QED
    BY <1>1, <2>2, <2>3, <2>4, <2>5, <2>6 DEF NeverOnClosedChannel
<1>5. CASE ~(stopper.at <= Last(stopper.job))
  <2>1. /\ stopper'.pc = "draining" /\ stopper'.job = NoJob
        /\ stopper' \in [pc : {"up", "waiting", "draining", "reporting", "returned"},
                         job : Jobs \cup {NoJob}, at : Nat]
        /\ UNCHANGED result
    <3>1. stopper' = [stopper EXCEPT !.pc = "draining", !.job = NoJob, !.at = 0] /\ UNCHANGED result
      BY <1>5 DEF ReportLeft
    <3> QED
      BY <1>1, <3>1
  <2>2. Settled(stopper.job)
    BY <1>1, <1>2, <1>5, LastIsNat DEF ReportedTo, Settled
  <2>3. MailTypeOK'
    BY <1>1, <2>1 DEF MailTypeOK, Last
  <2>4. OnePlace'
    BY <1>1, <2>1, JobsAssumption DEF OnePlace, Queued, Elements, Distinct, MailTypeOK
  <2>5. Progress'
    <3>1. (\A k \in caller.past : Queued(k) \/ k \in lost \cup {worker.job, stopper.job} \/ Settled(k))'
      BY <1>1, <2>1, <2>2 DEF Progress, Queued, Elements, Settled, Last
    <3> QED
      BY <1>1, <2>1, <3>1 DEF Progress, Asked, Queued, Elements, Untouched, ReportedTo, AttemptedTo, Last
  <2> QED
    BY <1>1, <2>1, <2>3, <2>4, <2>5
       DEF ReportsTrue, KeysRemembered, MailedOnce, NeverOnClosedChannel, Last
<1> QED
  BY <1>4, <1>5

-----------------------------------------------------------------------------
\* A step of the mail worker, of its caller or of its stop keeps MailInv.
LEMMA MailKeeps == MailInv /\ [MailNext]_mailVars => MailInv'
<1> SUFFICES ASSUME MailInv, [MailNext]_mailVars PROVE MailInv'
  OBVIOUS
<1>1. CASE UNCHANGED mailVars
  BY <1>1 DEF mailVars, MailInv, MailTypeOK, OnePlace, Progress, ReportsTrue, KeysRemembered, MailedOnce,
              NeverOnClosedChannel, Asked, Queued, Elements, Distinct, Untouched, Settled, ReportedTo,
              AttemptedTo, Last
<1>2. CASE \E j \in Jobs : Enqueue(j)
  BY <1>2, EnqueueKeeps
<1>3. CASE CallerStep
  BY <1>3, TryQueueKeeps, RefuseKeeps DEF CallerStep
<1>4. CASE WorkerStep
  BY <1>4, TakeKeeps, AttemptKeeps, JobDoneKeeps, WorkerEndsKeeps DEF WorkerStep
<1>5. CASE Close \/ StopStep
  BY <1>5, StopAloneKeeps, DrainKeeps, ReportLeftKeeps DEF StopStep
<1> QED
  BY <1>1, <1>2, <1>3, <1>4, <1>5 DEF MailNext

\* What MailInv says of the checked properties.
LEMMA MailInvSuffices == MailInv => NotQueuedIsTrue /\ Accounted
<1> SUFFICES ASSUME MailInv PROVE NotQueuedIsTrue /\ Accounted
  OBVIOUS
<1> USE DEF MailInv
<1>1. ASSUME NEW j \in Jobs, NEW i \in 1 .. Last(j), result[j][i] = "notQueued"
      PROVE  Tried(j) = {} /\ j # worker.job /\ \A n \in DOMAIN queue : queue[n] # j
  <2>1. \A n \in 1 .. Last(j) : result[j][n] \in {"notQueued", "open"}
    BY <1>1 DEF ReportsTrue
  <2>2. Tried(j) = {}
    BY <2>1 DEF Tried, Outcomes, CountsAsSent
  <2>3. j # worker.job
    <3> SUFFICES ASSUME j = worker.job PROVE FALSE
      OBVIOUS
    <3>1. AttemptedTo(j, worker.at)
      BY <1>1, JobsAssumption DEF OnePlace, Progress
    <3> QED
      BY <1>1, <3>1 DEF AttemptedTo, Attempts, Outcomes, CountsAsSent
  <2>4. j \notin Elements(queue)
    BY <1>1 DEF Progress, Queued, Untouched
  <2> QED
    BY <2>2, <2>3, <2>4 DEF Elements
<1>2. Accounted
  BY DEF Accounted, Progress, Asked, Queued, Elements, Settled
<1> QED
  BY <1>1, <1>2 DEF NotQueuedIsTrue

-----------------------------------------------------------------------------
\* The inductive invariant of the mail worker holds in every reachable state:
\* a job is in one place, and its results tell which.
THEOREM MailCorrect == MailSpec => []MailInv
<1> QED
  BY MailStarts, MailKeeps, PTL DEF MailSpec

\* tryQueue never sends on the channel that Stop has closed, whenever the stop
\* comes.
THEOREM ChannelStaysOpenForSender == MailSpec => []NeverOnClosedChannel
<1>1. MailInv => NeverOnClosedChannel
  BY DEF MailInv
<1> QED
  BY MailCorrect, <1>1, PTL

\* A job reported with ErrMailNotQueued was not and will not be mailed.
THEOREM RefusalIsTrue == MailSpec => []NotQueuedIsTrue
<1> QED
  BY MailCorrect, MailInvSuffices, PTL

\* One job mails to one key at most once, however its mails come to an end.
THEOREM NobodyMailedTwice == MailSpec => []MailedOnce
<1>1. MailInv => MailedOnce
  BY DEF MailInv
<1> QED
  BY MailCorrect, <1>1, PTL

\* No job that was passed to Enqueue vanishes.
THEOREM EveryJobAccounted == MailSpec => []Accounted
<1> QED
  BY MailCorrect, MailInvSuffices, PTL

-----------------------------------------------------------------------------
(* The broker. *)

\* What waits for the loop over the present connection has been delivered over
\* it and is not acknowledged yet; what is to be acknowledged the loop has.
Handover ==
  /\ connected => \A m \in Messages : <<m, losses>> \in waiting => m \in (held \cap delivered) \ toAck
  /\ ~connected => toAck = {}
  /\ ~connected /\ stop # "returned" => \A m \in Messages : <<m, losses>> \notin waiting
  /\ \A m \in Messages, c \in 0 .. MaxLosses : <<m, c>> \in waiting => c <= losses
  /\ toAck \subseteq handled \cup {loop.item}
  /\ \A m \in Messages, c \in 0 .. MaxLosses : <<m, c>> \in waiting => m \in arrived
  /\ loop.pc = "handling" => loop.item \in arrived

BrokerInv == BrokerTypeOK /\ Handover

\* The steps of a process that neither ends nor is killed.
BrokerWork == \/ Mqtt \/ Listen
              \/ \E r \in Requests : SendMessage(r)
              \/ Stop \/ StopEnds \/ StopGivesUp

LEMMA BrokerStarts == BrokerInit => BrokerInv /\ Lost = {}
<1> SUFFICES ASSUME BrokerInit PROVE BrokerInv /\ Lost = {}
  OBVIOUS
<1> USE BrokerAssumption DEF BrokerInit, Selecting
<1>1. losses \in 0 .. MaxLosses /\ kills \in 0 .. MaxKills
  OBVIOUS
<1>2. BrokerTypeOK
  BY <1>1 DEF BrokerTypeOK
<1>3. Handover
  BY DEF Handover
<1> QED
  BY <1>2, <1>3 DEF BrokerInv, Lost

LEMMA MqttKeeps ==
  ASSUME BrokerInv, Mqtt
  PROVE  BrokerInv' /\ Lost' \subseteq Lost
<1> USE BrokerAssumption DEF BrokerInv
<1>1. ASSUME NEW m \in Messages, Arrive(m)
      PROVE  BrokerInv' /\ Lost' \subseteq Lost
  BY <1>1 DEF Arrive, BrokerTypeOK, Handover, Lost, loopVars, stopVars
<1>2. ASSUME NEW m \in Messages, Deliver(m)
      PROVE  BrokerInv' /\ Lost' \subseteq Lost
  <2>1. /\ connected /\ m \in held /\ m \notin delivered
        /\ delivered' = delivered \cup {m} /\ waiting' = waiting \cup {<<m, losses>>}
        /\ UNCHANGED <<arrived, held, connected, losses, toAck, sending, asked, loop, handled, closing, stop, kills>>
    BY <1>2 DEF Deliver, loopVars, stopVars
  <2>2. BrokerTypeOK'
    BY <2>1 DEF BrokerTypeOK
  <2>3. Handover'
    BY <2>1 DEF BrokerTypeOK, Handover
  <2> QED
    BY <2>1, <2>2, <2>3 DEF Lost
<1>3. ASSUME NEW m \in Messages, Ack(m)
      PROVE  BrokerInv' /\ Lost' \subseteq Lost
  BY <1>3 DEF Ack, BrokerTypeOK, Handover, Lost, loopVars, stopVars
<1>4. CASE ConnectionLost
  <2>1. /\ connected /\ connected' = FALSE /\ losses' = losses + 1 /\ losses < MaxLosses /\ toAck' = {}
        /\ UNCHANGED <<arrived, held, delivered, waiting, sending, asked, loop, handled, closing, stop, kills>>
    BY <1>4 DEF ConnectionLost, loopVars, stopVars
  <2>2. BrokerTypeOK'
    <3>1. losses' \in 0 .. MaxLosses
      BY <2>1 DEF BrokerTypeOK
    <3> QED
      BY <2>1, <3>1 DEF BrokerTypeOK
  <2>3. Handover'
    BY <2>1 DEF BrokerTypeOK, Handover
  <2> QED
    BY <2>1, <2>2, <2>3 DEF Lost
<1>5. CASE Reconnect
  BY <1>5 DEF Reconnect, BrokerTypeOK, Handover, Lost, loopVars, stopVars
<1> QED
  BY <1>1, <1>2, <1>3, <1>4, <1>5 DEF Mqtt

LEMMA ListenKeeps ==
  ASSUME BrokerInv, Listen
  PROVE  BrokerInv' /\ Lost' \subseteq Lost
<1> USE BrokerAssumption DEF BrokerInv
<1>1. ASSUME NEW m \in Messages, NEW c \in 0 .. MaxLosses, Receive(m, c)
      PROVE  BrokerInv' /\ Lost' \subseteq Lost
  <2>1. /\ loop.pc = "select" /\ loop.item = NoItem /\ <<m, c>> \in waiting /\ waiting' = waiting \ {<<m, c>>}
        /\ toAck' = IF connected /\ c = losses THEN toAck \cup {m} ELSE toAck
        /\ loop' = [pc |-> "handling", item |-> m]
        /\ UNCHANGED <<arrived, held, delivered, connected, losses, sending, asked, handled, closing, stop, kills>>
    BY <1>1 DEF Receive, stopVars, BrokerTypeOK
  <2>2. toAck' \subseteq held \cap delivered
    BY <2>1 DEF BrokerTypeOK, Handover
  <2>3. BrokerTypeOK'
    BY <2>1, <2>2 DEF BrokerTypeOK
  <2>4. toAck \subseteq handled
    BY <2>1 DEF BrokerTypeOK, Handover
  <2>5. Handover'
    BY <2>1, <2>2, <2>4 DEF BrokerTypeOK, Handover
  <2>6. Lost' \subseteq Lost
    BY <2>1 DEF BrokerTypeOK, Lost
  <2> QED
    BY <2>3, <2>5, <2>6
<1>2. ASSUME NEW r \in Requests, TakeRequest(r)
      PROVE  BrokerInv' /\ Lost' \subseteq Lost
  BY <1>2 DEF TakeRequest, netVars, stopVars, BrokerTypeOK, Handover, Lost
<1>3. CASE Handled
  <2>1. /\ loop.pc = "handling" /\ handled' = handled \cup {loop.item}
        /\ loop' = [pc |-> "select", item |-> NoItem]
        /\ UNCHANGED <<arrived, held, delivered, connected, losses, waiting, toAck, sending, asked, closing, stop, kills>>
    BY <1>3 DEF Handled, Selecting, netVars, stopVars
  <2>2. BrokerTypeOK'
    BY <2>1 DEF BrokerTypeOK, Handover
  <2>3. Handover'
    BY <2>1 DEF BrokerTypeOK, Handover
  <2>4. Lost' \subseteq Lost
    BY <2>1 DEF Lost
  <2> QED
    BY <2>2, <2>3, <2>4
<1>4. CASE Published
  BY <1>4 DEF Published, Selecting, netVars, stopVars, BrokerTypeOK, Handover, Lost
<1>5. CASE StopListening
  BY <1>5 DEF StopListening, Selecting, netVars, stopVars, BrokerTypeOK, Handover, Lost
<1> QED
  BY <1>1, <1>2, <1>3, <1>4, <1>5 DEF Listen

\* While the process runs, and also when it stops, no message is lost.
LEMMA WorkLosesNothing ==
  ASSUME BrokerInv, BrokerWork
  PROVE  BrokerInv' /\ Lost' \subseteq Lost
<1> USE BrokerAssumption DEF BrokerInv
<1>1. ASSUME NEW r \in Requests, SendMessage(r)
      PROVE  BrokerInv' /\ Lost' \subseteq Lost
  BY <1>1 DEF SendMessage, netVars, stopVars, BrokerTypeOK, Handover, Lost
<1>2. CASE Stop \/ StopEnds \/ StopGivesUp
  <2>1. /\ stop' \in {"waiting", "returned"} /\ closing' \in BOOLEAN
        /\ \/ stop = "up" /\ UNCHANGED <<connected, toAck>>
           \/ stop' = "returned" /\ connected' = FALSE /\ toAck' = {}
        /\ UNCHANGED <<arrived, held, delivered, losses, waiting, sending, asked, loop, handled, kills>>
    BY <1>2 DEF Stop, StopEnds, StopGivesUp, Disconnect, netVars, loopVars, BrokerTypeOK
  <2>2. BrokerTypeOK'
    BY <2>1 DEF BrokerTypeOK
  <2>3. Handover'
    BY <2>1 DEF BrokerTypeOK, Handover
  <2> QED
    BY <2>1, <2>2, <2>3 DEF Lost
<1> QED
  BY <1>1, <1>2, MqttKeeps, ListenKeeps DEF BrokerWork

\* The end of a process loses at most the message that was being handled.
LEMMA RestartLosesOne ==
  ASSUME BrokerInv, Restarted, kills' \in 0 .. MaxKills
  PROVE  /\ BrokerInv'
         /\ Lost' \subseteq Lost \cup {loop.item}
         /\ loop.pc # "handling" => Lost' \subseteq Lost
<1> USE BrokerAssumption DEF BrokerInv
<1>1. /\ delivered' = {} /\ toAck' = {} /\ sending' = {} /\ waiting' = {}
      /\ connected' = TRUE /\ loop' = [pc |-> "select", item |-> NoItem] /\ closing' = FALSE /\ stop' = "up"
      /\ UNCHANGED <<arrived, held, handled, asked, losses>>
  BY DEF Restarted, Selecting
<1>2. BrokerTypeOK'
  BY <1>1 DEF BrokerTypeOK
<1>3. Handover'
  BY <1>1 DEF Handover
<1>4. loop.pc # "handling" => loop.item \notin Messages
  BY DEF BrokerTypeOK
<1>5. arrived \subseteq Messages
  BY DEF BrokerTypeOK
<1> QED
  BY <1>1, <1>2, <1>3, <1>4, <1>5 DEF Lost

LostBounded == BrokerInv /\ IsFiniteSet(Lost) /\ OneLostPerKill

LEMMA LostKept ==
  ASSUME LostBounded, Lost' \subseteq Lost, BrokerInv', kills' >= kills, kills' \in Nat
  PROVE  LostBounded'
<1>1. kills \in Nat /\ Cardinality(Lost) \in Nat
  BY FS_CardinalityType DEF LostBounded, BrokerInv, BrokerTypeOK
<1>2. IsFiniteSet(Lost') /\ Cardinality(Lost') <= Cardinality(Lost)
  BY FS_Subset DEF LostBounded
<1>3. Cardinality(Lost') \in Nat
  BY <1>2, FS_CardinalityType
<1> QED
  BY <1>1, <1>2, <1>3 DEF LostBounded, OneLostPerKill

LEMMA KillKeeps ==
  ASSUME LostBounded, Restarted, kills < MaxKills, kills' = kills + 1
  PROVE  LostBounded'
<1>1. kills \in Nat /\ kills' \in 0 .. MaxKills /\ BrokerInv
  BY BrokerAssumption DEF LostBounded, BrokerInv, BrokerTypeOK
<1>2. BrokerInv' /\ Lost' \subseteq Lost \cup {loop.item}
  BY <1>1, RestartLosesOne
<1>3. /\ IsFiniteSet(Lost \cup {loop.item}) /\ Cardinality(Lost \cup {loop.item}) <= Cardinality(Lost) + 1
      /\ Cardinality(Lost) \in Nat
  <2>1. IsFiniteSet(Lost)
    BY DEF LostBounded
  <2>2. Cardinality(Lost) \in Nat
    BY <2>1, FS_CardinalityType
  <2>3. /\ IsFiniteSet(Lost \cup {loop.item})
        /\ Cardinality(Lost \cup {loop.item}) = IF loop.item \in Lost THEN Cardinality(Lost)
                                                                      ELSE Cardinality(Lost) + 1
    BY <2>1, FS_AddElement
  <2> QED
    BY <2>2, <2>3
<1>4. IsFiniteSet(Lost') /\ Cardinality(Lost') <= Cardinality(Lost \cup {loop.item})
  BY <1>2, <1>3, FS_Subset
<1>5. Cardinality(Lost') \in Nat /\ Cardinality(Lost \cup {loop.item}) \in Nat
  BY <1>3, <1>4, FS_CardinalityType
<1> QED
  BY <1>1, <1>2, <1>3, <1>4, <1>5 DEF LostBounded, OneLostPerKill

\* However many messages and connections, a kill costs one message at most,
\* and an orderly stop none.
THEOREM AKillLosesOne == BrokerSpec => []OneLostPerKill
<1>1. BrokerInit => LostBounded
  <2> SUFFICES ASSUME BrokerInit PROVE LostBounded
    OBVIOUS
  <2>1. BrokerInv /\ Lost = {} /\ kills = 0
    BY BrokerStarts DEF BrokerInit
  <2> QED
    BY <2>1, FS_EmptySet DEF LostBounded, OneLostPerKill
<1>2. LostBounded /\ [BrokerNext]_brokerVars => LostBounded'
  <2> SUFFICES ASSUME LostBounded, [BrokerNext]_brokerVars PROVE LostBounded'
    OBVIOUS
  <2>1. BrokerInv /\ kills \in Nat
    BY DEF LostBounded, BrokerInv, BrokerTypeOK
  <2>2. CASE BrokerWork
    <3>1. kills' = kills
      BY <2>2 DEF BrokerWork, Mqtt, Listen, Arrive, Deliver, Ack, ConnectionLost, Reconnect, Receive, TakeRequest,
                  Handled, Published, StopListening, SendMessage, Stop, StopEnds, StopGivesUp, stopVars
    <3> QED
      BY <2>1, <2>2, <3>1, WorkLosesNothing, LostKept
  <2>3. CASE Kill
    BY <2>3, KillKeeps DEF Kill
  <2>4. CASE Exit
    <3>1. CASE loop.pc = "handling"
      BY <2>4, <3>1, KillKeeps DEF Exit
    <3>2. CASE loop.pc # "handling"
      <4>1. Restarted /\ kills' = kills
        BY <2>4, <3>2 DEF Exit
      <4>2. kills' \in 0 .. MaxKills
        BY <2>1, <4>1 DEF BrokerInv, BrokerTypeOK
      <4>3. BrokerInv' /\ Lost' \subseteq Lost
        BY <2>1, <3>2, <4>1, <4>2, RestartLosesOne
      <4> QED
        BY <2>1, <4>1, <4>3, LostKept
    <3> QED
      BY <3>1, <3>2
  <2>5. CASE UNCHANGED brokerVars
    <3>1. BrokerInv' /\ Lost' = Lost /\ kills' = kills
      BY <2>1, <2>5 DEF brokerVars, netVars, loopVars, stopVars, BrokerInv, BrokerTypeOK, Handover, Lost
    <3> QED
      BY <2>1, <3>1, LostKept
  <2> QED
    BY <2>2, <2>3, <2>4, <2>5 DEF BrokerNext, BrokerWork
<1>3. LostBounded => OneLostPerKill
  BY DEF LostBounded
<1> QED
  BY <1>1, <1>2, <1>3, PTL DEF BrokerSpec

-----------------------------------------------------------------------------
(* The process and its stop. *)

\* What the main goroutine has waited for when it goes on.
InTurn ==
  /\ stage \in {"serving", "http", "stopping", "closed", "exited"}
  /\ stage \in {"serving", "http"} => stop = "up"
  /\ stage \in {"closed", "exited"} => stop = "returned"
  /\ stop = "returned" /\ ~gaveUp => loop.pc = "ended"
  /\ closed => stop = "returned"
  /\ stage \notin {"serving", "http"} /\ ~cutOff => sending = {}

\* A job is queued by the handler that runs.
QueuedByHandler == caller.pc # "idle" => loop.pc = "handling"

ShutdownInv == BrokerInv /\ MailInv /\ Lost = {} /\ InTurn /\ QueuedByHandler

\* Every step of the process is one of the broker or leaves it as it is ...
LEMMA ShutdownIsBroker == ShutdownNext => [BrokerWork]_brokerVars
BY DEF ShutdownNext, Running, Main, LoopStep, RequestStep, Quit, HttpStops, BrokerStops, MailStops, CloseDB, End,
       BrokerWork

\* ... and one of the mail worker, or leaves that as it is.
LEMMA ShutdownIsMail == ShutdownNext => [MailNext]_mailVars
BY DEF ShutdownNext, Running, Main, HandlerQueues, Quit, HttpStops, BrokerStops, MailStops, CloseDB, End,
       MailNext

\* The parts of an action of the broker that the stop is about.
LEMMA ListenMoves ==
  ASSUME BrokerInv, Listen
  PROVE  /\ loop.pc # "ended" /\ sending' \subseteq sending
         /\ UNCHANGED <<closing, stop, kills>>
BY DEF Listen, Receive, TakeRequest, Handled, Published, StopListening, netVars, stopVars

LEMMA MqttMoves == Mqtt => UNCHANGED <<loopVars, stop>>
BY DEF Mqtt, Arrive, Deliver, Ack, ConnectionLost, Reconnect, stopVars

LEMMA StopMoves ==
  ASSUME Stop \/ StopEnds \/ StopGivesUp
  PROVE  /\ UNCHANGED loopVars /\ stop # "returned"
         /\ stop' = "returned" /\ loop.pc # "ended" => StopGivesUp
BY DEF Stop, StopEnds, StopGivesUp

LEMMA RunningKeeps ==
  ASSUME ShutdownInv, stage # "exited", Running
  PROVE  InTurn' /\ QueuedByHandler'
<1> USE DEF ShutdownInv
<1>1. UNCHANGED mainVars
  BY DEF Running
<1>2. CASE Mqtt /\ UNCHANGED mailVars
  BY <1>1, <1>2, MqttMoves DEF InTurn, QueuedByHandler, loopVars, mailVars, mainVars
<1>3. CASE LoopStep /\ UNCHANGED mailVars
  <2>1. /\ loop.pc # "ended" /\ sending' \subseteq sending /\ UNCHANGED stop
        /\ loop.pc = "handling" => caller.pc = "idle"
    BY <1>3, ListenMoves DEF LoopStep
  <2> QED
    BY <1>1, <1>3, <2>1 DEF InTurn, QueuedByHandler, mailVars, mainVars
<1>4. CASE RequestStep /\ UNCHANGED mailVars
  BY <1>1, <1>4 DEF RequestStep, SendMessage, InTurn, QueuedByHandler, stopVars, mailVars, mainVars
<1>5. CASE (HandlerQueues \/ CallerStep \/ WorkerStep) /\ UNCHANGED brokerVars
  <2>1. UNCHANGED closed
    BY <1>5 DEF HandlerQueues, CallerStep, WorkerStep, Enqueue, TryQueue, Refuse, Take, Attempt, JobDone, WorkerEnds
  <2>2. HandlerQueues => loop.pc = "handling"
    BY DEF HandlerQueues
  <2>3. CallerStep => caller.pc # "idle"
    BY DEF CallerStep, TryQueue, Refuse
  <2>4. WorkerStep => UNCHANGED caller
    BY DEF WorkerStep, Take, Attempt, JobDone, WorkerEnds
  <2> QED
    BY <1>1, <1>5, <2>1, <2>2, <2>3, <2>4
       DEF InTurn, QueuedByHandler, brokerVars, loopVars, stopVars, mainVars
<1> QED
  BY <1>2, <1>3, <1>4, <1>5 DEF Running

LEMMA MainKeeps ==
  ASSUME ShutdownInv, stage # "exited", Quit \/ Main
  PROVE  InTurn' /\ QueuedByHandler'
<1> USE DEF ShutdownInv
<1>1. CASE Quit \/ HttpStops \/ CloseDB \/ End
  BY <1>1 DEF Quit, HttpStops, CloseDB, End, InTurn, QueuedByHandler, brokerVars, loopVars, stopVars, mailVars
<1>2. CASE BrokerStops
  <2>1. /\ UNCHANGED <<mailVars, stage, cutOff>> /\ stage = "stopping"
        /\ Stop \/ StopEnds \/ StopGivesUp
        /\ gaveUp' = gaveUp \/ gaveUp' = TRUE
        /\ StopGivesUp => gaveUp' = TRUE
    BY <1>2 DEF BrokerStops, Stop, StopEnds, StopGivesUp
  <2> QED
    BY <2>1, StopMoves DEF InTurn, QueuedByHandler, loopVars, mailVars
<1>3. CASE MailStops
  <2>1. UNCHANGED caller
    BY <1>3 DEF MailStops, Close, StopStep, Finished, LimitReached, Drain, ReportLeft
  <2> QED
    BY <1>3, <2>1 DEF MailStops, InTurn, QueuedByHandler, brokerVars, loopVars, stopVars, mainVars
<1> QED
  BY <1>1, <1>2, <1>3 DEF Main

\* The inductive invariant of the whole process.
THEOREM ShutdownCorrect == ShutdownSpec => []ShutdownInv
<1>1. ShutdownInit => ShutdownInv
  <2> SUFFICES ASSUME ShutdownInit PROVE ShutdownInv
    OBVIOUS
  <2>1. InTurn /\ QueuedByHandler
    BY DEF ShutdownInit, BrokerInit, MailInit, InTurn, QueuedByHandler
  <2> QED
    BY <2>1, BrokerStarts, MailStarts DEF ShutdownInit, ShutdownInv
<1>2. ShutdownInv /\ [ShutdownNext]_shutdownVars => ShutdownInv'
  <2> SUFFICES ASSUME ShutdownInv, [ShutdownNext]_shutdownVars PROVE ShutdownInv'
    OBVIOUS
  <2>1. [BrokerWork]_brokerVars /\ [MailNext]_mailVars
    BY ShutdownIsBroker, ShutdownIsMail DEF shutdownVars
  <2>2. MailInv'
    BY <2>1, MailKeeps DEF ShutdownInv
  <2>3. BrokerInv' /\ Lost' = {}
    <3>1. CASE BrokerWork
      BY <3>1, WorkLosesNothing DEF ShutdownInv
    <3>2. CASE UNCHANGED brokerVars
      BY <3>2 DEF ShutdownInv, brokerVars, netVars, loopVars, stopVars, BrokerInv, BrokerTypeOK, Handover, Lost
    <3> QED
      BY <2>1, <3>1, <3>2
  <2>4. InTurn' /\ QueuedByHandler'
    <3>1. CASE ShutdownNext
      BY <3>1, RunningKeeps, MainKeeps DEF ShutdownNext
    <3>2. CASE UNCHANGED shutdownVars
      BY <3>2 DEF ShutdownInv, InTurn, QueuedByHandler, shutdownVars, brokerVars, loopVars, stopVars, mailVars, mainVars
    <3> QED
      BY <3>1, <3>2
  <2> QED
    BY <2>2, <2>3, <2>4 DEF ShutdownInv
<1> QED
  BY <1>1, <1>2, PTL DEF ShutdownSpec

\* A process that is stopped and hangs nowhere has handled every message it
\* acknowledged and published every request it took.
THEOREM OrderlyStopLosesNothing == ShutdownSpec => []NothingLostOnStop
<1>1. ShutdownInv => NothingLostOnStop
  <2> SUFFICES ASSUME ShutdownInv, stage = "exited"
               PROVE  /\ ~gaveUp => arrived \subseteq held \cup handled
                      /\ ~cutOff => sending = {} /\ (loop.pc = "publishing" => gaveUp)
    BY DEF NothingLostOnStop
  <2>1. stop = "returned" /\ (~gaveUp => loop.pc = "ended") /\ (~cutOff => sending = {})
    BY DEF ShutdownInv, InTurn
  <2>2. loop.pc = "ended" => loop.item = NoItem
    BY DEF ShutdownInv, BrokerInv, BrokerTypeOK
  <2>3. NoItem \notin arrived
    BY BrokerAssumption DEF ShutdownInv, BrokerInv, BrokerTypeOK
  <2>4. \A m \in arrived \ (held \cup handled) : loop.item = m
    BY DEF ShutdownInv, Lost
  <2> QED
    BY <2>1, <2>2, <2>3, <2>4
<1> QED
  BY ShutdownCorrect, <1>1, PTL

\* The order of the stop: no handler that was waited for finds the mail worker
\* stopped.
THEOREM WorkerOutlivesHandlers == ShutdownSpec => NoMailRefusedByStop
<1>1. ShutdownInv /\ [ShutdownNext]_shutdownVars
        => [caller.pc = "idle" /\ caller'.pc = "refused" => gaveUp]_shutdownVars
  <2> SUFFICES ASSUME ShutdownInv, ShutdownNext, caller.pc = "idle", caller'.pc = "refused"
               PROVE  gaveUp
    OBVIOUS
  <2>1. caller' # caller
    OBVIOUS
  <2>2. HandlerQueues
    BY <2>1 DEF ShutdownNext, Running, Main, Quit, HttpStops, BrokerStops, MailStops, CloseDB, End, mailVars,
                CallerStep, TryQueue, Refuse, WorkerStep, Take, Attempt, JobDone, WorkerEnds,
                Close, StopStep, Finished, LimitReached, Drain, ReportLeft
  <2>3. loop.pc = "handling" /\ closed
    BY <2>2 DEF HandlerQueues, Enqueue, ShutdownInv, MailInv, MailTypeOK
  <2> QED
    BY <2>3 DEF ShutdownInv, InTurn
<1> QED
  BY ShutdownCorrect, <1>1, PTL DEF ShutdownSpec, NoMailRefusedByStop

\* The process implements the mail worker's specification: what is proved of
\* that (but for its fairness) holds of the worker in the process.
THEOREM ShutdownImplementsMail == ShutdownSpec => MailInit /\ [][MailNext]_mailVars
<1>1. ShutdownInit => MailInit
  BY DEF ShutdownInit
<1>2. [ShutdownNext]_shutdownVars => [MailNext]_mailVars
  BY ShutdownIsMail DEF shutdownVars
<1> QED
  BY <1>1, <1>2, PTL DEF ShutdownSpec

\* It implements the broker's specification too, as a run that ends only after
\* Stop and is not killed.
THEOREM ShutdownImplementsBroker == ShutdownSpec => BrokerInit /\ [][BrokerNext]_brokerVars
<1>1. ShutdownInit => BrokerInit
  BY DEF ShutdownInit
<1>2. [ShutdownNext]_shutdownVars => [BrokerNext]_brokerVars
  BY ShutdownIsBroker DEF shutdownVars, BrokerWork, BrokerNext
<1> QED
  BY <1>1, <1>2, PTL DEF ShutdownSpec
=============================================================================
