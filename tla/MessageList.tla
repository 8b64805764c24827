----------------------------- MODULE MessageList -----------------------------
(***************************************************************************)
(* The administrator's list of messages.  The answers a run with a summary *)
(* stands for are left out of it; while the run is open a live entry, the  *)
(* summary so far, stands in their place, placed with the newest of them.  *)
(* Which run owns an answer is decided here by a rule of its own, which    *)
(* works without the rows before it: an answer is left out only if every   *)
(* run that may still own it is one with a summary of the listed tenant.   *)
(*                                                                         *)
(* The list is read in batches until a page is full, with the runs and     *)
(* summaries that each batch needs.  The rows are EnergyRequest's; a list  *)
(* is read in one moment.  The echoes of the requests, which are left out  *)
(* by the same rule, and messages of other processes, which never are, do  *)
(* not occur.                                                              *)
(*                                                                         *)
(* Bound: MaxBatches batches per list (40 in the code).                    *)
(***************************************************************************)
EXTENDS EnergyRequest

CONSTANTS PageSize, FirstBatch, Batch, MaxBatches

ASSUME PageAssumption == {PageSize, FirstBatch, Batch, MaxBatches} \subseteq Nat \ {0}

\* How long after a run its answers can belong to it.
CollapseWindow == Deadline + LockWindow

Newest(S, n) == {k \in S : Cardinality({j \in S : j > k}) < n}

\* Hidden rows are not listed.  Which of the others are stored for the listed
\* tenant of several is left open: stored is any part of them.
Listed == {k \in DOMAIN rows : rows[k].kind \in {"answer", "summary"}}
Summaries == {s \in DOMAIN rows : rows[s].kind = "summary"}

\* (slip: whether the summary was written before the answer does not matter)
MayOwnUnlessClosed(summaries, i, k) ==
  /\ i < k /\ rows[k].at - rows[i].at <= CollapseWindow
  /\ rows[i].summary => (\E s \in summaries : rows[s].run = i) \/ Age(i) < Deadline

\* Run i may own answer k, as far as the summaries read so far tell.
MayOwn(summaries, i, k) ==
  /\ i < k /\ rows[k].at - rows[i].at <= CollapseWindow
  /\ rows[i].summary =>
       IF \E s \in summaries : rows[s].run = i
         THEN \A s \in summaries : rows[s].run = i => k < s
         ELSE Age(i) < Deadline

PossibleOwners(runs, summaries, k) ==
  {i \in runs : rows[k].meter \in DOMAIN rows[i].periods /\ MayOwn(summaries, i, k)}

Own(t, i) == rows[i].summary /\ rows[i].tenant = t

\* The answers of M that the list of tenant t leaves out.
Hide(t, runs, summaries, M) ==
  {k \in M : /\ rows[k].kind = "answer"
             /\ PossibleOwners(runs, summaries, k) # {}
             /\ \A i \in PossibleOwners(runs, summaries, k) : Own(t, i)}

-----------------------------------------------------------------------------
(* Reading in batches.                                                     *)

\* (slip: the runs of the batch's own time)
RunsReadSlip(messages) ==
  {i \in Runs(DOMAIN rows) : i < Max(messages) /\ rows[i].at >= rows[Min(messages)].at}

\* The runs that can own a message of the batch.
RunsRead(messages) ==
  {i \in Runs(DOMAIN rows) : /\ i < Max(messages)
                             /\ rows[i].at + CollapseWindow >= rows[Min(messages)].at}

FirstReading == [before |-> Len(rows) + 1, visible |-> {}, left |-> {}, runs |-> {}, summaries |-> {},
                 summariesFrom |-> Len(rows) + 1, more |-> TRUE]

\* The next batch: its runs, the summaries written since the oldest of them
\* that are not read yet, and what it adds to the page.
ReadBatch(t, stored, r, size) ==
  LET batch == Newest({k \in stored : k < r.before}, size)
      messages == {k \in batch : rows[k].kind = "answer"}
      read == IF messages = {} THEN {} ELSE RunsRead(messages)
      from == Min(read \cup {r.summariesFrom})
      runs == r.runs \cup read
      summaries == r.summaries \cup {s \in Summaries : from <= s /\ s < r.summariesFrom}
      left == Hide(t, runs, summaries, messages)
      visible == r.visible \cup Newest(batch \ left, PageSize - Cardinality(r.visible))
  IN [before |-> Min(batch \cup {r.before}), visible |-> visible, left |-> r.left \cup left,
      runs |-> runs, summaries |-> summaries, summariesFrom |-> from,
      more |-> Cardinality(batch) = size /\ Cardinality(visible) < PageSize]

\* Until the page is full or nothing is left; but no more than MaxBatches.
NextReading(t, stored, r, n) ==
  IF r.more THEN ReadBatch(t, stored, r, IF n = 1 THEN FirstBatch ELSE Batch) ELSE r

CollapsedNotifications(t, stored) ==
  LET reading[n \in 0 .. MaxBatches] ==
        IF n = 0 THEN FirstReading ELSE NextReading(t, stored, reading[n - 1], n)
  IN reading[MaxBatches]

-----------------------------------------------------------------------------
(* The list. *)

\* The runs that have a live entry.
Live(t) == {i \in Runs(View) : Own(t, i) /\ Open(i) /\ Age(i) < Deadline}

\* A live entry is placed with the newest answer left out of which its run is
\* the newest possible owner; any other entry where its row is.
Place(r, i) ==
  IF i \notin Runs(DOMAIN rows) THEN i
  ELSE Max({i} \cup {k \in r.left : Max(PossibleOwners(r.runs, r.summaries, k)) = i})

\* The first page: what is visible and the live entries, cut at PageSize.
Entries(t, r) ==
  LET all == r.visible \cup Live(t)
      place == [i \in all |-> Place(r, i)]
  IN {i \in all : Cardinality({j \in all : place[j] > place[i]}) < PageSize}

GetNotification(t, stored) == Entries(t, CollapsedNotifications(t, stored))

-----------------------------------------------------------------------------
ListedTenants == {TenantOf[c] : c \in Clients}

\* What the batches are meant to compute: everything read at once.
WholeReading(t, stored) ==
  LET left == Hide(t, Runs(DOMAIN rows), Summaries, stored)
  IN [visible |-> stored \ left, left |-> left, runs |-> Runs(DOMAIN rows), summaries |-> Summaries]

\* The batches ran out before the page was full, and rows are left.
CutShort(stored, r) == r.more /\ \E k \in stored : k < r.before

\* The page that is read batch by batch, with a part of the runs and of the
\* summaries, is the first page of the whole list, whatever was left out
\* between the entries and wherever the live entries are placed.  If it is cut
\* short, it agrees with that page as far back as the rows were read.
PageIsNewest ==
  \A t \in ListedTenants, stored \in SUBSET Listed :
     LET r == CollapsedNotifications(t, stored)
         page == GetNotification(t, stored)
         whole == WholeReading(t, stored)
         first == Entries(t, whole)
     IN \/ page = first
        \/ /\ CutShort(stored, r)
           /\ {i \in page : Place(whole, i) >= r.before} = {i \in first : Place(whole, i) >= r.before}

\* An answer that is left out belongs, by the attribution of the summaries, to
\* a run of the listed tenant whose live entry or summary stands for it (or
\* whose summary is due): "kept are messages a request for a single metering
\* point or another tenant's run can own, an answer after the summary".  The
\* two rules differ in three cases, in which the answer is on no list:
\*   - its run, of another tenant, is due, and the check has not yet been;
\*   - a request for a single metering point has been unanswered for more than
\*     a CollapseWindow (see OwnerStays);
\*   - it comes after the summary of a run that requested the metering point
\*     again, and the run before, open because of other metering points, is
\*     taken for its owner: the list does not know which run supersedes which.
DueElsewhere(t, i) == rows[i].summary /\ ~Own(t, i) /\ Open(i) /\ Age(i) >= Deadline
UnansweredSingle(i, k) == ~rows[i].summary /\ rows[i].at + CollapseWindow < rows[k].at
AfterSecondSummary(k) ==
  \E i \in Requesting(1 .. k, rows[k].meter), j \in Requesting(1 .. k, rows[k].meter) :
     /\ i < j /\ Superseding(1 .. k, i, rows[k].meter) # {}
     /\ Closed(1 .. k, i) = {} /\ Closed(1 .. k, j) # {}

LeftOutIsCounted ==
  \A t \in ListedTenants : \A k \in WholeReading(t, Listed).left :
     LET i == Owners(DOMAIN rows)[k]
     IN IF i = 0 THEN AfterSecondSummary(k)
        ELSE \/ i \in Live(t)
             \/ Own(t, i) /\ (Closed(DOMAIN rows, i) # {} \/ Age(i) >= Deadline)
             \/ DueElsewhere(t, i)
             \/ UnansweredSingle(i, k)
=============================================================================
