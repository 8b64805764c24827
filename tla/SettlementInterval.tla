------------------------- MODULE SettlementInterval -------------------------
(***************************************************************************)
(* How a community changes how often it settles.  The new interval applies *)
(* from the month after the last one that was settled for good, and only   *)
(* where one of its periods starts.                                        *)
(*                                                                         *)
(* Billing is another service (external here): it settles the periods of   *)
(* the interval in force, one run each, in any order, and no month twice.  *)
(* Its lists of final and running periods reach the rule through the web   *)
(* client, which read them before; only the change itself is locked.       *)
(*                                                                         *)
(* Months are counted from a January.  Left out: the identifiers of the    *)
(* periods, and the wording of the answers.                                *)
(***************************************************************************)
EXTENDS Integers, Sequences, FiniteSets, FiniteSetsExt

CONSTANTS Intervals, FirstInterval,
          PeriodMonths,   \* the length of an interval's periods
          GapWindow,      \* how many months up to the last settled one must be complete
          Horizon,        \* bound: months that are settled
          MaxChanges,     \* bound: changes of the interval
          MaxRuns,        \* bound: runs at a time
          Pages           \* web clients

ASSUME IntervalAssumption == /\ PeriodMonths \in [Intervals -> Nat \ {0}]
                             /\ FirstInterval \in Intervals
                             /\ GapWindow \in Nat /\ Horizon \in Nat

VARIABLES interval,       \* the interval in force
          final, running, \* billing: settled periods, and periods being calculated
          page,           \* page[c]: the lists a client has read
          records,        \* changes made: [old, new, from, last]
          since,          \* the first settled month when the interval was changed last
          named,          \* months a change gave up, as its answer said
          outdated        \* a change was decided on lists that billing had changed since

intervalVars == <<interval, final, running, page, records, since, named, outdated>>

AtOnce == -1
Unset == -2
MonthsOf(p) == p.first .. p.last
Covered(periods) == UNION {MonthsOf(p) : p \in periods}
Start(m, length) == (m \div length) * length
PeriodOf(m, length) == [first |-> Start(m, length), last |-> Start(m, length) + length - 1]
Lists == [final |-> final, running |-> running]

IntervalInit == /\ interval = FirstInterval
                /\ final = {} /\ running = {}
                /\ page = [c \in Pages |-> {}]
                /\ records = << >> /\ since = 0 /\ named = {} /\ outdated = FALSE

-----------------------------------------------------------------------------
(* The rule. *)

LastMonth(periods) == Max({p.last : p \in periods})
Uncovered(periods) == (Min({p.first : p \in periods}) .. LastMonth(periods)) \ Covered(periods)

\* A gap in the window blocks, an older one is only named.
Recent(periods) == {m \in Uncovered(periods) : m > LastMonth(periods) - GapWindow}

RunningFrom(periods, start) == \E p \in periods : p.last >= start

Blocked(earliest) == [allowed |-> FALSE, from |-> Unset, earliest |-> earliest, older |-> {}]
Allowed(from, older) == [allowed |-> TRUE, from |-> from, earliest |-> Unset, older |-> older]

NextStart(start, length) == Start(start, length) + length

DecideSettlementInterval(new, lists) ==
  LET start == LastMonth(lists.final) + 1
      length == PeriodMonths[new]
  IN CASE lists.final = {} -> IF lists.running = {} THEN Allowed(AtOnce, {}) ELSE Blocked(Unset)
       [] lists.final # {} /\ Recent(lists.final) # {} -> Blocked(Unset)
       [] lists.final # {} /\ Recent(lists.final) = {} /\ start % length # 0 ->
            Blocked(NextStart(start, length))
       [] OTHER -> IF RunningFrom(lists.running, start) THEN Blocked(Unset)
                   ELSE Allowed(start, Uncovered(lists.final))

-----------------------------------------------------------------------------
(* Billing and its clients. *)

BeginRun ==
  \E m \in 0 .. Horizon - 1 :
     LET p == PeriodOf(m, PeriodMonths[interval]) IN
     /\ p.last < Horizon /\ Cardinality(running) < MaxRuns
     /\ MonthsOf(p) \cap Covered(final \cup running) = {}
     /\ running' = running \cup {p}
     /\ UNCHANGED <<interval, final, page, records, since, named, outdated>>

EndRun ==
  \E p \in running : /\ running' = running \ {p}
                     /\ final' \in {final, final \cup {p}}
                     /\ UNCHANGED <<interval, page, records, since, named, outdated>>

ReadLists(c) ==
  /\ page' = [page EXCEPT ![c] = {Lists}]
  /\ UNCHANGED <<interval, final, running, records, since, named, outdated>>

\* (slip: a run that is being calculated does not matter)
MayChangeWhileRunning(new, lists) ==
  new # interval /\ DecideSettlementInterval(new, [lists EXCEPT !.running = {}]).allowed
MayChange(new, lists) == new # interval /\ DecideSettlementInterval(new, lists).allowed

\* The community's row is locked, the rule decides on the client's lists; what
\* it refuses, and a dry run, write nothing.
ChangeSettlementInterval(c) ==
  \E new \in Intervals, lists \in page[c] :
     LET d == DecideSettlementInterval(new, lists) IN
     /\ Len(records) < MaxChanges /\ MayChange(new, lists)
     /\ interval' = new
     /\ records' = Append(records, [old |-> interval, new |-> new, from |-> d.from,
                                    last |-> IF lists.final = {} THEN Unset ELSE LastMonth(lists.final)])
     /\ since' = IF lists.final = {} THEN 0 ELSE Min({p.first : p \in lists.final})
     /\ named' = named \cup d.older
     /\ outdated' = (outdated \/ lists # Lists)
     /\ page' = [page EXCEPT ![c] = {}]
     /\ UNCHANGED <<final, running>>

IntervalNext == \/ BeginRun \/ EndRun
                \/ \E c \in Pages : ReadLists(c) \/ ChangeSettlementInterval(c)

IntervalSpec == IntervalInit /\ [][IntervalNext]_intervalVars

-----------------------------------------------------------------------------
\* No change strands a month: what has not been settled since the first
\* settlement lies in a period of the interval in force that can still be
\* settled, unless the change's own answer named it.  Excepted are months
\* before the first settlement at the time of the change, and a change that was
\* decided on outdated lists: the rule cannot know of a run that began after the
\* client read them.
NoMonthStranded ==
  outdated \/ final = {} \/
     \A m \in Uncovered(final) \ named :
        \/ m < since
        \/ MonthsOf(PeriodOf(m, PeriodMonths[interval])) \cap Covered(final) = {}
=============================================================================
