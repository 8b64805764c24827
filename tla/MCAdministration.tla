-------------------------- MODULE MCAdministration --------------------------
(***************************************************************************)
(* An instance of Administration for TLC.                                  *)
(***************************************************************************)
EXTENDS Administration

CONSTANTS p1, p2, x1, anna, ben, c1, c2, u1, t1, t2, x2, o1, o2

\* Two members, the first from an older version.
Names == [p \in Ids |-> IF p = p1 THEN anna ELSE ben]
ContactAndAccount == <<"contact", "account">>

\* Two sheets: one names a metering point twice and has a number of a wrong
\* length, the other has a row without a number.
DataRow(name, status, x) ==
  [community |-> TRUE, name |-> name, direction |-> TRUE, status |-> status, point |-> x]
TwoSheets ==
  {<<DataRow(ben, "ACTIVE", x1), DataRow(ben, "NEW", x1), DataRow(anna, "NEW", BadNumber)>>,
   <<DataRow(anna, "NEW", Blank), DataRow(anna, "ACTIVE", x1), DataRow(ben, "NEW", x1)>>}

\* A day of four quarters; one window runs over midnight.
Window(from, to) == [from |-> from, to |-> to]
Windows == {NoWindow, Window(0, 1), Window(1, 3), Window(3, 1)}

Months == [i \in Intervals |-> CASE i = "MONTHLY" -> 1 [] i = "QUARTER" -> 3 [] i = "BIANNUAL" -> 6]

\* A GEA of two communities, and one of another kind whose name differs from
\* the first only in the spelling.
Spellings == {"GC1", "gc1", "GC1-1"}
Folded == [t \in Spellings |-> IF t = "gc1" THEN "GC1" ELSE t]
ByLetter == [t \in Spellings |-> CASE t = "GC1" -> 1 [] t = "GC1-1" -> 2 [] t = "gc1" -> 3]
Application(t, rc, area) == [tenant |-> t, rc |-> rc, area |-> area, ec |-> "AT1"]
ThreeApplications == {Application("GC1", "GC1", "GEA"), Application("GC1-1", "GC1", "GEA"),
                      Application("gc1", "gc1", "LOCAL")}

\* Two metering points, of two grid operators.
Operators == [x \in Meters |-> IF x = x1 THEN o1 ELSE o2]

\* Requests, editors, registrations, writers and readers run in different
\* parts, so that one pair of names serves them all.
Symmetry == Permutations({c1, c2})

\* What a change decided on outdated lists leads to is not looked at.
ListsCurrent == ~outdated
=============================================================================
