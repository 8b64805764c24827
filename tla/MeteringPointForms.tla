------------------------- MODULE MeteringPointForms -------------------------
(***************************************************************************)
(* The register of metering points together with the edit form of the web  *)
(* client.  The client reads a member with its metering points, lets the   *)
(* administrator edit one of them and sends the whole metering point back  *)
(* (PUT): the update writes status, process state and start day as they    *)
(* are in the body, that is, as they were when the form was opened.        *)
(*                                                                         *)
(* Bound: one form is open at a time.  The edited fields are descriptive   *)
(* ones that the register does not show here.                              *)
(***************************************************************************)
EXTENDS MeteringPoint

CONSTANT NoForm

VARIABLE form            \* [key, read] of the open form, or NoForm

formVars == <<row, form>>

FormTypeOK == form \in [key : Keys, read : Row] \cup {NoForm}

\* The client reads a row and opens its form.
OpenForm(k) ==
  /\ form = NoForm /\ k \in Stored
  /\ form' = [key |-> k, read |-> row[k]]
  /\ UNCHANGED row

\* The row after the whole metering point of the form is written to it; no
\* start day in the body leaves the stored one.
WrittenRow(r, read) ==
  [r EXCEPT !.status = read.status, !.ps = read.ps,
            !.since = IF read.since # NoDate THEN read.since ELSE r.since]

\* Save it: the row is looked up by number and member again; no row, no update.
SaveForm ==
  /\ form # NoForm
  /\ row' = [k \in Keys |-> IF k = form.key /\ k \in Stored
                              THEN WrittenRow(row[k], form.read) ELSE row[k]]
  /\ form' = NoForm

FormInit == Init /\ form = NoForm

FormNext == \/ Next /\ UNCHANGED form
            \/ \E k \in Keys : OpenForm(k)
            \/ SaveForm

FormSpec == FormInit /\ [][FormNext]_formVars

=============================================================================
