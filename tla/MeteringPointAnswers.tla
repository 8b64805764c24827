------------------------ MODULE MeteringPointAnswers ------------------------
(***************************************************************************)
(* Registrations and deregistrations of the same members, with the day on  *)
(* which the present participation of a row began.  The register does not  *)
(* keep that day: a row that is activated again keeps its first start day, *)
(* which controls what a member is shown of the past.                      *)
(*                                                                         *)
(* Only the operations that matter to it: a part of the behaviours of      *)
(* MeteringPoint.                                                          *)
(***************************************************************************)
EXTENDS MeteringPoint

VARIABLE begun  \* history: the start day named by the message that began the
                \* present participation, NoDate without one

answerVars == <<row, begun>>

AnswersInit == Init /\ begun = [k \in Keys |-> NoDate]

\* The grid operator completes a registration with start day d.
Complete(t, m, d) ==
  /\ SetStatus(t, {m}, [state |-> "ACTIVE", keep |-> FALSE, since |-> d, consent |-> NoConsent])
  /\ begun' = [k \in Keys |-> IF k \in Assigned(t, {m}) /\ ~TakesPart(row[k]) THEN d ELSE begun[k]]

\* It answers a deregistration, for the first time or again.
Answer(t, m, d) ==
  /\ RevokeActive(t, m, d)
  /\ begun' = [k \in Keys |-> IF row'[k] = row[k] THEN begun[k] ELSE NoDate]

AnswersNext ==
  \/ \E p \in Participants : Register(p) /\ UNCHANGED begun
  \/ \E t \in Tenants, m \in Meters, d \in Dates : Complete(t, m, d) \/ Answer(t, m, d)

AnswersSpec == AnswersInit /\ [][AnswersNext]_answerVars

\* meteringPointRevokeActive: "an answer that arrives twice, [...] or after a
\* new participation leaves the row and its date".
LateAnswerLeavesNewParticipation ==
  [][\A t \in Tenants, m \in Meters, d \in Dates :
        Answer(t, m, d) => \A k \in Stored : begun[k] > d => row'[k] = row[k]]_answerVars
=============================================================================
