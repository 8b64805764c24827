---------------------------- MODULE MembersProofs ----------------------------
(***************************************************************************)
(* Proofs about Members, for any number of members, parts, metering points *)
(* and requests: what the locks keep apart, how often a member is listed,  *)
(* and what an import reports.                                             *)
(***************************************************************************)
EXTENDS Administration, WellFoundedInduction, TLAPS

-----------------------------------------------------------------------------
(* Types. *)

IsUpdate(r) == r \in [op : {"update"}, p : Ids, status : FormStatuses, locked : BOOLEAN,
                      todo : Seq(PartSet), inserted : SUBSET PartSet, begun : BOOLEAN]
IsPartial(r) == r \in [op : {"partial"}, p : Ids, fields : SUBSET PartSet, missing : SUBSET PartSet]
IsDelete(r) == r \in [op : {"delete"}, p : Ids, locked : BOOLEAN, checked : BOOLEAN]
IsImport(r) == /\ DOMAIN r = {"op", "sheet", "todo", "looked", "found", "added", "failed"}
               /\ r = [f \in DOMAIN r |-> r[f]]
               /\ r.op = "import" /\ r.found \in SUBSET Ids

IsRequest(r) == r = Idle \/ IsUpdate(r) \/ IsPartial(r) \/ IsDelete(r) \/ IsImport(r)

Registered == [of : SUBSET Ids, state : {"none", "new", "open", "took"}]

MembersTyped ==
  /\ DOMAIN member = Ids /\ member = [p \in Ids |-> member[p]]
  /\ rows \in [Ids -> [PartSet -> Nat]]
  /\ point \in [Points -> Registered]
  /\ DOMAIN request = Clients /\ request = [c \in Clients |-> request[c]]
  /\ \A c \in Clients : IsRequest(request[c])

\* What is known of a request by its kind.
LEMMA Kinds ==
  ASSUME NEW r, IsRequest(r)
  PROVE  /\ r.op = "idle" => r = Idle
         /\ r.op = "update" => IsUpdate(r)
         /\ r.op = "partial" => IsPartial(r)
         /\ r.op = "delete" => IsDelete(r)
         /\ r.op = "import" => IsImport(r)
         /\ r.op \in {"idle", "update", "partial", "delete", "import"}
BY DEF IsRequest, IsUpdate, IsPartial, IsDelete, IsImport, Idle

-----------------------------------------------------------------------------
(* What the locks keep apart. *)

\* A member who was deleted, with nothing left of him.
Gone(p) == member[p] = "gone" /\ \A part \in PartSet : rows[p][part] = 0

\* Who holds a member holds him alone, and the member exists; who does not
\* hold him may find him gone.
LocksHold ==
  \A c \in Clients : LET r == request[c] IN
     /\ \A p \in Ids : Holds(c, p) => /\ Exists(p)
                                      /\ \A d \in Clients : Holds(d, p) => d = c
     /\ r.op \in {"update", "partial"} => Exists(r.p) \/ Gone(r.p)
     /\ r.op = "update" /\ ~r.locked => r.todo = Parts /\ (r.begun => Gone(r.p))
     /\ r.op = "update" /\ r.locked => r.begun

\* What is about to be deleted never took part, and cannot begin to.
DeletionsHold ==
  \A c \in Clients : request[c].op = "delete" /\ request[c].checked =>
     /\ request[c].locked
     /\ \A x \in MetersOf(request[c].p) : point[x].state = "new"

\* Who takes part, or is about to, is somebody.
PointsOwned == \A x \in Points : point[x].state \in {"open", "took"} => point[x].of # {}

DeleteInv == MembersTyped /\ LocksHold /\ DeletionsHold /\ PointsOwned

LEMMA DeleteInitially == MembersInit => DeleteInv
<1> SUFFICES ASSUME MembersInit PROVE DeleteInv
  OBVIOUS
<1>1. \A c \in Clients : request[c] = Idle /\ request[c].op = "idle"
  BY DEF MembersInit, Idle
<1>2. \A x \in Points : point[x] = Free
  BY DEF MembersInit
<1>3. MembersTyped
  <2>1. rows \in [Ids -> [PartSet -> Nat]]
    BY DEF MembersInit
  <2>2. point \in [Points -> Registered]
    BY DEF MembersInit, Free, Registered
  <2>3. /\ DOMAIN member = Ids /\ member = [p \in Ids |-> member[p]]
        /\ DOMAIN request = Clients /\ request = [c \in Clients |-> request[c]]
    BY DEF MembersInit
  <2> QED
    BY <1>1, <2>1, <2>2, <2>3 DEF MembersTyped, IsRequest
<1>4. LocksHold
  BY <1>1 DEF LocksHold, Holds
<1>5. DeletionsHold /\ PointsOwned
  BY <1>1, <1>2 DEF DeletionsHold, PointsOwned, Free
<1> QED
  BY <1>3, <1>4, <1>5 DEF DeleteInv

-----------------------------------------------------------------------------
(* A step: the requests in S go on, the others stay where they are. *)

\* Who exists, and who is gone, after the step.
Stays(p) == member'[p] \in MemberStatuses
Leaves(p) == member'[p] = "gone" /\ \A part \in PartSet : rows'[p][part] = 0

\* What a request that goes on owes the locks and the metering points.
Respects(c) == LET r == request'[c] IN
  /\ r.op \in {"update", "delete"} /\ r.locked =>
       Stays(r.p) /\ \A d \in Clients : Holds(d, r.p) => d = c
  /\ r.op \in {"update", "partial"} => Stays(r.p) \/ Leaves(r.p)
  /\ r.op = "update" /\ ~r.locked => r.todo = Parts /\ (r.begun => Leaves(r.p))
  /\ r.op = "update" /\ r.locked => r.begun
  /\ r.op = "delete" /\ r.checked =>
       /\ r.locked
       /\ \A x \in Points : r.p \in point'[x].of => point'[x].state = "new"

\* Members come and go: one who is gone stays gone, and only a request that
\* holds a member ends him.
MembersStay(S) == \A q \in Ids :
  /\ Gone(q) => Leaves(q)
  /\ Exists(q) => \/ Stays(q)
                  \/ Leaves(q) /\ \A d \in Clients : Holds(d, q) => d \in S

\* Metering points of a member change only while no deletion has locked them.
PointsStay == \A x \in Points, q \in Ids :
  q \in point'[x].of => \/ point'[x].state = "new"
                        \/ q \in point[x].of /\ point'[x].state = point[x].state
                        \/ ~MetersLocked(q)

LEMMA StepKeeps ==
  ASSUME DeleteInv, NEW S \in SUBSET Clients,
         DOMAIN request' = Clients /\ request' = [c \in Clients |-> request'[c]],
         \A d \in Clients \ S : request'[d] = request[d],
         \A d \in S : IsRequest(request'[d]) /\ Respects(d),
         \A c, d \in S : c = d,
         DOMAIN member' = Ids /\ member' = [p \in Ids |-> member'[p]],
         rows' \in [Ids -> [PartSet -> Nat]],
         point' \in [Points -> Registered],
         MembersStay(S), PointsStay, PointsOwned'
  PROVE  DeleteInv'
<1>1. MembersTyped'
  <2>1. \A c \in Clients : IsRequest(request'[c])
    BY DEF DeleteInv, MembersTyped
  <2>2. \A c \in Clients : IsRequest(request[c])'
    BY <2>1, Zenon DEF IsRequest, IsUpdate, IsPartial, IsDelete, IsImport
  <2> QED
    BY <2>2 DEF MembersTyped
<1>2. \A d \in Clients \ S, q \in Ids : Holds(d, q)' <=> Holds(d, q)
  BY DEF Holds
<1>3. \A d \in Clients, q \in Ids : Holds(d, q)' => Stays(q)
  <2> SUFFICES ASSUME NEW d \in Clients, NEW q \in Ids, Holds(d, q)' PROVE Stays(q)
    OBVIOUS
  <2>1. CASE d \in S
    BY <2>1 DEF Respects, Holds
  <2>2. CASE d \notin S
    <3>1. Holds(d, q) /\ Exists(q)
      BY <1>2, <2>2 DEF DeleteInv, LocksHold
    <3> QED
      BY <2>2, <3>1 DEF MembersStay
  <2> QED
    BY <2>1, <2>2
<1>4. \A c, d \in Clients, q \in Ids : Holds(c, q)' /\ Holds(d, q)' => d = c
  <2> SUFFICES ASSUME NEW c \in Clients, NEW d \in Clients, NEW q \in Ids, Holds(c, q)', Holds(d, q)'
               PROVE  d = c
    OBVIOUS
  <2>1. CASE c \in S /\ d \in S
    BY <2>1
  <2>2. CASE c \in S /\ d \notin S
    BY <1>2, <2>2 DEF Respects, Holds
  <2>3. CASE c \notin S /\ d \in S
    BY <1>2, <2>3 DEF Respects, Holds
  <2>4. CASE c \notin S /\ d \notin S
    BY <1>2, <2>4 DEF DeleteInv, LocksHold
  <2> QED
    BY <2>1, <2>2, <2>3, <2>4
<1>5. LocksHold'
  <2> SUFFICES ASSUME NEW d \in Clients
               PROVE  LET r == request'[d] IN
                      /\ r.op \in {"update", "partial"} => Stays(r.p) \/ Leaves(r.p)
                      /\ r.op = "update" /\ ~r.locked => r.todo = Parts /\ (r.begun => Leaves(r.p))
                      /\ r.op = "update" /\ r.locked => r.begun
    BY <1>3, <1>4 DEF LocksHold, Stays, Leaves, Exists, Gone
  <2>1. CASE d \in S
    BY <2>1 DEF Respects
  <2>2. CASE d \notin S
    <3>1. request'[d] = request[d]
      BY <2>2
    <3>2. request[d].op \in {"update", "partial"} => request[d].p \in Ids
      BY Kinds DEF DeleteInv, MembersTyped, IsUpdate, IsPartial
    <3> QED
      BY <3>1, <3>2 DEF DeleteInv, LocksHold, MembersStay
  <2> QED
    BY <2>1, <2>2
<1>6. DeletionsHold'
  <2> SUFFICES ASSUME NEW d \in Clients, request'[d].op = "delete", request'[d].checked
               PROVE  /\ request'[d].locked
                      /\ \A x \in Points : request'[d].p \in point'[x].of => point'[x].state = "new"
    BY DEF DeletionsHold, MetersOf
  <2>1. CASE d \in S
    BY <2>1 DEF Respects
  <2>2. CASE d \notin S
    <3>1. request'[d] = request[d] /\ request[d].p \in Ids
      BY <2>2, Kinds DEF DeleteInv, MembersTyped, IsDelete
    <3>2. MetersLocked(request[d].p) /\ request[d].locked
      BY <3>1 DEF MetersLocked, DeleteInv, DeletionsHold
    <3> QED
      BY <3>1, <3>2 DEF PointsStay, DeleteInv, DeletionsHold, MetersOf
  <2> QED
    BY <2>1, <2>2
<1> QED
  BY <1>1, <1>5, <1>6 DEF DeleteInv

-----------------------------------------------------------------------------
(* Steps that change nothing but the request of one client. *)

\* What the new request r of client c owes while the data stay.
Fits(c, r) ==
  /\ r.op \in {"update", "delete"} /\ r.locked =>
       Exists(r.p) /\ \A d \in Clients : Holds(d, r.p) => d = c
  /\ r.op \in {"update", "partial"} => Exists(r.p) \/ Gone(r.p)
  /\ r.op = "update" /\ ~r.locked => r.todo = Parts /\ (r.begun => Gone(r.p))
  /\ r.op = "update" /\ r.locked => r.begun
  /\ r.op = "delete" /\ r.checked =>
       r.locked /\ \A x \in MetersOf(r.p) : point[x].state = "new"

LEMMA RequestGoesOn ==
  ASSUME DeleteInv, NEW c \in Clients, NEW r, IsRequest(r), Fits(c, r),
         request' = [request EXCEPT ![c] = r],
         member' = member, rows' = rows, point' = point
  PROVE  DeleteInv'
<1>1. /\ DOMAIN request' = Clients /\ request' = [d \in Clients |-> request'[d]]
      /\ \A d \in Clients \ {c} : request'[d] = request[d]
      /\ request'[c] = r
  BY DEF DeleteInv, MembersTyped
<1>2. \A q \in Ids : (Gone(q) <=> Leaves(q)) /\ (Exists(q) <=> Stays(q))
  BY DEF Gone, Leaves, Exists, Stays
<1>3. MembersStay({c}) /\ PointsStay
  BY <1>2 DEF MembersStay, PointsStay
<1>4. Respects(c)
  BY <1>1 DEF Respects, Fits, MetersOf, Exists, Stays, Gone, Leaves
<1>5. /\ DOMAIN member' = Ids /\ member' = [p \in Ids |-> member'[p]]
      /\ rows' \in [Ids -> [PartSet -> Nat]] /\ point' \in [Points -> Registered]
      /\ PointsOwned'
  BY DEF DeleteInv, MembersTyped, PointsOwned
<1> QED
  BY <1>1, <1>3, <1>4, <1>5, StepKeeps, Zenon

\* The request ends.
LEMMA RequestEnds ==
  ASSUME DeleteInv, NEW c \in Clients, Ends(c), member' = member, rows' = rows, point' = point
  PROVE  DeleteInv'
BY RequestGoesOn DEF Ends, Fits, IsRequest, Idle

\* An import goes on.
LEMMA ImportGoesOn ==
  ASSUME DeleteInv, NEW c \in Clients, NEW r, IsImport(r),
         request' = [request EXCEPT ![c] = r], member' = member, rows' = rows, point' = point
  PROVE  DeleteInv'
<1>1. Fits(c, r)
  BY DEF Fits, IsImport
<1> QED
  BY <1>1, RequestGoesOn DEF IsRequest

LEMMA ImportKeeps ==
  ASSUME DeleteInv, NEW c \in Clients, BeginImport(c) \/ LookForName(c) \/ EndImport(c)
  PROVE  DeleteInv'
<1>1. CASE BeginImport(c)
  <2>1. PICK sheet \in Sheets :
          request' = [request EXCEPT ![c] = [op |-> "import", sheet |-> sheet, todo |-> Transform(sheet),
                                     looked |-> FALSE, found |-> {}, added |-> {}, failed |-> {}]]
    BY <1>1 DEF BeginImport
  <2> DEFINE r == [op |-> "import", sheet |-> sheet, todo |-> Transform(sheet),
                   looked |-> FALSE, found |-> {}, added |-> {}, failed |-> {}]
  <2>2. IsImport(r)
    BY DEF IsImport
  <2>3. member' = member /\ rows' = rows /\ point' = point
    BY <1>1 DEF BeginImport
  <2> QED
    BY <2>1, <2>2, <2>3, ImportGoesOn
<1>2. CASE LookForName(c)
  <2>1. PICK found \in SUBSET Ids : request' = [request EXCEPT ![c].looked = TRUE, ![c].found = found]
    <3> DEFINE same == {p \in Ids : Exists(p) /\ NameOf[p] = Importing(c).name}
               choices == {{p} : p \in same} \cup (IF same = {} THEN {{}} ELSE {})
    <3>1. \E found \in choices : request' = [request EXCEPT ![c].looked = TRUE, ![c].found = found]
      BY <1>2 DEF LookForName
    <3>2. choices \subseteq SUBSET Ids
      OBVIOUS
    <3> HIDE DEF choices
    <3> QED
      BY <3>1, <3>2
  <2> DEFINE r == [request[c] EXCEPT !.looked = TRUE, !.found = found]
  <2>2. IsImport(request[c])
    BY <1>2, Kinds DEF LookForName, DeleteInv, MembersTyped
  <2>3. IsImport(r)
    BY <2>2 DEF IsImport
  <2>4. request' = [request EXCEPT ![c] = r]
    BY <2>1 DEF DeleteInv, MembersTyped
  <2>5. member' = member /\ rows' = rows /\ point' = point
    BY <1>2 DEF LookForName
  <2> QED
    BY <2>3, <2>4, <2>5, ImportGoesOn
<1>3. CASE EndImport(c)
  BY <1>3, RequestEnds DEF EndImport
<1> QED
  BY <1>1, <1>2, <1>3

LEMMA UpdateKeeps ==
  ASSUME DeleteInv, NEW c \in Clients, BeginUpdate(c) \/ UpdateMember(c) \/ UpdatePart(c)
  PROVE  DeleteInv'
<1>1. CASE BeginUpdate(c)
  <2>1. PICK p \in Ids, status \in FormStatuses :
          /\ Exists(p)
          /\ request' = [request EXCEPT ![c] = [op |-> "update", p |-> p, status |-> status, locked |-> FALSE,
                                                todo |-> Parts, inserted |-> {}, begun |-> FALSE]]
    BY <1>1 DEF BeginUpdate
  <2> DEFINE r == [op |-> "update", p |-> p, status |-> status, locked |-> FALSE,
                   todo |-> Parts, inserted |-> {}, begun |-> FALSE]
  <2>2. IsRequest(r)
    BY PartsAssumption DEF IsRequest, IsUpdate
  <2>3. Fits(c, r)
    BY <2>1 DEF Fits
  <2>4. member' = member /\ rows' = rows /\ point' = point
    BY <1>1 DEF BeginUpdate
  <2> QED
    BY <2>1, <2>2, <2>3, <2>4, RequestGoesOn
<1>2. CASE UpdateMember(c)
  <2>1. IsUpdate(request[c]) /\ request[c].op = "update" /\ ~request[c].begun /\ ~Locked(request[c].p)
    BY <1>2, Kinds DEF UpdateMember, DeleteInv, MembersTyped
  <2> DEFINE p == request[c].p
             r == [[request[c] EXCEPT !.begun = TRUE] EXCEPT !.locked = Exists(p)]
  <2>2. IsUpdate(r)
    <3>1. Exists(p) \in BOOLEAN
      BY DEF Exists
    <3> QED
      BY <2>1, <3>1 DEF IsUpdate
  <2>3. /\ r.op = "update" /\ r.p = p /\ r.begun /\ r.locked = Exists(p) /\ r.todo = request[c].todo
    BY <2>1 DEF IsUpdate
  <2>4. Exists(p) \/ Gone(p)
    BY <2>1 DEF DeleteInv, LocksHold
  <2>5. \A d \in Clients : ~Holds(d, p)
    BY <2>1 DEF Locked
  <2>6. request[c].todo = Parts
    BY <2>1 DEF DeleteInv, LocksHold
  <2>7. Fits(c, r)
    <3> HIDE DEF r
    <3> QED
      BY <2>3, <2>4, <2>5, <2>6 DEF Fits
  <2>8. request' = [request EXCEPT ![c] = r]
    BY <1>2 DEF UpdateMember, DeleteInv, MembersTyped
  <2>9. member' = member /\ rows' = rows /\ point' = point
    BY <1>2 DEF UpdateMember
  <2> QED
    BY <2>2, <2>7, <2>8, <2>9, RequestGoesOn DEF IsRequest
<1>3. CASE UpdatePart(c)
  <2>1. IsUpdate(request[c]) /\ request[c].op = "update" /\ request[c].begun /\ request[c].todo # << >>
    BY <1>3, Kinds DEF UpdatePart, DeleteInv, MembersTyped
  <2> DEFINE p == request[c].p
             part == Head(request[c].todo)
             r == [request[c] EXCEPT !.todo = Tail(@)]
             s == [r EXCEPT !.inserted = @ \cup {part}]
  <2>2. part \in PartSet /\ Tail(request[c].todo) \in Seq(PartSet)
    BY <2>1 DEF IsUpdate
  <2>3. IsUpdate(r) /\ r.p = p /\ r.locked = request[c].locked /\ r.begun /\ r.op = "update"
    BY <2>1, <2>2 DEF IsUpdate
  <2>4. IsUpdate(s) /\ s.p = p /\ s.locked = request[c].locked /\ s.begun /\ s.op = "update"
    <3> HIDE DEF r
    <3> QED
      BY <2>2, <2>3 DEF IsUpdate
  <2>5. p \in Ids /\ (Exists(p) \/ Gone(p)) /\ (~request[c].locked => request[c].todo = Parts /\ Gone(p))
    BY <2>1 DEF DeleteInv, LocksHold, IsUpdate
  <2>6. request[c].locked => Exists(p) /\ \A d \in Clients : Holds(d, p) => d = c
    BY <2>1, <2>5 DEF DeleteInv, LocksHold, Holds
  <2>7. member' = member /\ rows' = rows /\ point' = point
    BY <1>3 DEF UpdatePart
  <2>8. CASE rows[p][part] = 0 /\ ~Exists(p) /\ Ends(c)
    BY <2>7, <2>8, RequestEnds
  <2>9. CASE ~(rows[p][part] = 0 /\ ~Exists(p))
    <3>1. request[c].locked
      BY <2>2, <2>5, <2>9 DEF Gone, Exists, MemberStatuses
    <3>2. Fits(c, r) /\ Fits(c, s)
      <4> HIDE DEF r, s
      <4> QED
        BY <2>3, <2>4, <2>6, <3>1 DEF Fits
    <3>3. request' = [request EXCEPT ![c] = r] \/ request' = [request EXCEPT ![c] = s]
      <4>0. DOMAIN request = Clients
        BY DEF DeleteInv, MembersTyped
      <4>1. CASE rows[p][part] > 0 /\ request' = [request EXCEPT ![c].todo = Tail(@)]
        BY <4>0, <4>1
      <4>2. CASE request' = [[request EXCEPT ![c].todo = Tail(@)] EXCEPT ![c].inserted = @ \cup {part}]
        BY <4>0, <4>2
      <4> QED
        BY <1>3, <2>9, <4>1, <4>2 DEF UpdatePart
    <3> HIDE DEF r, s
    <3> QED
      BY <2>3, <2>4, <2>7, <3>2, <3>3, RequestGoesOn DEF IsRequest
  <2>10. rows[p][part] = 0 /\ ~Exists(p) => Ends(c)
    BY <1>3 DEF UpdatePart
  <2> QED
    BY <2>8, <2>9, <2>10
<1> QED
  BY <1>1, <1>2, <1>3

LEMMA PartialKeeps ==
  ASSUME DeleteInv, NEW c \in Clients, BeginPartial(c) \/ UpdateField(c)
  PROVE  DeleteInv'
<1>1. CASE BeginPartial(c)
  <2>1. PICK p \in Ids, fields \in (SUBSET PartSet) \ {{}} :
          /\ Exists(p)
          /\ request' = [request EXCEPT ![c] = [op |-> "partial", p |-> p, fields |-> fields, missing |-> {}]]
    BY <1>1 DEF BeginPartial
  <2> DEFINE r == [op |-> "partial", p |-> p, fields |-> fields, missing |-> {}]
  <2>2. IsRequest(r) /\ Fits(c, r)
    BY <2>1 DEF IsRequest, IsPartial, Fits
  <2>3. member' = member /\ rows' = rows /\ point' = point
    BY <1>1 DEF BeginPartial
  <2> QED
    BY <2>1, <2>2, <2>3, RequestGoesOn
<1>2. CASE UpdateField(c)
  <2>1. IsPartial(request[c]) /\ request[c].op = "partial"
    BY <1>2, Kinds DEF UpdateField, DeleteInv, MembersTyped
  <2>2. PICK part \in request[c].fields :
          \/ request' = [request EXCEPT ![c].missing = {part}]
          \/ Ends(c)
          \/ request' = [request EXCEPT ![c].fields = @ \ {part}]
    BY <1>2 DEF UpdateField
  <2>3. member' = member /\ rows' = rows /\ point' = point
    BY <1>2 DEF UpdateField
  <2>4. Exists(request[c].p) \/ Gone(request[c].p)
    BY <2>1 DEF DeleteInv, LocksHold
  <2> DEFINE r == [request[c] EXCEPT !.missing = {part}]
             s == [request[c] EXCEPT !.fields = @ \ {part}]
  <2>5. IsPartial(r) /\ r.p = request[c].p /\ r.op = "partial"
    BY <2>1 DEF IsPartial
  <2>6. IsPartial(s) /\ s.p = request[c].p /\ s.op = "partial"
    BY <2>1 DEF IsPartial
  <2>7. \/ Ends(c) \/ request' = [request EXCEPT ![c] = r] \/ request' = [request EXCEPT ![c] = s]
    BY <2>2 DEF DeleteInv, MembersTyped
  <2> HIDE DEF r, s
  <2>8. Fits(c, r) /\ Fits(c, s)
    BY <2>4, <2>5, <2>6 DEF Fits
  <2> QED
    BY <2>3, <2>5, <2>6, <2>7, <2>8, RequestGoesOn, RequestEnds DEF IsRequest
<1> QED
  BY <1>1, <1>2

LEMMA DeletionGoesOn ==
  ASSUME DeleteInv, NEW c \in Clients, BeginDelete(c) \/ LockMember(c) \/ CheckMeters(c)
  PROVE  DeleteInv'
<1>1. CASE BeginDelete(c)
  <2>1. PICK p \in Ids :
          request' = [request EXCEPT ![c] = [op |-> "delete", p |-> p, locked |-> FALSE, checked |-> FALSE]]
    BY <1>1 DEF BeginDelete
  <2> DEFINE r == [op |-> "delete", p |-> p, locked |-> FALSE, checked |-> FALSE]
  <2>2. IsRequest(r) /\ Fits(c, r)
    BY DEF IsRequest, IsDelete, Fits
  <2>3. member' = member /\ rows' = rows /\ point' = point
    BY <1>1 DEF BeginDelete
  <2> QED
    BY <2>1, <2>2, <2>3, RequestGoesOn
<1>2. CASE LockMember(c)
  <2>1. IsDelete(request[c]) /\ request[c].op = "delete" /\ ~request[c].locked /\ ~Locked(request[c].p)
    BY <1>2, Kinds DEF LockMember, DeleteInv, MembersTyped
  <2>2. member' = member /\ rows' = rows /\ point' = point
    BY <1>2 DEF LockMember
  <2>3. ~request[c].checked
    BY <2>1 DEF DeleteInv, DeletionsHold
  <2> DEFINE r == [request[c] EXCEPT !.locked = TRUE]
  <2>4. IsDelete(r) /\ r.p = request[c].p /\ r.op = "delete" /\ ~r.checked
    BY <2>1, <2>3 DEF IsDelete
  <2>5. Ends(c) \/ (Exists(request[c].p) /\ request' = [request EXCEPT ![c] = r])
    <3>1. CASE Exists(request[c].p)
      <4>1. request' = [request EXCEPT ![c].locked = TRUE]
        BY <1>2, <3>1 DEF LockMember
      <4> QED
        BY <3>1, <4>1 DEF DeleteInv, MembersTyped
    <3>2. CASE ~Exists(request[c].p)
      BY <1>2, <3>2 DEF LockMember
    <3> QED
      BY <3>1, <3>2
  <2> HIDE DEF r
  <2>6. Exists(request[c].p) => Fits(c, r)
    BY <2>1, <2>4 DEF Fits, Locked
  <2> QED
    BY <2>2, <2>4, <2>5, <2>6, RequestGoesOn, RequestEnds DEF IsRequest
<1>3. CASE CheckMeters(c)
  <2>1. IsDelete(request[c]) /\ request[c].op = "delete" /\ request[c].locked
    BY <1>3, Kinds DEF CheckMeters, DeleteInv, MembersTyped
  <2>2. member' = member /\ rows' = rows /\ point' = point
    BY <1>3 DEF CheckMeters
  <2> DEFINE r == [request[c] EXCEPT !.checked = TRUE]
  <2>3. IsDelete(r) /\ r.p = request[c].p /\ r.op = "delete" /\ r.locked
    BY <2>1 DEF IsDelete
  <2>4. \/ Ends(c)
        \/ /\ \A x \in MetersOf(request[c].p) : point[x].state = "new"
           /\ request' = [request EXCEPT ![c] = r]
    BY <1>3 DEF CheckMeters, DeleteInv, MembersTyped
  <2> HIDE DEF r
  <2>5. Exists(request[c].p) /\ \A d \in Clients : Holds(d, request[c].p) => d = c
    BY <2>1 DEF DeleteInv, LocksHold, Holds, IsDelete
  <2>6. (\A x \in MetersOf(request[c].p) : point[x].state = "new") => Fits(c, r)
    BY <2>3, <2>5 DEF Fits
  <2> QED
    BY <2>2, <2>3, <2>4, <2>6, RequestGoesOn, RequestEnds DEF IsRequest
<1> QED
  BY <1>1, <1>2, <1>3

-----------------------------------------------------------------------------
(* Steps that change the data. *)

\* No metering point that takes part, or is about to, is taken away.
NoneTaken == \A x \in Points : point[x].state \in {"open", "took"} => point'[x].of # {}

LEMMA Untouched ==
  ASSUME DeleteInv, point' = point
  PROVE  NoneTaken /\ PointsStay /\ PointsOwned' /\ point' \in [Points -> Registered]
BY DEF NoneTaken, PointsStay, DeleteInv, PointsOwned, MembersTyped

\* Somebody who is gone, or who never was, is held by nobody.
LEMMA HeldExists ==
  ASSUME DeleteInv, NEW q \in Ids
  PROVE  /\ (\E d \in Clients : Holds(d, q)) => Exists(q)
         /\ MetersLocked(q) => Exists(q) /\ LockedForReferences(q)
<1>1. (\E d \in Clients : Holds(d, q)) => Exists(q)
  BY DEF DeleteInv, LocksHold
<1>2. ASSUME NEW d \in Clients, request[d].op = "delete", request[d].p = q, request[d].checked
      PROVE  Holds(d, q)
  BY <1>2 DEF DeleteInv, DeletionsHold, Holds
<1> QED
  BY <1>1, <1>2 DEF MetersLocked, LockedForReferences

\* Registrations are inserted for a member whose points nobody has locked.
LEMMA InsertionKeeps ==
  ASSUME DeleteInv, NEW p \in Ids, ~MetersLocked(p), NEW new,
         \A x \in DOMAIN new : new[x] \in {"new", "took"},
         \A x \in Points : x \in DOMAIN new => point[x] = Free,
         point' = Inserted(p, new)
  PROVE  NoneTaken /\ PointsStay /\ PointsOwned' /\ point' \in [Points -> Registered]
<1>1. \A x \in Points : /\ x \in DOMAIN new => point'[x] = [of |-> {p}, state |-> new[x]]
                        /\ x \notin DOMAIN new => point'[x] = point[x]
  BY DEF Inserted
<1>2. point' \in [Points -> Registered]
  BY <1>1 DEF Inserted, Registered, DeleteInv, MembersTyped
<1>3. /\ \A x \in Points : x \in DOMAIN new => p \in point'[x].of /\ point'[x].state = new[x]
      /\ \A x \in Points, q \in Ids : x \in DOMAIN new /\ q \in point'[x].of => q = p
  <2> SUFFICES ASSUME NEW x \in Points, x \in DOMAIN new
               PROVE  point'[x].of = {p} /\ point'[x].state = new[x]
    OBVIOUS
  <2>1. point'[x] = [of |-> {p}, state |-> new[x]]
    BY <1>1
  <2> QED
    BY <2>1
<1>4. NoneTaken /\ PointsOwned'
  BY <1>1, <1>3 DEF NoneTaken, PointsOwned, DeleteInv
<1>5. PointsStay
  BY <1>1, <1>3 DEF PointsStay
<1> QED
  BY <1>2, <1>3, <1>4, <1>5

\* A new member changes nobody else.
LEMMA NewMemberKeeps ==
  ASSUME DeleteInv, NEW p \in Ids, NEW status, NEW S \in SUBSET Clients, member[p] = "none",
         member' = [member EXCEPT ![p] = status],
         rows' = [rows EXCEPT ![p] = [part \in PartSet |-> 1]]
  PROVE  /\ DOMAIN member' = Ids /\ member' = [q \in Ids |-> member'[q]]
         /\ rows' \in [Ids -> [PartSet -> Nat]]
         /\ MembersStay(S)
         /\ ~MetersLocked(p)
<1>1. DOMAIN member' = Ids /\ member' = [q \in Ids |-> member'[q]]
  BY DEF DeleteInv, MembersTyped
<1>2. rows' \in [Ids -> [PartSet -> Nat]]
  BY DEF DeleteInv, MembersTyped
<1>3. ~Exists(p) /\ ~Gone(p)
  BY DEF Exists, Gone, MemberStatuses
<1>4. \A q \in Ids \ {p} : (Gone(q) <=> Leaves(q)) /\ (Exists(q) <=> Stays(q))
  BY DEF Gone, Leaves, Exists, Stays, DeleteInv, MembersTyped
<1> QED
  BY <1>1, <1>2, <1>3, <1>4, HeldExists DEF MembersStay

\* The data step as a whole: request is as it was.
LEMMA DataGoesOn ==
  ASSUME DeleteInv, request' = request,
         DOMAIN member' = Ids, member' = [q \in Ids |-> member'[q]],
         rows' \in [Ids -> [PartSet -> Nat]], point' \in [Points -> Registered],
         MembersStay({}), PointsStay, PointsOwned'
  PROVE  DeleteInv'
<1>1. DOMAIN request' = Clients /\ request' = [c \in Clients |-> request'[c]]
  BY DEF DeleteInv, MembersTyped
<1>2. /\ {} \in SUBSET Clients
      /\ \A d \in Clients \ {} : request'[d] = request[d]
      /\ \A d \in {} : IsRequest(request'[d]) /\ Respects(d)
      /\ \A c, d \in {} : c = d
  OBVIOUS
<1> QED
  BY <1>1, <1>2, StepKeeps, Zenon

LEMMA RegisterKeeps ==
  ASSUME DeleteInv, RegisterParticipant
  PROVE  DeleteInv' /\ NoneTaken
<1>1. PICK p \in Ids, X \in SUBSET Points : SaveParticipant(p, "PENDING", [x \in X |-> "new"])
  BY DEF RegisterParticipant
<1> DEFINE new == [x \in X |-> "new"]
<1>2. /\ member[p] = "none" /\ (\A x \in DOMAIN new : point[x] = Free)
      /\ member' = [member EXCEPT ![p] = "PENDING"]
      /\ rows' = [rows EXCEPT ![p] = [part \in PartSet |-> 1]]
      /\ point' = Inserted(p, new)
  BY <1>1 DEF SaveParticipant
<1>3. /\ DOMAIN member' = Ids /\ member' = [q \in Ids |-> member'[q]]
      /\ rows' \in [Ids -> [PartSet -> Nat]] /\ MembersStay({}) /\ ~MetersLocked(p)
  BY <1>2, NewMemberKeeps
<1>4. /\ \A x \in DOMAIN new : new[x] \in {"new", "took"}
      /\ \A x \in Points : x \in DOMAIN new => point[x] = Free
  BY <1>2
<1> HIDE DEF new
<1>5. NoneTaken /\ PointsStay /\ PointsOwned' /\ point' \in [Points -> Registered]
  BY <1>2, <1>3, <1>4, InsertionKeeps
<1>6. request' = request
  BY DEF RegisterParticipant
<1> QED
  BY <1>3, <1>5, <1>6, DataGoesOn

\* The data step with the request of client c.
LEMMA DataAndRequest ==
  ASSUME DeleteInv, NEW c \in Clients, NEW r, IsRequest(r), request' = [request EXCEPT ![c] = r],
         DOMAIN member' = Ids, member' = [q \in Ids |-> member'[q]],
         rows' \in [Ids -> [PartSet -> Nat]], point' \in [Points -> Registered],
         MembersStay({c}), PointsStay, PointsOwned', Respects(c)
  PROVE  DeleteInv'
<1>1. /\ DOMAIN request' = Clients /\ request' = [d \in Clients |-> request'[d]]
      /\ \A d \in Clients \ {c} : request'[d] = request[d]
      /\ request'[c] = r
  BY DEF DeleteInv, MembersTyped
<1> QED
  BY <1>1, StepKeeps, Zenon

LEMMA ImportParticipantKeeps ==
  ASSUME DeleteInv, NEW c \in Clients, ImportParticipant(c)
  PROVE  DeleteInv' /\ NoneTaken
<1> DEFINE person == Importing(c)
           sheet == request[c].sheet
           new == [x \in {sheet[i].point : i \in person.points} |->
                     IF \E i \in person.points : sheet[i].point = x /\ sheet[i].status = "ACTIVE"
                       THEN "took" ELSE "new"]
           over == [request[c] EXCEPT !.todo = @ \ {Min(@)}, !.looked = FALSE, !.found = {},
                                      !.added = @ \cup person.points]
           not == [request[c] EXCEPT !.todo = @ \ {Min(@)}, !.looked = FALSE, !.found = {},
                                     !.failed = @ \cup {person.name}]
<1>1. IsImport(request[c])
  BY Kinds DEF ImportParticipant, DeleteInv, MembersTyped
<1>2. IsImport(over) /\ IsImport(not)
  BY <1>1 DEF IsImport
<1>3. /\ Imported(c, person) => request' = [request EXCEPT ![c] = over]
      /\ ImportFailed(c, person) => request' = [request EXCEPT ![c] = not]
  BY DEF Imported, ImportFailed, DeleteInv, MembersTyped
<1>4. /\ \A x \in DOMAIN new : new[x] \in {"new", "took"}
      /\ MayInsert(sheet, person.points) => \A x \in Points : x \in DOMAIN new => point[x] = Free
  BY DEF MayInsert
<1>5. ASSUME NEW r, IsImport(r), request' = [request EXCEPT ![c] = r]
      PROVE  IsRequest(r) /\ Respects(c)
  BY <1>5 DEF IsImport, IsRequest, Respects, DeleteInv, MembersTyped
<1>6. \/ \E p \in request[c].found :
           /\ Exists(p) /\ ~LockedForReferences(p) /\ MayInsert(sheet, person.points)
           /\ point' = Inserted(p, new) /\ Imported(c, person) /\ UNCHANGED <<member, rows>>
      \/ \E p \in Ids :
           /\ request[c].found = {} /\ NameOf[p] = person.name /\ MayInsert(sheet, person.points)
           /\ SaveParticipant(p, person.status, new) /\ Imported(c, person)
      \/ /\ ImportFailed(c, person) /\ UNCHANGED <<member, rows, point>>
  BY DEF ImportParticipant
<1> HIDE DEF new, over, not
<1>7. ASSUME NEW p \in request[c].found,
             Exists(p), ~LockedForReferences(p), MayInsert(sheet, person.points),
             point' = Inserted(p, new), Imported(c, person), member' = member, rows' = rows
      PROVE  DeleteInv' /\ NoneTaken
  <2>1. p \in Ids /\ ~MetersLocked(p)
    BY <1>1, <1>7, HeldExists DEF IsImport
  <2>2. NoneTaken /\ PointsStay /\ PointsOwned' /\ point' \in [Points -> Registered]
    BY <1>4, <1>7, <2>1, InsertionKeeps
  <2>3. /\ DOMAIN member' = Ids /\ member' = [q \in Ids |-> member'[q]]
        /\ rows' \in [Ids -> [PartSet -> Nat]] /\ MembersStay({c})
    BY <1>7 DEF DeleteInv, MembersTyped, MembersStay, Exists, Gone, Stays, Leaves
  <2> QED
    BY <1>2, <1>3, <1>5, <1>7, <2>2, <2>3, DataAndRequest
<1>8. ASSUME NEW p \in Ids, MayInsert(sheet, person.points),
             SaveParticipant(p, person.status, new), Imported(c, person)
      PROVE  DeleteInv' /\ NoneTaken
  <2>1. /\ DOMAIN member' = Ids /\ member' = [q \in Ids |-> member'[q]]
        /\ rows' \in [Ids -> [PartSet -> Nat]] /\ MembersStay({c}) /\ ~MetersLocked(p)
    BY <1>8, NewMemberKeeps DEF SaveParticipant
  <2>2. NoneTaken /\ PointsStay /\ PointsOwned' /\ point' \in [Points -> Registered]
    BY <1>4, <1>8, <2>1, InsertionKeeps DEF SaveParticipant
  <2> QED
    BY <1>2, <1>3, <1>5, <1>8, <2>1, <2>2, DataAndRequest
<1>9. ASSUME ImportFailed(c, person), member' = member, rows' = rows, point' = point
      PROVE  DeleteInv' /\ NoneTaken
  BY <1>2, <1>3, <1>9, ImportGoesOn, Untouched
<1> QED
  BY <1>6, <1>7, <1>8, <1>9

LEMMA ConfirmKeeps ==
  ASSUME DeleteInv, ConfirmParticipant
  PROVE  DeleteInv' /\ NoneTaken
<1>1. PICK p \in Ids : Exists(p) /\ member' = [member EXCEPT ![p] = "ACTIVE"]
  BY DEF ConfirmParticipant
<1>2. rows' = rows /\ point' = point /\ request' = request
  BY DEF ConfirmParticipant
<1>3. /\ DOMAIN member' = Ids /\ member' = [q \in Ids |-> member'[q]]
      /\ rows' \in [Ids -> [PartSet -> Nat]]
  BY <1>1, <1>2 DEF DeleteInv, MembersTyped
<1>4. MembersStay({})
  BY <1>1, <1>2 DEF MembersStay, DeleteInv, MembersTyped, Exists, Gone, Stays, Leaves, MemberStatuses
<1> QED
  BY <1>2, <1>3, <1>4, Untouched, DataGoesOn

LEMMA PointsMove ==
  ASSUME DeleteInv, AnswerArrives \/ MoveTo
  PROVE  DeleteInv' /\ NoneTaken
<1>1. member' = member /\ rows' = rows /\ request' = request
  BY DEF AnswerArrives, MoveTo
<1>2. PICK x \in Points :
        /\ point[x].of # {} /\ \A p \in point[x].of : ~MetersLocked(p)
        /\ \/ \E state \in {"new", "open", "took"} : point' = [point EXCEPT ![x].state = state]
           \/ \E q \in Ids : ~LockedForReferences(q) /\ point' = [point EXCEPT ![x].of = {q}]
  BY DEF AnswerArrives, MoveTo
<1>3. /\ \A y \in Points \ {x} : point'[y] = point[y]
      /\ point' \in [Points -> Registered]
      /\ point'[x].of # {}
      /\ \A q \in Ids : q \in point'[x].of => ~MetersLocked(q)
  <2>1. CASE \E state \in {"new", "open", "took"} : point' = [point EXCEPT ![x].state = state]
    BY <1>2, <2>1 DEF DeleteInv, MembersTyped, Registered
  <2>2. CASE \E q \in Ids : ~LockedForReferences(q) /\ point' = [point EXCEPT ![x].of = {q}]
    <3>1. PICK q \in Ids : ~LockedForReferences(q) /\ point' = [point EXCEPT ![x].of = {q}]
      BY <2>2
    <3>2. ~MetersLocked(q)
      BY <3>1, HeldExists
    <3> QED
      BY <3>1, <3>2 DEF DeleteInv, MembersTyped, Registered
  <2> QED
    BY <1>2, <2>1, <2>2
<1>4. NoneTaken /\ PointsOwned' /\ PointsStay
  BY <1>3 DEF NoneTaken, PointsOwned, PointsStay, DeleteInv
<1>5. /\ DOMAIN member' = Ids /\ member' = [q \in Ids |-> member'[q]]
      /\ rows' \in [Ids -> [PartSet -> Nat]] /\ MembersStay({})
  BY <1>1 DEF DeleteInv, MembersTyped, MembersStay, Exists, Gone, Stays, Leaves
<1> QED
  BY <1>1, <1>3, <1>4, <1>5, DataGoesOn

LEMMA InsertFieldKeeps ==
  ASSUME DeleteInv, NEW c \in Clients, InsertField(c)
  PROVE  DeleteInv' /\ NoneTaken
<1> DEFINE p == request[c].p
<1>1. IsPartial(request[c]) /\ request[c].op = "partial" /\ p \in Ids /\ request[c].missing \subseteq PartSet
  BY Kinds DEF InsertField, DeleteInv, MembersTyped, IsPartial
<1>2. member' = member /\ point' = point
  BY DEF InsertField
<1>3. PICK part \in request[c].missing :
        IF Exists(p)
          THEN /\ rows' = [rows EXCEPT ![p][part] = @ + 1]
               /\ IF request[c].fields \ {part} = {} THEN Ends(c)
                  ELSE request' = [request EXCEPT ![c].fields = request[c].fields \ {part}, ![c].missing = {}]
          ELSE Ends(c) /\ rows' = rows
  BY DEF InsertField
<1> DEFINE r == [[request[c] EXCEPT !.fields = request[c].fields \ {part}] EXCEPT !.missing = {}]
<1>4. IsPartial(r) /\ r.op = "partial" /\ r.p = p
  BY <1>1 DEF IsPartial
<1>5. Ends(c) \/ (Exists(p) /\ request' = [request EXCEPT ![c] = r])
  BY <1>3 DEF DeleteInv, MembersTyped
<1> HIDE DEF r
<1>6. part \in PartSet /\ rows \in [Ids -> [PartSet -> Nat]]
  BY <1>1 DEF DeleteInv, MembersTyped
<1>7. /\ rows' \in [Ids -> [PartSet -> Nat]]
      /\ \A q \in Ids : q # p => rows'[q] = rows[q]
      /\ ~Exists(p) => rows' = rows
  BY <1>3, <1>6
<1>8. MembersStay({c})
  <2>1. \A q \in Ids : Exists(q) <=> Stays(q)
    BY <1>2 DEF Exists, Stays
  <2>2. \A q \in Ids : Gone(q) => ~Exists(q)
    BY DEF Gone, Exists, MemberStatuses
  <2>3. \A q \in Ids : Gone(q) => Leaves(q)
    BY <1>2, <1>7, <2>2 DEF Gone, Leaves
  <2> QED
    BY <2>1, <2>3 DEF MembersStay
<1>9. NoneTaken /\ PointsStay /\ PointsOwned' /\ point' \in [Points -> Registered]
  BY <1>2, Untouched
<1>10. DOMAIN member' = Ids /\ member' = [q \in Ids |-> member'[q]]
  BY <1>2 DEF DeleteInv, MembersTyped
<1>11. CASE Ends(c)
  <2>1. request' = [request EXCEPT ![c] = Idle] /\ IsRequest(Idle) /\ Respects(c)
    BY <1>11 DEF Ends, IsRequest, Respects, Idle, DeleteInv, MembersTyped
  <2> QED
    BY <1>7, <1>8, <1>9, <1>10, <2>1, DataAndRequest
<1>12. CASE Exists(p) /\ request' = [request EXCEPT ![c] = r]
  <2>1. request'[c] = r /\ Stays(p)
    BY <1>2, <1>12 DEF DeleteInv, MembersTyped, Exists, Stays
  <2>2. Respects(c)
    BY <1>4, <2>1 DEF Respects
  <2> QED
    BY <1>4, <1>7, <1>8, <1>9, <1>10, <1>12, <2>2, DataAndRequest DEF IsRequest
<1> QED
  BY <1>5, <1>11, <1>12

\* The end of a request owes nothing any more.
LEMMA EndsWell ==
  ASSUME DeleteInv, NEW c \in Clients, Ends(c)
  PROVE  request' = [request EXCEPT ![c] = Idle] /\ IsRequest(Idle) /\ Respects(c)
BY DEF Ends, IsRequest, Respects, Idle, DeleteInv, MembersTyped

LEMMA CommitUpdateKeeps ==
  ASSUME DeleteInv, NEW c \in Clients, CommitUpdate(c)
  PROVE  DeleteInv' /\ NoneTaken
<1> DEFINE p == request[c].p
<1>1. /\ IsUpdate(request[c]) /\ request[c].op = "update" /\ request[c].begun /\ request[c].todo = << >>
      /\ p \in Ids /\ request[c].status \in MemberStatuses
  BY Kinds, FormAssumption DEF CommitUpdate, DeleteInv, MembersTyped, IsUpdate
<1>2. request[c].locked /\ Exists(p)
  BY <1>1, PartsAssumption DEF DeleteInv, LocksHold, Holds
<1>3. /\ member' = [member EXCEPT ![p] = request[c].status]
      /\ rows' = [rows EXCEPT ![p] = [part \in PartSet |->
                    rows[p][part] + (IF part \in request[c].inserted THEN 1 ELSE 0)]]
      /\ Ends(c) /\ point' = point
  BY DEF CommitUpdate
<1>4. /\ DOMAIN member' = Ids /\ member' = [q \in Ids |-> member'[q]]
      /\ rows' \in [Ids -> [PartSet -> Nat]]
  <2> DEFINE f == [part \in PartSet |-> rows[p][part] + (IF part \in request[c].inserted THEN 1 ELSE 0)]
  <2>1. rows \in [Ids -> [PartSet -> Nat]]
    BY DEF DeleteInv, MembersTyped
  <2>2. f \in [PartSet -> Nat]
    BY <1>1, <2>1
  <2>3. rows' = [rows EXCEPT ![p] = f]
    BY <1>3
  <2> HIDE DEF f
  <2>4. rows' \in [Ids -> [PartSet -> Nat]]
    BY <2>1, <2>2, <2>3
  <2> QED
    BY <1>1, <1>3, <2>4 DEF DeleteInv, MembersTyped
<1>5. /\ \A q \in Ids : q # p => member'[q] = member[q] /\ rows'[q] = rows[q]
      /\ member'[p] \in MemberStatuses
  BY <1>1, <1>3 DEF DeleteInv, MembersTyped
<1>6. MembersStay({c})
  BY <1>2, <1>5 DEF MembersStay, Exists, Gone, Stays, Leaves, MemberStatuses
<1> QED
  BY <1>3, <1>4, <1>6, EndsWell, Untouched, DataAndRequest

LEMMA CommitDeleteKeeps ==
  ASSUME DeleteInv, NEW c \in Clients, CommitDelete(c)
  PROVE  DeleteInv' /\ NoneTaken
<1> DEFINE p == request[c].p
<1>1. IsDelete(request[c]) /\ request[c].op = "delete" /\ request[c].checked /\ p \in Ids
  BY Kinds DEF CommitDelete, DeleteInv, MembersTyped, IsDelete
<1>2. /\ request[c].locked /\ \A x \in MetersOf(p) : point[x].state = "new"
      /\ Exists(p) /\ \A d \in Clients : Holds(d, p) => d = c
  BY <1>1 DEF DeleteInv, DeletionsHold, LocksHold, Holds
<1>3. /\ member' = [member EXCEPT ![p] = "gone"]
      /\ rows' = [rows EXCEPT ![p] = [part \in PartSet |-> 0]]
      /\ point' = [x \in Points |-> IF p \in point[x].of THEN Free ELSE point[x]]
      /\ Ends(c)
  BY DEF CommitDelete
<1>4. /\ DOMAIN member' = Ids /\ member' = [q \in Ids |-> member'[q]]
      /\ rows' \in [Ids -> [PartSet -> Nat]]
  BY <1>1, <1>3 DEF DeleteInv, MembersTyped
<1>5. /\ \A q \in Ids : q # p => member'[q] = member[q] /\ rows'[q] = rows[q]
      /\ Leaves(p)
  <2>1. /\ member'[p] = "gone" /\ rows'[p] = [part \in PartSet |-> 0]
        /\ \A q \in Ids : q # p => member'[q] = member[q] /\ rows'[q] = rows[q]
    BY <1>1, <1>3 DEF DeleteInv, MembersTyped
  <2> QED
    BY <2>1 DEF Leaves
<1>6. MembersStay({c})
  BY <1>2, <1>5 DEF MembersStay, Exists, Gone, Stays, Leaves
<1>7. \A x \in Points : /\ p \in point[x].of => point'[x] = Free
                        /\ p \notin point[x].of => point'[x] = point[x]
  BY <1>3
<1>8. Free \in Registered /\ Free.of = {} /\ Free.state = "none"
  BY DEF Free, Registered
<1>9. point' \in [Points -> Registered]
  BY <1>3, <1>8 DEF DeleteInv, MembersTyped
<1>10. NoneTaken
  BY <1>2, <1>7 DEF NoneTaken, DeleteInv, PointsOwned, MetersOf
<1>11. PointsStay /\ PointsOwned'
  BY <1>7, <1>8 DEF PointsStay, PointsOwned, DeleteInv
<1> QED
  BY <1>3, <1>4, <1>6, <1>9, <1>10, <1>11, EndsWell, DataAndRequest

-----------------------------------------------------------------------------
LEMMA DeleteStep == DeleteInv /\ [MembersNext]_membersVars => DeleteInv' /\ NoneTaken
<1> SUFFICES ASSUME DeleteInv, [MembersNext]_membersVars PROVE DeleteInv' /\ NoneTaken
  OBVIOUS
<1>1. CASE RegisterParticipant \/ ConfirmParticipant \/ AnswerArrives \/ MoveTo
  BY <1>1, RegisterKeeps, ConfirmKeeps, PointsMove
<1>2. ASSUME NEW c \in Clients, BeginImport(c) \/ LookForName(c) \/ EndImport(c)
      PROVE  DeleteInv' /\ NoneTaken
  <2>1. point' = point
    BY <1>2 DEF BeginImport, LookForName, EndImport
  <2> QED
    BY <1>2, <2>1, ImportKeeps, Untouched
<1>3. ASSUME NEW c \in Clients, BeginUpdate(c) \/ UpdateMember(c) \/ UpdatePart(c)
      PROVE  DeleteInv' /\ NoneTaken
  <2>1. point' = point
    BY <1>3 DEF BeginUpdate, UpdateMember, UpdatePart
  <2> QED
    BY <1>3, <2>1, UpdateKeeps, Untouched
<1>4. ASSUME NEW c \in Clients, BeginPartial(c) \/ UpdateField(c)
      PROVE  DeleteInv' /\ NoneTaken
  <2>1. point' = point
    BY <1>4 DEF BeginPartial, UpdateField
  <2> QED
    BY <1>4, <2>1, PartialKeeps, Untouched
<1>5. ASSUME NEW c \in Clients, BeginDelete(c) \/ LockMember(c) \/ CheckMeters(c)
      PROVE  DeleteInv' /\ NoneTaken
  <2>1. point' = point
    BY <1>5 DEF BeginDelete, LockMember, CheckMeters
  <2> QED
    BY <1>5, <2>1, DeletionGoesOn, Untouched
<1>6. ASSUME NEW c \in Clients,
             ImportParticipant(c) \/ InsertField(c) \/ CommitUpdate(c) \/ CommitDelete(c)
      PROVE  DeleteInv' /\ NoneTaken
  BY <1>6, ImportParticipantKeeps, InsertFieldKeeps, CommitUpdateKeeps, CommitDeleteKeeps
<1>7. CASE UNCHANGED membersVars
  <2>1. /\ request' = request /\ member' = member /\ rows' = rows /\ point' = point
    BY <1>7 DEF membersVars
  <2>2. MembersStay({})
    BY <2>1 DEF MembersStay, Exists, Gone, Stays, Leaves
  <2>3. /\ DOMAIN member' = Ids /\ member' = [q \in Ids |-> member'[q]]
        /\ rows' \in [Ids -> [PartSet -> Nat]]
    BY <2>1 DEF DeleteInv, MembersTyped
  <2> QED
    BY <2>1, <2>2, <2>3, Untouched, DataGoesOn
<1> QED
  BY <1>1, <1>2, <1>3, <1>4, <1>5, <1>6, <1>7 DEF MembersNext

\* Nobody deletes, together with a member, a metering point that takes part or
\* whose registration is open (deleteParticipant), whatever the grid operator
\* answers and whoever moves or imports metering points meanwhile: the row of
\* the member is locked before his metering points are looked at.
THEOREM DeletionSpares == MembersSpec => NoParticipationDeleted
<1>1. DeleteInv /\ [MembersNext]_membersVars =>
        [\A x \in Points : point[x].state \in {"open", "took"} => point'[x].of # {}]_membersVars
  BY DeleteStep DEF NoneTaken
<1>2. DeleteInv /\ [MembersNext]_membersVars => DeleteInv'
  BY DeleteStep
<1> QED
  BY <1>1, <1>2, DeleteInitially, PTL DEF MembersSpec, NoParticipationDeleted

\* Locks are exclusive, and what a deletion has looked at stays as it saw it
\* until it commits; what one lock holds another request neither updates nor
\* deletes.
THEOREM LocksApart == MembersSpec => [](LocksHold /\ DeletionsHold)
<1>1. DeleteInv /\ [MembersNext]_membersVars => DeleteInv'
  BY DeleteStep
<1>2. DeleteInv => LocksHold /\ DeletionsHold
  BY DEF DeleteInv
<1> QED
  BY <1>1, <1>2, DeleteInitially, PTL DEF MembersSpec

-----------------------------------------------------------------------------
(* How often a member is listed. *)

\* A part is there once, or an update of a single field has doubled it; and a
\* member this version saved has all parts.
PartsOnce ==
  /\ \A p \in Ids, part \in PartSet : rows[p][part] <= 1 \/ <<p, part>> \in byPath
  /\ \A p \in Ids \ Legacy : Exists(p) => \A part \in PartSet : rows[p][part] = 1

\* What a request is about to insert is still missing, or an update of a single
\* field was quicker.
InsertsMissing(c) == LET r == request[c] IN
  /\ r.op = "update" /\ r.inserted # {} =>
       /\ r.locked /\ r.p \in Legacy
       /\ \A part \in r.inserted : rows[r.p][part] = 0 \/ <<r.p, part>> \in byPath
  /\ r.op = "partial" /\ r.missing # {} /\ Exists(r.p) => r.p \in Legacy

ListInv == DeleteInv /\ PartsOnce /\ \A c \in Clients : InsertsMissing(c)

LEMMA ListInitially == MembersInit => ListInv
<1> SUFFICES ASSUME MembersInit PROVE ListInv
  OBVIOUS
<1>1. rows \in [Ids -> [PartSet -> {0, 1}]] /\ \A p \in Ids \ Legacy : member[p] = "none"
  BY DEF MembersInit
<1>2. PartsOnce
  BY <1>1 DEF PartsOnce, Exists, MemberStatuses
<1>3. \A c \in Clients : request[c] = Idle /\ request[c].op = "idle"
  BY DEF MembersInit, Idle
<1>4. \A c \in Clients : InsertsMissing(c)
  BY <1>3 DEF InsertsMissing
<1> QED
  BY <1>2, <1>4, DeleteInitially DEF ListInv

\* A request that changes no data goes on: it inserts nothing yet, or what it
\* is to insert is missing.
LEMMA RequestInserts ==
  ASSUME ListInv, DeleteInv', NEW c \in Clients, UNCHANGED <<member, rows, byPath>>,
         \A d \in Clients \ {c} : request'[d] = request[d],
         InsertsMissing(c)'
  PROVE  ListInv'
<1>1. PartsOnce'
  BY DEF ListInv, PartsOnce, Exists
<1>2. \A d \in Clients \ {c} : InsertsMissing(d)'
  BY DEF ListInv, InsertsMissing, Exists
<1> QED
  BY <1>1, <1>2 DEF ListInv

\* The data of member p change, the requests in S go on: the others that are
\* to insert a part of his find it so.
LEMMA DataInserts ==
  ASSUME ListInv, DeleteInv', NEW S \in SUBSET Clients, NEW p \in Ids,
         \A d \in Clients \ S : request'[d] = request[d],
         \A q \in Ids \ {p} : member'[q] = member[q] /\ rows'[q] = rows[q],
         byPath \subseteq byPath',
         \A part \in PartSet : rows'[p][part] <= 1 \/ <<p, part>> \in byPath',
         member'[p] \in MemberStatuses /\ p \notin Legacy => \A part \in PartSet : rows'[p][part] = 1,
         \A d \in Clients \ S : request[d].op = "update" /\ request[d].inserted # {} /\ request[d].p = p =>
            \A part \in PartSet : rows'[p][part] = rows[p][part] \/ <<p, part>> \in byPath',
         Gone(p) => member'[p] \notin MemberStatuses,
         \A c \in S : InsertsMissing(c)'
  PROVE  ListInv'
<1>1. PartsOnce'
  <2>1. \A q \in Ids, part \in PartSet : rows'[q][part] <= 1 \/ <<q, part>> \in byPath'
    BY DEF ListInv, PartsOnce
  <2>2. \A q \in Ids \ Legacy : Exists(q)' => \A part \in PartSet : rows'[q][part] = 1
    BY DEF ListInv, PartsOnce, Exists
  <2> QED
    BY <2>1, <2>2 DEF PartsOnce
<1>2. ASSUME NEW d \in Clients \ S
      PROVE  InsertsMissing(d)'
  <2>1. request'[d] = request[d] /\ IsRequest(request[d]) /\ InsertsMissing(d)
    BY DEF ListInv, DeleteInv, MembersTyped
  <2>2. ASSUME request[d].op = "update", request[d].inserted # {}
        PROVE  /\ request[d].locked /\ request[d].p \in Legacy
               /\ \A part \in request[d].inserted : rows'[request[d].p][part] = 0 \/ <<request[d].p, part>> \in byPath'
    <3>1. /\ request[d].locked /\ request[d].p \in Legacy /\ request[d].p \in Ids
          /\ request[d].inserted \subseteq PartSet
          /\ \A part \in request[d].inserted : rows[request[d].p][part] = 0 \/ <<request[d].p, part>> \in byPath
      BY <2>1, <2>2, Kinds DEF InsertsMissing, IsUpdate
    <3>2. CASE request[d].p # p
      BY <3>1, <3>2
    <3>3. CASE request[d].p = p
      BY <2>2, <3>1, <3>3
    <3> QED
      BY <3>1, <3>2, <3>3
  <2>3. ASSUME request[d].op = "partial", request[d].missing # {}, Exists(request[d].p)'
        PROVE  request[d].p \in Legacy
    <3>1. request[d].p \in Ids /\ (Exists(request[d].p) \/ Gone(request[d].p))
      BY <2>1, <2>3, Kinds DEF IsPartial, ListInv, DeleteInv, LocksHold
    <3>2. Exists(request[d].p)
      BY <2>3, <3>1 DEF Exists, Gone, MemberStatuses
    <3> QED
      BY <2>1, <2>3, <3>2 DEF InsertsMissing
  <2> QED
    BY <2>1, <2>2, <2>3 DEF InsertsMissing
<1> QED
  BY <1>1, <1>2 DEF ListInv

\* A request that ends, or is neither an update nor about single fields, is to
\* insert nothing.
LEMMA InsertsNothing ==
  ASSUME ListInv, NEW c \in Clients, NEW r, request' = [request EXCEPT ![c] = r],
         r.op \notin {"update", "partial"} \/ (r.op = "update" /\ r.inserted = {}) \/ (r.op = "partial" /\ r.missing = {})
  PROVE  InsertsMissing(c)' /\ \A d \in Clients \ {c} : request'[d] = request[d]
BY DEF InsertsMissing, ListInv, DeleteInv, MembersTyped

LEMMA UpdateInserts ==
  ASSUME ListInv, DeleteInv', NEW c \in Clients, BeginUpdate(c) \/ UpdateMember(c) \/ UpdatePart(c)
  PROVE  ListInv'
<1>0. UNCHANGED <<member, rows, byPath>>
  BY DEF BeginUpdate, UpdateMember, UpdatePart
<1>1. /\ \A d \in Clients \ {c} : request'[d] = request[d]
      /\ DOMAIN request = Clients
  BY DEF BeginUpdate, UpdateMember, UpdatePart, Ends, ListInv, DeleteInv, MembersTyped
<1>2. CASE BeginUpdate(c)
  <2>1. request'[c].op = "update" /\ request'[c].inserted = {}
    BY <1>1, <1>2 DEF BeginUpdate
  <2>2. InsertsMissing(c)'
    BY <2>1 DEF InsertsMissing
  <2> QED
    BY <1>0, <1>1, <2>2, RequestInserts
<1>3. CASE UpdateMember(c)
  <2>1. IsUpdate(request[c]) /\ request[c].op = "update" /\ ~request[c].begun
    BY <1>3, Kinds DEF UpdateMember, ListInv, DeleteInv, MembersTyped
  <2>2. request[c].inserted = {}
    BY <2>1 DEF ListInv, InsertsMissing, DeleteInv, LocksHold
  <2>3. request'[c] = [[request[c] EXCEPT !.begun = TRUE] EXCEPT !.locked = Exists(request[c].p)]
    BY <1>1, <1>3 DEF UpdateMember
  <2>4. request'[c].op = "update" /\ request'[c].inserted = {}
    BY <2>1, <2>2, <2>3 DEF IsUpdate
  <2>5. InsertsMissing(c)'
    BY <2>4 DEF InsertsMissing
  <2> QED
    BY <1>0, <1>1, <2>5, RequestInserts
<1>4. CASE UpdatePart(c)
  <2> DEFINE p == request[c].p
             part == Head(request[c].todo)
  <2>1. /\ IsUpdate(request[c]) /\ request[c].op = "update" /\ request[c].begun
        /\ part \in PartSet /\ p \in Ids /\ InsertsMissing(c)
    BY <1>4, Kinds DEF UpdatePart, ListInv, DeleteInv, MembersTyped, IsUpdate
  <2>2. CASE Ends(c)
    <3>1. request'[c].op = "idle"
      BY <1>1, <2>2 DEF Ends, Idle
    <3>2. InsertsMissing(c)'
      BY <3>1 DEF InsertsMissing
    <3> QED
      BY <1>0, <1>1, <3>2, RequestInserts
  <2>3. CASE request' = [request EXCEPT ![c].todo = Tail(@)]
    <3>1. request'[c] = [request[c] EXCEPT !.todo = Tail(@)]
      BY <1>1, <2>3
    <3>2. /\ request'[c].op = "update" /\ request'[c].p = p /\ request'[c].locked = request[c].locked
          /\ request'[c].inserted = request[c].inserted
      BY <2>1, <3>1 DEF IsUpdate
    <3>3. InsertsMissing(c)'
      BY <1>0, <2>1, <3>2 DEF InsertsMissing
    <3> QED
      BY <1>0, <1>1, <3>3, RequestInserts
  <2>4. CASE /\ rows[p][part] = 0 /\ Exists(p)
             /\ request' = [[request EXCEPT ![c].todo = Tail(@)] EXCEPT ![c].inserted = @ \cup {part}]
    <3>1. request'[c] = [[request[c] EXCEPT !.todo = Tail(@)] EXCEPT !.inserted = @ \cup {part}]
      BY <1>1, <2>4
    <3>2. /\ request'[c].op = "update" /\ request'[c].p = p /\ request'[c].locked = request[c].locked
          /\ request'[c].inserted = request[c].inserted \cup {part}
      BY <2>1, <3>1 DEF IsUpdate
    <3>3. p \in Legacy
      BY <2>1, <2>4 DEF ListInv, PartsOnce
    <3>4. request[c].locked
      BY <2>1, <2>4 DEF ListInv, DeleteInv, LocksHold, Gone, Exists, MemberStatuses, IsUpdate
    <3>5. InsertsMissing(c)'
      <4>1. \A x \in request[c].inserted \cup {part} : rows[p][x] = 0 \/ <<p, x>> \in byPath
        BY <2>1, <2>4 DEF InsertsMissing
      <4> HIDE DEF p, part
      <4> QED
        BY <1>0, <3>2, <3>3, <3>4, <4>1 DEF InsertsMissing
    <3> QED
      BY <1>0, <1>1, <3>5, RequestInserts
  <2> QED
    BY <1>4, <2>2, <2>3, <2>4 DEF UpdatePart
<1> QED
  BY <1>2, <1>3, <1>4

LEMMA FieldInserts ==
  ASSUME ListInv, DeleteInv', NEW c \in Clients, BeginPartial(c) \/ UpdateField(c)
  PROVE  ListInv'
<1>0. UNCHANGED <<member, rows, byPath>>
  BY DEF BeginPartial, UpdateField
<1>1. DOMAIN request = Clients
  BY DEF ListInv, DeleteInv, MembersTyped
<1>2. CASE BeginPartial(c)
  <2>1. request'[c].op = "partial" /\ request'[c].missing = {} /\ \A d \in Clients \ {c} : request'[d] = request[d]
    BY <1>1, <1>2 DEF BeginPartial
  <2>2. InsertsMissing(c)'
    BY <2>1 DEF InsertsMissing
  <2> QED
    BY <1>0, <2>1, <2>2, RequestInserts
<1>3. CASE UpdateField(c)
  <2>1. IsPartial(request[c]) /\ request[c].op = "partial" /\ request[c].missing = {} /\ request[c].p \in Ids
    BY <1>3, Kinds DEF UpdateField, ListInv, DeleteInv, MembersTyped, IsPartial
  <2>2. PICK part \in request[c].fields :
          IF rows[request[c].p][part] = 0
            THEN request' = [request EXCEPT ![c].missing = {part}]
            ELSE Ends(c) \/ request' = [request EXCEPT ![c].fields = @ \ {part}]
    BY <1>3 DEF UpdateField
  <2>3. \A d \in Clients \ {c} : request'[d] = request[d]
    BY <1>1, <2>2 DEF Ends
  <2>4. InsertsMissing(c)'
    <3>1. CASE rows[request[c].p][part] = 0
      <4>1. request'[c] = [request[c] EXCEPT !.missing = {part}]
        BY <1>1, <2>2, <3>1
      <4>2. request'[c].op = "partial" /\ request'[c].p = request[c].p
        BY <2>1, <4>1 DEF IsPartial
      <4>3. Exists(request[c].p) => request[c].p \in Legacy
        BY <2>1, <2>2, <3>1 DEF ListInv, PartsOnce, IsPartial
      <4> QED
        BY <1>0, <4>2, <4>3 DEF InsertsMissing, Exists
    <3>2. CASE Ends(c)
      BY <1>1, <3>2 DEF Ends, Idle, InsertsMissing
    <3>3. CASE request' = [request EXCEPT ![c].fields = @ \ {part}]
      <4>1. request'[c] = [request[c] EXCEPT !.fields = @ \ {part}]
        BY <1>1, <3>3
      <4>2. request'[c].op = "partial" /\ request'[c].missing = {}
        BY <2>1, <4>1 DEF IsPartial
      <4> QED
        BY <4>2 DEF InsertsMissing
    <3> QED
      BY <2>2, <3>1, <3>2, <3>3
  <2> QED
    BY <1>0, <2>3, <2>4, RequestInserts
<1> QED
  BY <1>2, <1>3

\* An update of a single field may double a part, and says so in byPath.
LEMMA InsertFieldInserts ==
  ASSUME ListInv, DeleteInv', NEW c \in Clients, InsertField(c)
  PROVE  ListInv'
<1> DEFINE p == request[c].p
<1>1. /\ IsPartial(request[c]) /\ request[c].op = "partial" /\ p \in Ids /\ request[c].missing \subseteq PartSet
      /\ DOMAIN request = Clients /\ request[c].missing # {}
  BY Kinds DEF InsertField, ListInv, DeleteInv, MembersTyped, IsPartial
<1>2. PICK part \in request[c].missing :
        IF Exists(p)
          THEN /\ rows' = [rows EXCEPT ![p][part] = @ + 1]
               /\ byPath' = byPath \cup {<<p, part>>}
               /\ IF request[c].fields \ {part} = {} THEN Ends(c)
                  ELSE request' = [request EXCEPT ![c].fields = request[c].fields \ {part}, ![c].missing = {}]
          ELSE Ends(c) /\ UNCHANGED <<rows, byPath>>
  BY DEF InsertField
<1>3. member' = member /\ part \in PartSet /\ rows \in [Ids -> [PartSet -> Nat]]
  BY <1>1 DEF InsertField, ListInv, DeleteInv, MembersTyped
<1>4. \A d \in Clients \ {c} : request'[d] = request[d]
  BY <1>1, <1>2 DEF Ends
<1>5. InsertsMissing(c)'
  <2>1. CASE Ends(c)
    BY <1>1, <2>1 DEF Ends, Idle, InsertsMissing
  <2>2. CASE request' = [request EXCEPT ![c].fields = request[c].fields \ {part}, ![c].missing = {}]
    <3>1. request'[c] = [[request[c] EXCEPT !.fields = request[c].fields \ {part}] EXCEPT !.missing = {}]
      BY <1>1, <2>2
    <3>2. request'[c].op = "partial" /\ request'[c].missing = {}
      BY <1>1, <3>1 DEF IsPartial
    <3> QED
      BY <3>2 DEF InsertsMissing
  <2> QED
    BY <1>2, <2>1, <2>2
<1>6. CASE ~Exists(p)
  <2>1. UNCHANGED <<member, rows, byPath>>
    BY <1>2, <1>3, <1>6
  <2> QED
    BY <1>4, <1>5, <2>1, RequestInserts
<1>7. CASE Exists(p)
  <2>1. /\ \A q \in Ids \ {p} : rows'[q] = rows[q]
        /\ \A x \in PartSet : rows'[p][x] = IF x = part THEN rows[p][x] + 1 ELSE rows[p][x]
        /\ byPath' = byPath \cup {<<p, part>>}
    BY <1>1, <1>2, <1>3, <1>7
  <2>2. p \in Legacy
    BY <1>1, <1>7 DEF ListInv, InsertsMissing
  <2>3. ~Gone(p)
    BY <1>7 DEF Gone, Exists, MemberStatuses
  <2>4. \A x \in PartSet : /\ rows'[p][x] <= 1 \/ <<p, x>> \in byPath'
                           /\ rows'[p][x] = rows[p][x] \/ <<p, x>> \in byPath'
    BY <1>1, <2>1 DEF ListInv, PartsOnce
  <2> DEFINE S == {c}
  <2>5. /\ S \in SUBSET Clients /\ \A d \in Clients \ S : request'[d] = request[d]
        /\ \A d \in S : InsertsMissing(d)'
    BY <1>4, <1>5
  <2> HIDE DEF S, p
  <2> QED
    BY <1>1, <1>3, <2>1, <2>2, <2>3, <2>4, <2>5, DataInserts
<1> QED
  BY <1>6, <1>7

\* A new member has every part once.
LEMMA NewMemberListed ==
  ASSUME ListInv, DeleteInv', NEW S \in SUBSET Clients, NEW p \in Ids, NEW status,
         member[p] = "none", UNCHANGED byPath,
         member' = [member EXCEPT ![p] = status],
         rows' = [rows EXCEPT ![p] = [part \in PartSet |-> 1]],
         \A d \in Clients \ S : request'[d] = request[d],
         \A d \in S : InsertsMissing(d)'
  PROVE  ListInv'
<1>1. /\ rows \in [Ids -> [PartSet -> Nat]] /\ member = [q \in Ids |-> member[q]]
      /\ \A d \in Clients : IsRequest(request[d])
  BY DEF ListInv, DeleteInv, MembersTyped
<1>2. /\ \A q \in Ids \ {p} : member'[q] = member[q] /\ rows'[q] = rows[q]
      /\ \A part \in PartSet : rows'[p][part] = 1
  BY <1>1
<1>3. ~Exists(p) /\ ~Gone(p)
  BY DEF Exists, Gone, MemberStatuses
<1>4. \A d \in Clients : request[d].op = "update" /\ request[d].inserted # {} => request[d].p # p
  <2>1. \A d \in Clients : request[d].op = "update" /\ request[d].inserted # {} => Holds(d, request[d].p) /\ request[d].p \in Ids
    BY <1>1, Kinds DEF ListInv, InsertsMissing, Holds, IsUpdate
  <2> QED
    BY <1>3, <2>1 DEF ListInv, DeleteInv, LocksHold
<1> QED
  BY <1>2, <1>3, <1>4, DataInserts

LEMMA CommitUpdateInserts ==
  ASSUME ListInv, DeleteInv', NEW c \in Clients, CommitUpdate(c)
  PROVE  ListInv'
<1> DEFINE p == request[c].p
           r == request[c]
<1>1. /\ IsUpdate(r) /\ r.op = "update" /\ r.todo = << >> /\ p \in Ids /\ r.inserted \subseteq PartSet
      /\ DOMAIN request = Clients /\ rows \in [Ids -> [PartSet -> Nat]] /\ member = [q \in Ids |-> member[q]]
  BY Kinds DEF CommitUpdate, ListInv, DeleteInv, MembersTyped, IsUpdate
<1>2. r.locked /\ Exists(p) /\ \A d \in Clients : Holds(d, p) => d = c
  BY <1>1, PartsAssumption DEF ListInv, DeleteInv, LocksHold, Holds
<1>3. /\ member' = [member EXCEPT ![p] = r.status]
      /\ rows' = [rows EXCEPT ![p] = [part \in PartSet |->
                    rows[p][part] + (IF part \in r.inserted THEN 1 ELSE 0)]]
      /\ request' = [request EXCEPT ![c] = Idle] /\ UNCHANGED byPath
  BY DEF CommitUpdate, Ends
<1>4. /\ \A q \in Ids \ {p} : member'[q] = member[q] /\ rows'[q] = rows[q]
      /\ \A part \in PartSet : rows'[p][part] = rows[p][part] + (IF part \in r.inserted THEN 1 ELSE 0)
  BY <1>1, <1>3
<1>5. /\ \A part \in r.inserted : rows[p][part] = 0 \/ <<p, part>> \in byPath
      /\ r.inserted # {} => p \in Legacy
  BY <1>1 DEF ListInv, InsertsMissing
<1>6. \A part \in PartSet : rows'[p][part] <= 1 \/ <<p, part>> \in byPath'
  BY <1>1, <1>3, <1>4, <1>5 DEF ListInv, PartsOnce
<1>7. p \notin Legacy => \A part \in PartSet : rows'[p][part] = 1
  <2> SUFFICES ASSUME p \notin Legacy, NEW part \in PartSet PROVE rows'[p][part] = 1
    OBVIOUS
  <2>1. rows[p][part] = 1
    BY <1>1, <1>2 DEF ListInv, PartsOnce
  <2> QED
    BY <1>4, <1>5, <2>1
<1>8. \A d \in Clients \ {c} : request[d].op = "update" /\ request[d].inserted # {} => request[d].p # p
  BY <1>2 DEF ListInv, InsertsMissing, Holds
<1>9. ~Gone(p)
  BY <1>2 DEF Gone, Exists, MemberStatuses
<1> DEFINE S == {c}
<1>10. /\ S \in SUBSET Clients /\ \A d \in Clients \ S : request'[d] = request[d]
       /\ \A d \in S : InsertsMissing(d)'
  BY <1>1, <1>3 DEF Idle, InsertsMissing
<1>11. \A d \in Clients \ S : request[d].op = "update" /\ request[d].inserted # {} /\ request[d].p = p =>
          \A part \in PartSet : rows'[p][part] = rows[p][part] \/ <<p, part>> \in byPath'
  BY <1>8
<1> HIDE DEF S, p
<1> QED
  BY <1>1, <1>3, <1>4, <1>6, <1>7, <1>9, <1>10, <1>11, DataInserts

LEMMA CommitDeleteInserts ==
  ASSUME ListInv, DeleteInv', NEW c \in Clients, CommitDelete(c)
  PROVE  ListInv'
<1> DEFINE p == request[c].p
<1>1. /\ IsDelete(request[c]) /\ request[c].op = "delete" /\ request[c].checked /\ p \in Ids
      /\ DOMAIN request = Clients /\ rows \in [Ids -> [PartSet -> Nat]] /\ member = [q \in Ids |-> member[q]]
  BY Kinds DEF CommitDelete, ListInv, DeleteInv, MembersTyped, IsDelete
<1>2. Exists(p) /\ \A d \in Clients : Holds(d, p) => d = c
  BY <1>1 DEF ListInv, DeleteInv, DeletionsHold, LocksHold, Holds
<1>3. /\ member' = [member EXCEPT ![p] = "gone"]
      /\ rows' = [rows EXCEPT ![p] = [part \in PartSet |-> 0]]
      /\ request' = [request EXCEPT ![c] = Idle] /\ UNCHANGED byPath
  BY DEF CommitDelete, Ends
<1>4. /\ \A q \in Ids \ {p} : member'[q] = member[q] /\ rows'[q] = rows[q]
      /\ \A part \in PartSet : rows'[p][part] = 0
      /\ member'[p] \notin MemberStatuses
  <2>1. member'[p] = "gone" /\ rows'[p] = [part \in PartSet |-> 0]
    BY <1>1, <1>3
  <2>2. \A q \in Ids \ {p} : member'[q] = member[q] /\ rows'[q] = rows[q]
    BY <1>1, <1>3
  <2> QED
    BY <2>1, <2>2 DEF MemberStatuses
<1>5. \A d \in Clients \ {c} : request[d].op = "update" /\ request[d].inserted # {} => request[d].p # p
  BY <1>2 DEF ListInv, InsertsMissing, Holds
<1> DEFINE S == {c}
<1>6. /\ S \in SUBSET Clients /\ \A d \in Clients \ S : request'[d] = request[d]
      /\ \A d \in S : InsertsMissing(d)'
  BY <1>1, <1>3 DEF Idle, InsertsMissing
<1>7. \A d \in Clients \ S : request[d].op = "update" /\ request[d].inserted # {} /\ request[d].p = p =>
          \A part \in PartSet : rows'[p][part] = rows[p][part] \/ <<p, part>> \in byPath'
  BY <1>5
<1>8. \A part \in PartSet : rows'[p][part] <= 1 \/ <<p, part>> \in byPath'
  BY <1>4
<1> HIDE DEF S, p
<1> QED
  BY <1>1, <1>3, <1>4, <1>6, <1>7, <1>8, DataInserts

LEMMA NewMembersInsert ==
  ASSUME ListInv, DeleteInv',
         RegisterParticipant \/ \E c \in Clients : ImportParticipant(c)
  PROVE  ListInv'
<1>1. CASE RegisterParticipant
  <2>1. PICK p \in Ids, X \in SUBSET Points : SaveParticipant(p, "PENDING", [x \in X |-> "new"])
    BY <1>1 DEF RegisterParticipant
  <2>2. /\ UNCHANGED <<byPath, request>> /\ {} \in SUBSET Clients
        /\ \A d \in Clients \ {} : request'[d] = request[d]
        /\ \A d \in {} : InsertsMissing(d)'
    BY <1>1 DEF RegisterParticipant
  <2> QED
    BY <2>1, <2>2, NewMemberListed DEF SaveParticipant
<1>2. ASSUME NEW c \in Clients, ImportParticipant(c)
      PROVE  ListInv'
  <2> DEFINE person == Importing(c)
             new == [x \in {request[c].sheet[i].point : i \in person.points} |->
                       IF \E i \in person.points : request[c].sheet[i].point = x /\ request[c].sheet[i].status = "ACTIVE"
                         THEN "took" ELSE "new"]
             S == {c}
  <2>1. IsImport(request[c]) /\ request[c].op = "import" /\ DOMAIN request = Clients /\ UNCHANGED byPath
    BY <1>2, Kinds DEF ImportParticipant, ListInv, DeleteInv, MembersTyped
  <2>2. /\ Imported(c, person) \/ ImportFailed(c, person)
        /\ \/ UNCHANGED <<member, rows>>
           \/ \E p \in Ids : SaveParticipant(p, person.status, new)
    BY <1>2 DEF ImportParticipant
  <2>3. /\ \A d \in Clients \ {c} : request'[d] = request[d]
        /\ request'[c].op = "import"
    BY <2>1, <2>2 DEF Imported, ImportFailed, IsImport
  <2>4. InsertsMissing(c)'
    BY <2>3 DEF InsertsMissing
  <2>5. CASE UNCHANGED <<member, rows>>
    BY <2>1, <2>3, <2>4, <2>5, RequestInserts
  <2>6. ASSUME NEW p \in Ids, SaveParticipant(p, person.status, new)
        PROVE  ListInv'
    <3>1. /\ member[p] = "none" /\ member' = [member EXCEPT ![p] = person.status]
          /\ rows' = [rows EXCEPT ![p] = [part \in PartSet |-> 1]]
      BY <2>6 DEF SaveParticipant
    <3>2. /\ S \in SUBSET Clients /\ \A d \in Clients \ S : request'[d] = request[d]
          /\ \A d \in S : InsertsMissing(d)'
      BY <2>3, <2>4
    <3> HIDE DEF S, person
    <3> QED
      BY <2>1, <3>1, <3>2, NewMemberListed
  <2> QED
    BY <2>2, <2>5, <2>6
<1> QED
  BY <1>1, <1>2

LEMMA ListStep == ListInv /\ [MembersNext]_membersVars => ListInv'
<1> SUFFICES ASSUME ListInv, [MembersNext]_membersVars PROVE ListInv'
  OBVIOUS
<1>0. DeleteInv'
  BY DeleteStep DEF ListInv
<1>1. CASE RegisterParticipant \/ \E c \in Clients : ImportParticipant(c)
  BY <1>0, <1>1, NewMembersInsert
<1>2. CASE ConfirmParticipant \/ AnswerArrives \/ MoveTo \/ UNCHANGED membersVars
  <2>1. UNCHANGED <<rows, byPath, request>> /\ \A p \in Ids : Exists(p)' <=> Exists(p)
    BY <1>2 DEF ConfirmParticipant, AnswerArrives, MoveTo, membersVars, Exists, MemberStatuses, ListInv, DeleteInv,
                MembersTyped
  <2>2. PartsOnce'
    BY <2>1 DEF ListInv, PartsOnce
  <2>3. \A c \in Clients : InsertsMissing(c)'
    <3> SUFFICES ASSUME NEW c \in Clients PROVE InsertsMissing(c)'
      OBVIOUS
    <3>1. request[c].op = "partial" => request[c].p \in Ids
      BY Kinds DEF ListInv, DeleteInv, MembersTyped, IsPartial
    <3> QED
      BY <2>1, <3>1 DEF ListInv, InsertsMissing
  <2> QED
    BY <1>0, <2>2, <2>3 DEF ListInv
<1>3. ASSUME NEW c \in Clients,
             BeginImport(c) \/ LookForName(c) \/ EndImport(c) \/ BeginDelete(c) \/ LockMember(c) \/ CheckMeters(c)
      PROVE  ListInv'
  <2>1. UNCHANGED <<member, rows, byPath>> /\ DOMAIN request = Clients /\ IsRequest(request[c])
    BY <1>3 DEF BeginImport, LookForName, EndImport, BeginDelete, LockMember, CheckMeters, ListInv, DeleteInv,
                MembersTyped
  <2>2. \A d \in Clients \ {c} : request'[d] = request[d]
    BY <1>3, <2>1 DEF BeginImport, LookForName, EndImport, BeginDelete, LockMember, CheckMeters, Ends
  <2>3. request'[c].op \notin {"update", "partial"}
    <3>1. CASE BeginImport(c) \/ BeginDelete(c)
      BY <2>1, <3>1 DEF BeginImport, BeginDelete
    <3>2. CASE Ends(c)
      BY <2>1, <3>2 DEF Ends, Idle
    <3>3. CASE LookForName(c)
      <4>1. IsImport(request[c])
        BY <2>1, <3>3, Kinds DEF LookForName
      <4> QED
        BY <2>1, <3>3, <4>1 DEF LookForName, IsImport
    <3>4. CASE (LockMember(c) \/ CheckMeters(c)) /\ ~Ends(c)
      <4>1. IsDelete(request[c])
        BY <2>1, <3>4, Kinds DEF LockMember, CheckMeters
      <4> QED
        BY <2>1, <3>4, <4>1 DEF LockMember, CheckMeters, IsDelete
    <3> QED
      BY <1>3, <3>1, <3>2, <3>3, <3>4 DEF EndImport
  <2>4. InsertsMissing(c)'
    BY <2>3 DEF InsertsMissing
  <2> QED
    BY <1>0, <2>1, <2>2, <2>4, RequestInserts
<1>4. ASSUME NEW c \in Clients,
             BeginUpdate(c) \/ UpdateMember(c) \/ UpdatePart(c) \/ BeginPartial(c) \/ UpdateField(c)
             \/ InsertField(c) \/ CommitUpdate(c) \/ CommitDelete(c)
      PROVE  ListInv'
  BY <1>0, <1>4, UpdateInserts, FieldInserts, InsertFieldInserts, CommitUpdateInserts, CommitDeleteInserts
<1> QED
  BY <1>1, <1>2, <1>3, <1>4 DEF MembersNext

\* However many saves of a member overlap, he is listed once: who inserts a
\* part he lacks holds his row, and only updates of single fields, which hold
\* nothing, can double one.
THEOREM MembersListedOnce == MembersSpec => []ListedOnce
<1>1. ListInv => ListedOnce
  <2> SUFFICES ASSUME ListInv, NEW p \in Ids, Exists(p)
               PROVE  /\ Shown(p) = "more" => \E part \in PartSet : <<p, part>> \in byPath
                      /\ p \notin Legacy => \A part \in PartSet : rows[p][part] = 1
    BY DEF ListedOnce
  <2>1. (\A part \in PartSet : rows[p][part] <= 1) => Shown(p) = "once"
    BY DEF Shown
  <2> QED
    BY <2>1 DEF ListInv, PartsOnce
<1> QED
  BY <1>1, ListInitially, ListStep, PTL DEF MembersSpec

-----------------------------------------------------------------------------
(* What an import reports. *)

\* Any set of rows has a first one.
LEMMA HasLeast ==
  ASSUME NEW T \in SUBSET Nat, T # {}
  PROVE  \E x \in T : \A y \in T : x <= y
<1> DEFINE Below == {ss \in Nat \X Nat : ss[1] < ss[2]}
<1>1. IsWellFoundedOn(Below, Nat)
  BY NatLessThanWellFounded DEF OpToRel
<1>2. PICK x \in T : \A y \in T : ~(<<y, x>> \in Below)
  <2> HIDE DEF Below
  <2> QED
    BY <1>1, WFMin
<1>3. \A y \in T : ~(y < x)
  BY <1>2
<1> QED
  BY <1>3

\* Every row of data is refused with a message, or brings the metering point of
\* a member that Transform found.
LEMMA EveryRowTransformed ==
  ASSUME NEW sheet \in Sheets, NEW i \in DataRows(sheet), i \notin Messages(sheet)
  PROVE  \E f \in Transform(sheet) : i \in Person(sheet, f).points
<1>1. i \in Accepted(sheet) /\ Numbered(sheet[i])
  BY DEF Messages, Accepted, DataRows
<1>2. i \in RowsOf(sheet, i) /\ RowsOf(sheet, i) \subseteq Nat
  BY <1>1, SheetsAssumption DEF RowsOf, Accepted, DataRows
<1>3. PICK f \in RowsOf(sheet, i) : \A j \in RowsOf(sheet, i) : f <= j
  BY <1>2, HasLeast
<1>4. f \in Accepted(sheet) /\ sheet[f].name = sheet[i].name
  BY DEF RowsOf
<1>5. RowsOf(sheet, f) = RowsOf(sheet, i)
  BY <1>4 DEF RowsOf
<1>6. f \in Transform(sheet)
  BY <1>3, <1>4, <1>5 DEF Transform, First
<1>7. i \in Person(sheet, f).points
  BY <1>1, <1>2, <1>5 DEF Person
<1> QED
  BY <1>6, <1>7

\* A row is still to be imported, or has its place in the report.
RowsInHand(c) == LET r == request[c] IN
  r.op = "import" => \A i \in DataRows(r.sheet) :
    \/ i \in r.added \/ i \in Messages(r.sheet) \/ r.sheet[i].name \in r.failed
    \/ \E f \in r.todo : i \in Person(r.sheet, f).points

ReportInv == DeleteInv /\ \A c \in Clients : RowsInHand(c)

LEMMA ReportStep == ReportInv /\ [MembersNext]_membersVars => ReportInv'
<1> SUFFICES ASSUME ReportInv, [MembersNext]_membersVars PROVE ReportInv'
  OBVIOUS
<1>0. DeleteInv' /\ DOMAIN request = Clients /\ \A c \in Clients : IsRequest(request[c])
  BY DeleteStep DEF ReportInv, DeleteInv, MembersTyped
<1>1. CASE RegisterParticipant \/ ConfirmParticipant \/ AnswerArrives \/ MoveTo \/ UNCHANGED membersVars
  <2>1. UNCHANGED request
    BY <1>1 DEF RegisterParticipant, ConfirmParticipant, AnswerArrives, MoveTo, membersVars
  <2> QED
    BY <1>0, <2>1 DEF ReportInv, RowsInHand
<1>2. ASSUME NEW c \in Clients, RowsInHand(c)', \A d \in Clients \ {c} : request'[d] = request[d]
      PROVE  ReportInv'
  BY <1>0, <1>2 DEF ReportInv, RowsInHand
<1>3. ASSUME NEW c \in Clients, BeginImport(c)
      PROVE  ReportInv'
  <2>1. PICK sheet \in Sheets :
          request' = [request EXCEPT ![c] = [op |-> "import", sheet |-> sheet, todo |-> Transform(sheet),
                                             looked |-> FALSE, found |-> {}, added |-> {}, failed |-> {}]]
    BY <1>3 DEF BeginImport
  <2>2. request'[c].sheet = sheet /\ request'[c].todo = Transform(sheet)
    BY <1>0, <2>1
  <2>3. RowsInHand(c)'
    BY <2>2, EveryRowTransformed DEF RowsInHand
  <2> QED
    BY <1>0, <1>2, <2>1, <2>3
<1>4. ASSUME NEW c \in Clients, LookForName(c)
      PROVE  ReportInv'
  <2>1. IsImport(request[c])
    BY <1>0, <1>4, Kinds DEF LookForName
  <2>2. PICK found : request' = [request EXCEPT ![c].looked = TRUE, ![c].found = found]
    BY <1>4 DEF LookForName
  <2>3. request'[c] = [[request[c] EXCEPT !.looked = TRUE] EXCEPT !.found = found]
    BY <1>0, <2>2
  <2>4. /\ request'[c].op = "import" /\ request[c].op = "import" /\ request'[c].sheet = request[c].sheet
        /\ request'[c].todo = request[c].todo /\ request'[c].added = request[c].added
        /\ request'[c].failed = request[c].failed
    BY <2>1, <2>3 DEF IsImport
  <2>5. RowsInHand(c)'
    BY <2>4 DEF ReportInv, RowsInHand
  <2> QED
    BY <1>0, <1>2, <2>2, <2>5
<1>5. ASSUME NEW c \in Clients, ImportParticipant(c)
      PROVE  ReportInv'
  <2> DEFINE r == request[c]
             m == Min(request[c].todo)
             person == Person(request[c].sheet, m)
  <2>1. IsImport(r) /\ r.op = "import"
    BY <1>0, <1>5, Kinds DEF ImportParticipant
  <2>2. Imported(c, person) \/ ImportFailed(c, person)
    BY <1>5 DEF ImportParticipant, Importing
  <2>3. \A d \in Clients \ {c} : request'[d] = request[d]
    BY <1>0, <2>2 DEF Imported, ImportFailed
  <2>4. /\ request'[c].op = "import" /\ request'[c].sheet = r.sheet /\ request'[c].todo = r.todo \ {m}
        /\ r.added \subseteq request'[c].added /\ r.failed \subseteq request'[c].failed
        /\ person.points \subseteq request'[c].added \/ person.name \in request'[c].failed
    <3>1. CASE Imported(c, person)
      <4>1. request'[c] = [[[[r EXCEPT !.todo = @ \ {m}] EXCEPT !.looked = FALSE] EXCEPT !.found = {}]
                             EXCEPT !.added = @ \cup person.points]
        BY <1>0, <3>1 DEF Imported
      <4> HIDE DEF m, person
      <4> QED
        BY <2>1, <4>1 DEF IsImport
    <3>2. CASE ImportFailed(c, person)
      <4>1. request'[c] = [[[[r EXCEPT !.todo = @ \ {m}] EXCEPT !.looked = FALSE] EXCEPT !.found = {}]
                             EXCEPT !.failed = @ \cup {person.name}]
        BY <1>0, <3>2 DEF ImportFailed
      <4> HIDE DEF m, person
      <4> QED
        BY <2>1, <4>1 DEF IsImport
    <3> QED
      BY <2>2, <3>1, <3>2
  <2>5. \A i \in person.points : r.sheet[i].name = person.name
    BY DEF Person, RowsOf
  <2>6. RowsInHand(c)'
    <3> HIDE DEF m
    <3>1. \A i \in DataRows(r.sheet) :
            \/ i \in r.added \/ i \in Messages(r.sheet) \/ r.sheet[i].name \in r.failed
            \/ \E f \in r.todo : i \in Person(r.sheet, f).points
      BY <2>1 DEF ReportInv, RowsInHand
    <3>2. ASSUME NEW i \in DataRows(r.sheet)
          PROVE  \/ i \in request'[c].added \/ i \in Messages(r.sheet) \/ r.sheet[i].name \in request'[c].failed
                 \/ \E f \in r.todo \ {m} : i \in Person(r.sheet, f).points
      <4>1. CASE i \in person.points
        BY <2>4, <2>5, <4>1
      <4>2. CASE i \notin person.points
        BY <2>4, <3>1, <4>2
      <4> QED
        BY <4>1, <4>2
    <3> QED
      BY <2>4, <3>2 DEF RowsInHand
  <2> QED
    BY <1>2, <2>3, <2>6
<1>6. ASSUME NEW c \in Clients, Ends(c)
      PROVE  ReportInv'
  <2>1. request'[c].op = "idle" /\ \A d \in Clients \ {c} : request'[d] = request[d]
    BY <1>0, <1>6 DEF Ends, Idle
  <2> QED
    BY <1>2, <2>1 DEF RowsInHand
<1>7. ASSUME NEW c \in Clients,
             BeginUpdate(c) \/ UpdateMember(c) \/ UpdatePart(c) \/ CommitUpdate(c) \/ BeginPartial(c) \/ UpdateField(c)
             \/ InsertField(c) \/ BeginDelete(c) \/ LockMember(c) \/ CheckMeters(c) \/ CommitDelete(c),
             ~Ends(c)
      PROVE  ReportInv'
  <2>1. \A d \in Clients \ {c} : request'[d] = request[d]
    BY <1>0, <1>7 DEF BeginUpdate, UpdateMember, UpdatePart, CommitUpdate, BeginPartial, UpdateField, InsertField,
                      BeginDelete, LockMember, CheckMeters, CommitDelete
  <2>2. request'[c].op # "import"
    <3>1. CASE BeginUpdate(c) \/ BeginPartial(c) \/ BeginDelete(c)
      BY <1>0, <3>1 DEF BeginUpdate, BeginPartial, BeginDelete
    <3>2. CASE UpdateMember(c) \/ UpdatePart(c)
      <4>1. IsUpdate(request[c])
        BY <1>0, <3>2, Kinds DEF UpdateMember, UpdatePart
      <4> QED
        BY <1>0, <1>7, <3>2, <4>1 DEF UpdateMember, UpdatePart, IsUpdate
    <3>3. CASE UpdateField(c) \/ InsertField(c)
      <4>1. IsPartial(request[c])
        BY <1>0, <3>3, Kinds DEF UpdateField, InsertField
      <4>2. request[c].op = "partial"
        BY <4>1 DEF IsPartial
      <4>3. CASE UpdateField(c)
        <5>1. Ends(c) \/ request'[c].op = request[c].op
          BY <1>0, <4>1, <4>3 DEF UpdateField, IsPartial
        <5> QED
          BY <1>7, <4>2, <5>1
      <4>4. CASE InsertField(c)
        <5>1. Ends(c) \/ request'[c].op = request[c].op
          BY <1>0, <4>1, <4>4 DEF InsertField, IsPartial
        <5> QED
          BY <1>7, <4>2, <5>1
      <4> QED
        BY <3>3, <4>3, <4>4
    <3>4. CASE LockMember(c) \/ CheckMeters(c)
      <4>1. IsDelete(request[c])
        BY <1>0, <3>4, Kinds DEF LockMember, CheckMeters
      <4> QED
        BY <1>0, <1>7, <3>4, <4>1 DEF LockMember, CheckMeters, IsDelete
    <3> QED
      BY <1>7, <3>1, <3>2, <3>3, <3>4 DEF CommitUpdate, CommitDelete
  <2> QED
    BY <1>2, <2>1, <2>2 DEF RowsInHand
<1> QED
  BY <1>1, <1>3, <1>4, <1>5, <1>6, <1>7 DEF MembersNext, EndImport

\* The report of an import accounts for every row of the sheet, whatever the
\* sheet says and whatever fails while its members are saved.
THEOREM ImportReportsAll == MembersSpec => []RowsAccounted
<1>1. MembersInit => ReportInv
  <2> SUFFICES ASSUME MembersInit PROVE ReportInv
    OBVIOUS
  <2>1. \A c \in Clients : request[c].op = "idle"
    BY DEF MembersInit, Idle
  <2> QED
    BY <2>1, DeleteInitially DEF ReportInv, RowsInHand
<1>2. ReportInv => RowsAccounted
  BY DEF ReportInv, RowsInHand, RowsAccounted
<1> QED
  BY <1>1, <1>2, ReportStep, PTL DEF MembersSpec

-----------------------------------------------------------------------------
(* The members among the other parts of the administration. *)

LEMMA AdministrationStepsMembers ==
  [AdministrationNext]_administrationVars => [MembersNext]_membersVars
<1>1. ASSUME AdministrationNext PROVE [MembersNext]_membersVars
  <2>1. CASE MembersTopic
    BY <2>1 DEF MembersTopic
  <2>2. CASE TariffsTopic
    BY <2>2 DEF TariffsTopic
  <2>3. CASE FactorsTopic
    BY <2>3 DEF FactorsTopic
  <2>4. CASE IntervalTopic
    BY <2>4 DEF IntervalTopic
  <2>5. CASE CommunitiesTopic
    BY <2>5 DEF CommunitiesTopic
  <2>6. CASE CacheTopic
    BY <2>6 DEF CacheTopic
  <2> QED
    BY <1>1, <2>1, <2>2, <2>3, <2>4, <2>5, <2>6 DEF AdministrationNext
<1>2. UNCHANGED administrationVars => UNCHANGED membersVars
  BY DEF administrationVars
<1> QED
  BY <1>1, <1>2

\* What holds of the members alone holds of them in the administration: a
\* deletion takes no participation along, a member is listed once, and an
\* import accounts for every row.
THEOREM MembersInAdministration ==
  AdministrationSpec => /\ MembersSpec
                        /\ NoParticipationDeleted
                        /\ [](ListedOnce /\ RowsAccounted)
<1>1. AdministrationInit => MembersInit
  BY DEF AdministrationInit
<1>2. AdministrationSpec => MembersSpec
  BY <1>1, AdministrationStepsMembers, PTL DEF AdministrationSpec, MembersSpec
<1> QED
  BY <1>2, DeletionSpares, MembersListedOnce, ImportReportsAll, PTL
=============================================================================
