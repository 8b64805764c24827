------------------------------ MODULE Members ------------------------------
(***************************************************************************)
(* The members of a community: base.participant and the four tables of     *)
(* parts that hang on it (contact, two addresses, bank account), and as    *)
(* much of their metering points as deleting a member depends on.          *)
(*                                                                         *)
(* A request is one transaction or a few statements of their own; between  *)
(* two statements other requests and answers of the grid operator run.     *)
(* What holds requests apart are row locks of PostgreSQL: an UPDATE of a   *)
(* member keeps others from updating or deleting him, but lets rows that   *)
(* refer to him be inserted; SELECT FOR UPDATE also keeps those away.      *)
(*                                                                         *)
(* Left out: what the columns say, apart from the status.                  *)
(***************************************************************************)
EXTENDS ExcelImport, FiniteSets

CONSTANTS Ids,            \* ids a member may get
          Legacy,         \* members of an older version, some without all parts
          NameOf,         \* the name of the member with an id
          Sheets,         \* sheets that are imported
          FormStatuses,   \* statuses a form may be saved with
          Points,         \* metering points, each registered at most once at a time
          Parts,          \* the parts of a member, in the order they are saved
          Clients         \* requests that may run at a time

VARIABLES member,         \* member[p]: "none", "gone" or his status
          rows,           \* rows[p][part]: committed rows of a part
          byPath,         \* <<p, part>> that an update of one field inserted
          point,          \* point[x]: [of, state] of the registration
          request         \* request[c]: what client c is doing

membersVars == <<member, rows, byPath, point, request>>

MemberStatuses == {"NEW", "PENDING", "ACTIVE"}
PartSet == ToSet(Parts)

ASSUME PartsAssumption == Parts \in Seq(PartSet) /\ Parts # << >>
ASSUME SheetsAssumption == \A sheet \in Sheets : DOMAIN sheet = 1 .. Len(sheet) /\ Len(sheet) \in Nat
ASSUME FormAssumption == FormStatuses \subseteq MemberStatuses

Idle == [op |-> "idle"]
Free == [of |-> {}, state |-> "none"]

Exists(p) == member[p] \in MemberStatuses
MetersOf(p) == {x \in Points : p \in point[x].of}

MembersInit ==
  /\ member = [p \in Ids |-> IF p \in Legacy THEN "NEW" ELSE "none"]
  /\ rows \in [Ids -> [PartSet -> {0, 1}]]
  /\ \A p \in Ids \ Legacy, part \in PartSet : rows[p][part] = 0
  /\ byPath = {}
  /\ point = [x \in Points |-> Free]
  /\ request = [c \in Clients |-> Idle]

-----------------------------------------------------------------------------
(* Locks: requests that hold the row of member p, those that keep even     *)
(* references to him away, and those that hold his metering points.        *)
Holds(c, p) == request[c].op \in {"update", "delete"} /\ request[c].p = p /\ request[c].locked
Locked(p) == \E c \in Clients : Holds(c, p)
LockedForReferences(p) == \E c \in Clients : Holds(c, p) /\ request[c].op = "delete"
MetersLocked(p) == \E c \in Clients : request[c].op = "delete" /\ request[c].p = p /\ request[c].checked

Ends(c) == request' = [request EXCEPT ![c] = Idle]

\* Registrations of member p are inserted; new[x] is their state.
Inserted(p, new) ==
  [x \in Points |-> IF x \in DOMAIN new THEN [of |-> {p}, state |-> new[x]] ELSE point[x]]

-----------------------------------------------------------------------------
(* A new member with all parts and his metering points, in one transaction. *)
SaveParticipant(p, status, new) ==
  /\ member[p] = "none"
  /\ \A x \in DOMAIN new : point[x] = Free
  /\ member' = [member EXCEPT ![p] = status]
  /\ rows' = [rows EXCEPT ![p] = [part \in PartSet |-> 1]]
  /\ point' = Inserted(p, new)

RegisterParticipant ==
  \E p \in Ids, X \in SUBSET Points : /\ SaveParticipant(p, "PENDING", [x \in X |-> "new"])
                                      /\ UNCHANGED <<byPath, request>>

\* The import of a sheet: each member in a transaction of his own.
BeginImport(c) ==
  \E sheet \in Sheets :
     /\ request[c] = Idle
     /\ request' = [request EXCEPT ![c] = [op |-> "import", sheet |-> sheet, todo |-> Transform(sheet),
                                           looked |-> FALSE, found |-> {}, added |-> {}, failed |-> {}]]
     /\ UNCHANGED <<member, rows, byPath, point>>

\* The member whose turn it is.
Importing(c) == Person(request[c].sheet, Min(request[c].todo))

\* The member is looked for by his name; one of those found is taken.
LookForName(c) ==
  /\ request[c].op = "import" /\ request[c].todo # {} /\ ~request[c].looked
  /\ LET same == {p \in Ids : Exists(p) /\ NameOf[p] = Importing(c).name} IN
     \E found \in {{p} : p \in same} \cup (IF same = {} THEN {{}} ELSE {}) :
        request' = [request EXCEPT ![c].looked = TRUE, ![c].found = found]
  /\ UNCHANGED <<member, rows, byPath, point>>

\* His metering points are inserted, if they are all different and free.
MayInsert(sheet, points) ==
  /\ \A i, j \in points : i # j => sheet[i].point # sheet[j].point
  /\ \A i \in points : point[sheet[i].point] = Free

Imported(c, person) ==
  request' = [request EXCEPT ![c].todo = @ \ {Min(@)}, ![c].looked = FALSE, ![c].found = {},
                             ![c].added = @ \cup person.points]

\* (slip: the first failure ends the import)
ImportFailedEnds(c, person) ==
  request' = [request EXCEPT ![c].todo = {}, ![c].looked = FALSE, ![c].found = {},
                             ![c].failed = @ \cup {person.name}]

\* A failure is reported with the member's name, and the import goes on.
ImportFailed(c, person) ==
  request' = [request EXCEPT ![c].todo = @ \ {Min(@)}, ![c].looked = FALSE, ![c].found = {},
                             ![c].failed = @ \cup {person.name}]

\* A member who was found gets the metering points: the foreign key refuses
\* one who is gone, and waits for one who is about to go.  Others are saved.
ImportParticipant(c) ==
  /\ request[c].op = "import" /\ request[c].looked
  /\ LET person == Importing(c)
         sheet == request[c].sheet
         new == [x \in {sheet[i].point : i \in person.points} |->
                   IF \E i \in person.points : sheet[i].point = x /\ sheet[i].status = "ACTIVE"
                     THEN "took" ELSE "new"]
     IN \/ \E p \in request[c].found :
             /\ Exists(p) /\ ~LockedForReferences(p) /\ MayInsert(sheet, person.points)
             /\ point' = Inserted(p, new) /\ Imported(c, person) /\ UNCHANGED <<member, rows>>
        \/ \E p \in Ids :
             /\ request[c].found = {} /\ NameOf[p] = person.name /\ MayInsert(sheet, person.points)
             /\ SaveParticipant(p, person.status, new) /\ Imported(c, person)
        \/ /\ ~MayInsert(sheet, person.points) \/ \E p \in request[c].found : ~Exists(p)
           /\ ImportFailed(c, person) /\ UNCHANGED <<member, rows, point>>
  /\ UNCHANGED byPath

\* The report is stored as a notification.
EndImport(c) ==
  /\ request[c].op = "import" /\ request[c].todo = {}
  /\ Ends(c) /\ UNCHANGED <<member, rows, byPath, point>>

-----------------------------------------------------------------------------
(* A member is saved as a whole: his row first, then part after part, each *)
(* updated, or inserted where he has none; one transaction.                *)
BeginUpdate(c) ==
  \E p \in Ids, status \in FormStatuses :
     /\ request[c] = Idle /\ Exists(p)
     /\ request' = [request EXCEPT ![c] = [op |-> "update", p |-> p, status |-> status, locked |-> FALSE,
                                           todo |-> Parts, inserted |-> {}, begun |-> FALSE]]
     /\ UNCHANGED <<member, rows, byPath, point>>

\* (slip: the parts are saved before the member)
UpdateMemberUnlocked(c) ==
  /\ request[c].op = "update" /\ ~request[c].begun
  /\ request' = [request EXCEPT ![c].begun = TRUE]
  /\ UNCHANGED <<member, rows, byPath, point>>

\* The UPDATE of the member waits for others; for one who is gone it hits
\* nothing, which is not noticed yet.
UpdateMember(c) ==
  /\ request[c].op = "update" /\ ~request[c].begun /\ ~Locked(request[c].p)
  /\ request' = [request EXCEPT ![c].begun = TRUE, ![c].locked = Exists(request[c].p)]
  /\ UNCHANGED <<member, rows, byPath, point>>

\* The insert of a missing part is refused when the member is gone.
UpdatePart(c) ==
  /\ request[c].op = "update" /\ request[c].begun /\ request[c].todo # <<>>
  /\ LET p == request[c].p
         part == Head(request[c].todo)
         rest == [request EXCEPT ![c].todo = Tail(@)]
     IN \/ rows[p][part] > 0 /\ request' = rest
        \/ /\ rows[p][part] = 0 /\ Exists(p)
           /\ request' = [rest EXCEPT ![c].inserted = @ \cup {part}]
        \/ rows[p][part] = 0 /\ ~Exists(p) /\ Ends(c)
  /\ UNCHANGED <<member, rows, byPath, point>>

CommitUpdate(c) ==
  /\ request[c].op = "update" /\ request[c].begun /\ request[c].todo = <<>>
  /\ LET p == request[c].p IN
     /\ member' = [member EXCEPT ![p] = request[c].status]
     /\ rows' = [rows EXCEPT ![p] = [part \in PartSet |->
                   rows[p][part] + (IF part \in request[c].inserted THEN 1 ELSE 0)]]
  /\ Ends(c) /\ UNCHANGED <<byPath, point>>

-----------------------------------------------------------------------------
(* Single fields: each is an UPDATE of its own, and an INSERT when that    *)
(* found no row; the support tool sends several fields, the web one.       *)
BeginPartial(c) ==
  \E p \in Ids, fields \in (SUBSET PartSet) \ {{}} :
     /\ request[c] = Idle /\ Exists(p)
     /\ request' = [request EXCEPT ![c] = [op |-> "partial", p |-> p, fields |-> fields, missing |-> {}]]
     /\ UNCHANGED <<member, rows, byPath, point>>

UpdateField(c) ==
  /\ request[c].op = "partial" /\ request[c].missing = {}
  /\ \E part \in request[c].fields :
        IF rows[request[c].p][part] = 0
          THEN request' = [request EXCEPT ![c].missing = {part}]
          ELSE IF request[c].fields = {part} THEN Ends(c)
               ELSE request' = [request EXCEPT ![c].fields = @ \ {part}]
  /\ UNCHANGED <<member, rows, byPath, point>>

InsertField(c) ==
  /\ request[c].op = "partial" /\ request[c].missing # {}
  /\ ~LockedForReferences(request[c].p)
  /\ \E part \in request[c].missing :
     LET p == request[c].p
         rest == request[c].fields \ {part}
     IN IF Exists(p)
          THEN /\ rows' = [rows EXCEPT ![p][part] = @ + 1]
               /\ byPath' = byPath \cup {<<p, part>>}
               /\ IF rest = {} THEN Ends(c)
                  ELSE request' = [request EXCEPT ![c].fields = rest, ![c].missing = {}]
          ELSE Ends(c) /\ UNCHANGED <<rows, byPath>>
  /\ UNCHANGED <<member, point>>

\* Confirming a member, and the status as a single field.
ConfirmParticipant ==
  \E p \in Ids : /\ Exists(p) /\ ~Locked(p)
                 /\ member' = [member EXCEPT ![p] = "ACTIVE"]
                 /\ UNCHANGED <<rows, byPath, point, request>>

-----------------------------------------------------------------------------
(* A member is deleted with everything that hangs on him: he is locked,    *)
(* then his metering points are locked and looked at.                      *)
BeginDelete(c) ==
  \E p \in Ids :
     /\ request[c] = Idle /\ Exists(p)
     /\ request' = [request EXCEPT ![c] = [op |-> "delete", p |-> p, locked |-> FALSE, checked |-> FALSE]]
     /\ UNCHANGED <<member, rows, byPath, point>>

\* (slip: only the metering points are locked)
LockMemberNever(c) ==
  /\ request[c].op = "delete" /\ ~request[c].locked /\ ~request[c].checked
  /\ Exists(request[c].p)
  /\ request' = [request EXCEPT ![c].checked = \A x \in MetersOf(request[c].p) : point[x].state = "new"]
  /\ UNCHANGED <<member, rows, byPath, point>>

LockMember(c) ==
  /\ request[c].op = "delete" /\ ~request[c].locked /\ ~Locked(request[c].p)
  /\ IF Exists(request[c].p) THEN request' = [request EXCEPT ![c].locked = TRUE] ELSE Ends(c)
  /\ UNCHANGED <<member, rows, byPath, point>>

CheckMeters(c) ==
  /\ request[c].op = "delete" /\ request[c].locked /\ ~request[c].checked
  /\ IF \A x \in MetersOf(request[c].p) : point[x].state = "new"
       THEN request' = [request EXCEPT ![c].checked = TRUE]
       ELSE Ends(c)
  /\ UNCHANGED <<member, rows, byPath, point>>

CommitDelete(c) ==
  /\ request[c].op = "delete" /\ request[c].checked
  /\ LET p == request[c].p IN
     /\ member' = [member EXCEPT ![p] = "gone"]
     /\ rows' = [rows EXCEPT ![p] = [part \in PartSet |-> 0]]
     /\ point' = [x \in Points |-> IF p \in point[x].of THEN Free ELSE point[x]]
  /\ Ends(c) /\ UNCHANGED byPath

-----------------------------------------------------------------------------
(* The metering points meanwhile: the grid operator's answers, and a move  *)
(* to another member.  A statement waits for rows that are locked.         *)
AnswerArrives ==
  \E x \in Points, state \in {"new", "open", "took"} :
     /\ point[x].of # {} /\ point[x].state # "took"
     /\ \A p \in point[x].of : ~MetersLocked(p)
     /\ point' = [point EXCEPT ![x].state = state]
     /\ UNCHANGED <<member, rows, byPath, request>>

MoveTo ==
  \E x \in Points, q \in Ids :
     /\ point[x].of # {} /\ q \notin point[x].of
     /\ Exists(q) /\ ~LockedForReferences(q)
     /\ \A p \in point[x].of : ~MetersLocked(p)
     /\ point' = [point EXCEPT ![x].of = {q}]
     /\ UNCHANGED <<member, rows, byPath, request>>

MembersNext ==
  \/ RegisterParticipant \/ ConfirmParticipant \/ AnswerArrives \/ MoveTo
  \/ \E c \in Clients : \/ BeginImport(c) \/ LookForName(c) \/ ImportParticipant(c) \/ EndImport(c)
                        \/ BeginUpdate(c) \/ UpdateMember(c) \/ UpdatePart(c) \/ CommitUpdate(c)
                        \/ BeginPartial(c) \/ UpdateField(c) \/ InsertField(c)
                        \/ BeginDelete(c) \/ LockMember(c) \/ CheckMeters(c) \/ CommitDelete(c)

MembersSpec == MembersInit /\ [][MembersNext]_membersVars

-----------------------------------------------------------------------------
\* How often the list of members shows a member: every part is joined to him,
\* and a part he lacks joins as NULL.
Shown(p) == IF \A part \in PartSet : rows[p][part] <= 1 THEN "once" ELSE "more"

\* Deleting a member never takes a metering point along that took part, or
\* whose registration is open: neither one that an answer activates meanwhile
\* nor one that is moved or imported onto the member ("they cascade, also the
\* history of active ones").
NoParticipationDeleted ==
  [][\A x \in Points : point[x].state \in {"open", "took"} => point'[x].of # {}]_membersVars

\* However saves of whole members overlap, a member is listed once, with all
\* parts if this version saved him.  Only updates of single fields, which
\* lock nothing between their UPDATE and their INSERT, can double a part that
\* the member lacked.
ListedOnce ==
  \A p \in Ids : Exists(p) =>
     /\ Shown(p) = "more" => \E part \in PartSet : <<p, part>> \in byPath
     /\ p \notin Legacy => \A part \in PartSet : rows[p][part] = 1

\* Whatever fails, the report of an import accounts for every row of the sheet:
\* its metering point was inserted, or a message names the row or its member.
RowsAccounted ==
  \A c \in Clients : request[c].op = "import" /\ request[c].todo = {} =>
     \A i \in DataRows(request[c].sheet) :
        \/ i \in request[c].added
        \/ i \in Messages(request[c].sheet)
        \/ request[c].sheet[i].name \in request[c].failed
=============================================================================
