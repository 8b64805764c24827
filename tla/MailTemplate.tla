---------------------------- MODULE MailTemplate ----------------------------
(***************************************************************************)
(* The text of one member mail that a community customised, and its images *)
(* (database/mailTemplateDao.go, api/mailTemplateController.go and         *)
(* mailTemplateFiles.go).  Several editors load, save and reset the text,  *)
(* upload images as drafts and delete drafts; the process is replaced by a *)
(* build with another default text.                                        *)
(*                                                                         *)
(* Each request is one transaction.  Saves, uploads and deletions of       *)
(* drafts take the advisory lock of the mail first; a reset does not, and  *)
(* meets a save only at the row locks.  A transaction that holds locks     *)
(* between two statements is therefore two actions, Begin and End; what it *)
(* wrote is invisible to others until End, which also commits.             *)
(*                                                                         *)
(* Abstracted: the PDF (no mail allows one), sizes, the sanitised text,    *)
(* and the mail being sent.                                                *)
(***************************************************************************)
EXTENDS Naturals, FiniteSets

CONSTANTS
  Editors, Nobody,
  Files,             \* the images that may be uploaded; an id is never used again
  MaxImages,         \* of a version, and of the drafts
  DefaultVersions,   \* of the default text, by build
  NoTemplate,
  MaxSaves, MaxResets  \* bounds of TLC's runs

\* A row of base.mail_template.
Templates == [version : Nat \ {0}, images : SUBSET Files, default : DefaultVersions,
              notified : DefaultVersions, text : Nat]

ASSUME MailTemplateAssumption ==
  /\ Nobody \notin Editors /\ NoTemplate \notin Templates
  /\ IsFiniteSet(Files)
  /\ MaxImages \in Nat /\ DefaultVersions \subseteq Nat
  /\ MaxSaves \in Nat /\ MaxResets \in Nat

VARIABLES
  saved,    \* the row of base.mail_template
  files,    \* the rows of base.mail_template_file
  lock,     \* holder of the advisory lock
  tx,       \* the transaction of each editor
  page,     \* what each editor's page shows
  default,  \* the default version of the running build
  noticed,  \* how often the community was told of a default, for this row
  saves, resets  \* how many there were: they identify a text

vars == <<saved, files, lock, tx, page, default, noticed, saves, resets>>

Existing == {f \in Files : files[f] \in {"draft", "stale", "committed"}}
Committed == {f \in Files : files[f] = "committed"}
Drafts == {f \in Files : files[f] = "draft"}

Idle == [pc |-> "idle", version |-> 0, files |-> {}]
Version == IF saved = NoTemplate THEN 0 ELSE saved.version
Text == IF saved = NoTemplate THEN 0 ELSE saved.text

\* The files whose uncommitted deletion by a reset others wait for.
Deleting == UNION {tx[e].files : e \in {d \in Editors : tx[d].pc = "resetting"}}
\* The row a save read FOR UPDATE.
RowLocked == \E e \in Editors : tx[e].pc = "saving" /\ tx[e].version > 0

NeverNoticed == [d \in DefaultVersions |-> 0]

TypeOK ==
  /\ saved \in Templates \cup {NoTemplate}
  /\ files \in [Files -> {"new", "draft", "stale", "committed", "gone"}]
  /\ lock \in Editors \cup {Nobody}
  /\ tx \in [Editors -> [pc : {"idle", "uploading", "saving", "resetting"}, version : Nat,
                         files : SUBSET Files]]
  /\ page \in [Editors -> [version : Nat, text : Nat, resets : Nat]]
  /\ default \in DefaultVersions
  /\ noticed \in [DefaultVersions -> Nat]
  /\ saves \in Nat /\ resets \in Nat

Init ==
  /\ saved = NoTemplate
  /\ files = [f \in Files |-> "new"]
  /\ lock = Nobody
  /\ tx = [e \in Editors |-> Idle]
  /\ page = [e \in Editors |-> [version |-> 0, text |-> 0, resets |-> 0]]
  /\ default \in DefaultVersions
  /\ noticed = NeverNoticed
  /\ saves = 0 /\ resets = 0

-----------------------------------------------------------------------------
(* The editors' requests. *)

\* The transaction ends, and with it its locks.
Finish(e) == /\ tx' = [tx EXCEPT ![e] = Idle]
             /\ lock' = IF lock = e THEN Nobody ELSE lock

Load(e) ==
  /\ tx[e].pc = "idle"
  /\ page' = [page EXCEPT ![e] = [version |-> Version, text |-> Text, resets |-> resets]]
  /\ UNCHANGED <<saved, files, lock, tx, default, noticed, saves, resets>>

\* (slip: the limit is checked before the lock is taken)
UploadBeginUnlocked(e, f) ==
  /\ tx[e].pc = "idle" /\ files[f] = "new" /\ \A o \in Editors : f \notin tx[o].files
  /\ Cardinality(Drafts) < MaxImages
  /\ tx' = [tx EXCEPT ![e] = [pc |-> "uploading", version |-> 0, files |-> {f}]]
  /\ UNCHANGED <<saved, files, lock, page, default, noticed, saves, resets>>

\* An image is uploaded: under the lock, within the limit of the drafts.
UploadBegin(e, f) ==
  /\ tx[e].pc = "idle" /\ lock = Nobody /\ files[f] = "new"
  /\ Cardinality(Drafts) < MaxImages
  /\ lock' = e
  /\ tx' = [tx EXCEPT ![e] = [pc |-> "uploading", version |-> 0, files |-> {f}]]
  /\ UNCHANGED <<saved, files, page, default, noticed, saves, resets>>

UploadEnd(e) ==
  /\ tx[e].pc = "uploading"
  /\ files' = [f \in Files |-> IF f \in tx[e].files THEN "draft" ELSE files[f]]
  /\ Finish(e)
  /\ UNCHANGED <<saved, page, default, noticed, saves, resets>>

\* (slip: the lock is not taken)
DeleteDraftUnlocked(e, f) ==
  /\ tx[e].pc = "idle"
  /\ files[f] \in {"draft", "stale"} /\ f \notin Deleting
  /\ files' = [files EXCEPT ![f] = "gone"]
  /\ UNCHANGED <<saved, lock, tx, page, default, noticed, saves, resets>>

DeleteDraft(e, f) ==
  /\ tx[e].pc = "idle" /\ lock = Nobody
  /\ files[f] \in {"draft", "stale"} /\ f \notin Deleting
  /\ files' = [files EXCEPT ![f] = "gone"]
  /\ UNCHANGED <<saved, lock, tx, page, default, noticed, saves, resets>>

\* (slip: the version is not compared)
CurrentAlways(e) == TRUE

Current(e) == page[e].version = Version

\* A save reads the version and all files, and checks them, under the lock.
SaveBegin(e, images) ==
  /\ tx[e].pc = "idle" /\ lock = Nobody
  /\ saves < MaxSaves
  /\ Current(e)
  /\ images \subseteq Existing /\ Cardinality(images) <= MaxImages
  /\ lock' = e
  /\ tx' = [tx EXCEPT ![e] = [pc |-> "saving", version |-> Version, files |-> images]]
  /\ UNCHANGED <<saved, files, page, default, noticed, saves, resets>>

\* The file rows a save writes: it commits the images of the version, and
\* deletes committed files it no longer uses and stale drafts.
Touched(images) == {f \in Existing : \/ f \in images /\ files[f] # "committed"
                                     \/ f \notin images /\ files[f] \in {"committed", "stale"}}

SavedFiles(images) ==
  [f \in Files |-> IF f \notin Touched(images) THEN files[f]
                   ELSE IF f \in images THEN "committed" ELSE "gone"]

FirstVersion == 1

\* (slip: the mark follows the build, also to an older default)
NotifiedByBuild(old) == default
Notified(old) == IF old > default THEN old ELSE default

\* The save writes the row and the files, waiting for rows a reset deletes,
\* and commits; the answer tells the page the new version.
SaveEnd(e) ==
  /\ tx[e].pc = "saving"
  /\ Touched(tx[e].files) \cap Deleting = {}
  /\ saves' = saves + 1
  /\ files' = SavedFiles(tx[e].files)
  /\ IF tx[e].version = 0
       THEN /\ saved' = [version |-> FirstVersion, images |-> tx[e].files, default |-> default,
                          notified |-> default, text |-> saves']
            /\ noticed' = NeverNoticed
       ELSE /\ saved' = [version |-> saved.version + 1, images |-> tx[e].files, default |-> default,
                          notified |-> Notified(saved.notified), text |-> saves']
            /\ UNCHANGED noticed
  /\ page' = [page EXCEPT ![e] = [version |-> saved'.version, text |-> saves', resets |-> resets]]
  /\ Finish(e)
  /\ UNCHANGED <<default, resets>>

\* A reset deletes the files, without the lock; another reset's deletion is
\* waited for.
ResetBegin(e) ==
  /\ tx[e].pc = "idle"
  /\ resets < MaxResets
  /\ Deleting = {}
  /\ tx' = [tx EXCEPT ![e] = [pc |-> "resetting", version |-> 0, files |-> Existing]]
  /\ UNCHANGED <<saved, files, lock, page, default, noticed, saves, resets>>

\* It deletes the row, once no save holds it, and commits.
ResetEnd(e) ==
  /\ tx[e].pc = "resetting"
  /\ ~RowLocked
  /\ files' = [f \in Files |-> IF f \in tx[e].files THEN "gone" ELSE files[f]]
  /\ saved' = NoTemplate
  /\ resets' = resets + 1
  /\ noticed' = NeverNoticed
  /\ Finish(e)
  /\ UNCHANGED <<page, default, saves>>

\* A request fails or its client goes away: everything is rolled back.
Rollback(e) ==
  /\ tx[e].pc # "idle"
  /\ Finish(e)
  /\ UNCHANGED <<saved, files, page, default, noticed, saves, resets>>

\* (slip: nobody ends a deadlock)
DeadlockStays(e, o) == FALSE /\ UNCHANGED vars

\* A save and a reset wait for each other's rows: the database ends one.
Deadlock(e, o) ==
  /\ tx[e].pc = "saving" /\ tx[o].pc = "resetting"
  /\ Touched(tx[e].files) \cap tx[o].files # {}
  /\ Rollback(e) \/ Rollback(o)

-----------------------------------------------------------------------------
(* Time, and a new build. *)

\* A draft is older than a day.
GrowStale(f) ==
  /\ files[f] = "draft"
  /\ files' = [files EXCEPT ![f] = "stale"]
  /\ UNCHANGED <<saved, lock, tx, page, default, noticed, saves, resets>>

\* The community is told of a default its text is not based on; the row is
\* marked in the same transaction.
Notify(d) ==
  /\ saved # NoTemplate /\ saved.default < d /\ saved.notified < d
  /\ saved' = [saved EXCEPT !.notified = d]
  /\ noticed' = [noticed EXCEPT ![d] = @ + 1]

\* The process is replaced by a build whose default has version d, and tells
\* the community before it serves; that may fail.
Deploy(d) ==
  /\ default' = d
  /\ tx' = [e \in Editors |-> Idle] /\ lock' = Nobody
  /\ Notify(d) \/ UNCHANGED <<saved, noticed>>
  /\ UNCHANGED <<files, page, saves, resets>>

Request(e) ==
  \/ Load(e) \/ UploadEnd(e) \/ SaveEnd(e) \/ ResetBegin(e) \/ ResetEnd(e) \/ Rollback(e)
  \/ \E f \in Files : UploadBegin(e, f) \/ DeleteDraft(e, f)
  \/ \E images \in SUBSET Files : SaveBegin(e, images)
  \/ \E o \in Editors : Deadlock(e, o)

Next == \/ \E e \in Editors : Request(e)
        \/ \E f \in Files : GrowStale(f)
        \/ \E d \in DefaultVersions : Deploy(d)

Spec == Init /\ [][Next]_vars

\* A statement that waits for no row is executed; who waits for a row is
\* served in turn, and a deadlock is found.
Fairness ==
  \A e \in Editors : /\ WF_vars(UploadEnd(e)) /\ SF_vars(SaveEnd(e)) /\ SF_vars(ResetEnd(e))
                     /\ WF_vars(\E o \in Editors : Deadlock(e, o))

FairSpec == Spec /\ Fairness

-----------------------------------------------------------------------------
(* What a customised mail must not lose. *)

\* A version that replaced another one has all its images, committed, in spite
\* of drafts deleted and resets tried at the same time.  (SaveMailTemplate;
\* a first version may lose its images to a reset, which takes no lock.)
UpdatedVersionComplete ==
  saved # NoTemplate /\ saved.version > 1 => saved.images \subseteq Committed

\* The limit of the drafts holds however uploads and saves overlap.
\* (InsertMailTemplateFile: "serialised, so the limits hold".)
DraftLimit == Cardinality(Drafts) <= MaxImages

\* A community is told at most once of each default its text is not based on,
\* also after a build with an older default.  (NotifyMailTemplateDefaultChange)
NoticedOnce == \A d \in DefaultVersions : noticed[d] <= 1

Replaces(e) == saves' > saves /\ tx[e].pc = "saving" /\ saved # NoTemplate

\* A save never replaces a text that its editor has not seen, unless the mail
\* was reset since the page was loaded.  (SaveMailTemplate, expectedVersion)
VersionProtects ==
  [][\A e \in Editors : Replaces(e) /\ page[e].resets = resets => page[e].text = saved.text]_vars

\* MailTemplateVersionError "is returned when a mail template was changed since
\* the caller loaded it": no save replaces a text its editor has not seen.
NoLostUpdate == [][\A e \in Editors : Replaces(e) => page[e].text = saved.text]_vars

\* No request waits for ever for another one.
RequestsEnd == \A e \in Editors : tx[e].pc # "idle" ~> tx[e].pc = "idle"
=============================================================================
