------------------------- MODULE MailTemplateProofs -------------------------
(***************************************************************************)
(* Theorems about the mail texts of a community, for any number of         *)
(* editors, images, saves and resets.                                      *)
(*                                                                         *)
(* The invariant rests on two facts.  TxOK: whoever uploads or saves holds *)
(* the advisory lock, so what a save read (its version, and for a stored   *)
(* version the files) still holds when it writes.  TextsOK: between two    *)
(* resets, a version number stands for one text.                           *)
(***************************************************************************)
EXTENDS MailTemplate, FiniteSetTheorems, TLAPS

TxOK ==
  /\ \A e \in Editors : tx[e].pc \in {"uploading", "saving"} => lock = e
  /\ \A e \in Editors : tx[e].pc = "uploading" => \A f \in tx[e].files : files[f] = "new"
  /\ \A e \in Editors : tx[e].pc = "saving" => /\ tx[e].version = Version
                                               /\ tx[e].version = page[e].version
                                               /\ tx[e].version > 0 => tx[e].files \subseteq Existing
  /\ \A e \in Editors : tx[e].pc = "resetting" => \A f \in tx[e].files : files[f] # "new"

TextsOK ==
  \A e \in Editors : /\ page[e].resets <= resets
                     /\ page[e].resets = resets =>
                          /\ page[e].version <= Version
                          /\ page[e].version = Version => page[e].text = Text

NoticesOK ==
  \A d \in DefaultVersions : /\ noticed[d] <= 1
                             /\ noticed[d] = 1 => saved # NoTemplate /\ d <= saved.notified

MailInv == TypeOK /\ TxOK /\ UpdatedVersionComplete /\ TextsOK /\ NoticesOK

-----------------------------------------------------------------------------
LEMMA VersionFacts ==
  ASSUME TypeOK
  PROVE  /\ Version \in Nat /\ Text \in Nat
         /\ Version = 0 <=> saved = NoTemplate
         /\ saved # NoTemplate => saved \in Templates /\ Version = saved.version /\ Text = saved.text
BY DEF TypeOK, Version, Text, Templates

LEMMA InitInv == Init => MailInv
BY MailTemplateAssumption DEF Init, MailInv, TypeOK, TxOK, UpdatedVersionComplete, TextsOK, NoticesOK,
  Idle, NeverNoticed, Version, Text, Templates

\* What an idle transaction and a released lock look like.
LEMMA FinishType ==
  ASSUME TypeOK, NEW e \in Editors, Finish(e)
  PROVE  /\ tx' \in [Editors -> [pc : {"idle", "uploading", "saving", "resetting"}, version : Nat,
                                 files : SUBSET Files]]
         /\ lock' \in Editors \cup {Nobody}
         /\ tx'[e].pc = "idle"
         /\ \A o \in Editors \ {e} : tx'[o] = tx[o]
         /\ lock # e => lock' = lock
BY DEF TypeOK, Finish, Idle

\* A save stores a version that is well typed.
LEMMA SaveType ==
  ASSUME MailInv, NEW e \in Editors, SaveEnd(e)
  PROVE  /\ saved' \in Templates /\ saved' # NoTemplate
         /\ saved'.version = Version + 1
         /\ saved'.images = tx[e].files
         /\ saved'.text = saves + 1
         /\ noticed' \in [DefaultVersions -> Nat]
         /\ files' \in [Files -> {"new", "draft", "stale", "committed", "gone"}]
<1>1. tx[e].version = Version /\ tx[e].files \in SUBSET Files
  BY DEF MailInv, TxOK, TypeOK, SaveEnd
<1>2. CASE tx[e].version = 0
  BY <1>1, <1>2, MailTemplateAssumption, VersionFacts
     DEF SaveEnd, MailInv, TypeOK, Templates, FirstVersion, NeverNoticed, SavedFiles
<1>3. CASE tx[e].version # 0
  <2>1. saved \in Templates /\ saved.version = Version
    BY <1>1, <1>3, VersionFacts DEF MailInv
  <2>2. Notified(saved.notified) \in DefaultVersions
    BY <2>1 DEF Notified, Templates, MailInv, TypeOK
  <2>3. saved' = [version |-> saved.version + 1, images |-> tx[e].files, default |-> default,
                  notified |-> Notified(saved.notified), text |-> saves + 1] /\ noticed' = noticed
    BY <1>3 DEF SaveEnd
  <2>4. saved' \in Templates
    BY <1>1, <2>1, <2>2, <2>3 DEF Templates, MailInv, TypeOK
  <2>5. files' \in [Files -> {"new", "draft", "stale", "committed", "gone"}]
    BY DEF SaveEnd, SavedFiles, MailInv, TypeOK
  <2> QED BY <2>1, <2>3, <2>4, <2>5, MailTemplateAssumption DEF MailInv, TypeOK
<1> QED BY <1>2, <1>3

-----------------------------------------------------------------------------
(* One lemma per action that writes the row or the files. *)

LEMMA SaveEndStep ==
  ASSUME MailInv, NEW e \in Editors, SaveEnd(e)
  PROVE  MailInv'
<1> USE DEF MailInv
<1>1. TypeOK
  OBVIOUS
<1>2. /\ tx[e].pc = "saving" /\ lock = e
      /\ tx[e].version = Version /\ tx[e].version = page[e].version
      /\ tx[e].version > 0 => tx[e].files \subseteq Existing
  BY DEF TxOK, SaveEnd
<1>3. /\ saved' \in Templates /\ saved' # NoTemplate /\ Version' = Version + 1 /\ Text' = saves + 1
      /\ saved'.version = Version + 1 /\ saved'.images = tx[e].files
  BY SaveType DEF Version, Text
<1>4. /\ tx'[e].pc = "idle" /\ \A o \in Editors \ {e} : tx'[o] = tx[o]
      /\ lock' = Nobody
  BY <1>2, FinishType DEF SaveEnd, Finish
<1>5. page' = [page EXCEPT ![e] = [version |-> Version + 1, text |-> saves + 1, resets |-> resets]]
  BY <1>3 DEF SaveEnd
<1>6. Version \in Nat
  BY <1>1, VersionFacts
<1>7. TypeOK'
  <2>1. page' \in [Editors -> [version : Nat, text : Nat, resets : Nat]]
    BY <1>1, <1>5, <1>6 DEF TypeOK
  <2>2. /\ tx' \in [Editors -> [pc : {"idle", "uploading", "saving", "resetting"}, version : Nat,
                                 files : SUBSET Files]]
        /\ lock' \in Editors \cup {Nobody}
    BY <1>1, FinishType DEF SaveEnd
  <2> QED BY <1>1, <1>3, <2>1, <2>2, SaveType DEF TypeOK, SaveEnd
<1>8. TxOK'
  <2>1. \A o \in Editors : tx'[o].pc \notin {"uploading", "saving"}
    BY <1>2, <1>4 DEF TxOK
  <2>2. \A f \in Files : files'[f] = "new" => files[f] = "new"
    BY DEF SaveEnd, SavedFiles
  <2>3. \A o \in Editors : tx'[o].pc = "resetting" => tx'[o] = tx[o] /\ tx[o].files \subseteq Files
    BY <1>1, <1>4 DEF TypeOK
  <2> QED BY <2>1, <2>2, <2>3 DEF TxOK
<1>9. UpdatedVersionComplete'
  <2>1. ASSUME saved'.version > 1 PROVE tx[e].files \subseteq Committed'
    <3>1. tx[e].files \subseteq Existing
      <4>1. Version > 0
        BY <1>3, <1>6, <2>1
      <4> QED BY <1>2, <4>1
    <3>2. files' = SavedFiles(tx[e].files)
      BY DEF SaveEnd
    <3> QED BY <3>1, <3>2 DEF SavedFiles, Touched, Existing, Committed
  <2> QED BY <1>3, <2>1 DEF UpdatedVersionComplete
<1>10. TextsOK'
  BY <1>1, <1>3, <1>5, <1>6 DEF TextsOK, TypeOK, SaveEnd
<1>11. NoticesOK'
  <2>1. CASE tx[e].version = 0
    BY <1>3, <2>1 DEF NoticesOK, SaveEnd, NeverNoticed
  <2>2. CASE tx[e].version # 0
    <3>1. saved # NoTemplate /\ saved \in Templates
      BY <1>1, <1>2, <2>2, VersionFacts
    <3>2. saved'.notified = Notified(saved.notified) /\ noticed' = noticed
      BY <2>2 DEF SaveEnd
    <3>3. /\ saved.notified \in Nat /\ default \in Nat
          /\ \A d \in DefaultVersions : d \in Nat
      BY <1>1, <3>1, MailTemplateAssumption DEF Templates, TypeOK
    <3>4. \A d \in DefaultVersions : d <= saved.notified => d <= saved'.notified
      BY <3>2, <3>3 DEF Notified
    <3> QED BY <1>3, <3>2, <3>4 DEF NoticesOK
  <2> QED BY <2>1, <2>2
<1> QED BY <1>7, <1>8, <1>9, <1>10, <1>11

LEMMA ResetEndStep ==
  ASSUME MailInv, NEW e \in Editors, ResetEnd(e)
  PROVE  MailInv'
<1> USE DEF MailInv
<1>1. /\ TypeOK /\ saved' = NoTemplate /\ Version' = 0 /\ Text' = 0
      /\ resets' = resets + 1 /\ page' = page
  BY DEF ResetEnd, Version, Text
<1>2. /\ tx'[e].pc = "idle" /\ \A o \in Editors \ {e} : tx'[o] = tx[o]
      /\ lock # e => lock' = lock
  BY FinishType DEF ResetEnd
<1>3. TypeOK'
  BY <1>1, FinishType DEF ResetEnd, TypeOK, NeverNoticed
<1>4. TxOK'
  <2>1. ASSUME NEW o \in Editors, tx'[o].pc \in {"uploading", "saving"}
        PROVE  lock' = o /\ o # e /\ tx'[o] = tx[o]
    BY <1>2, <2>1 DEF TxOK, ResetEnd
  <2>2. ASSUME NEW o \in Editors, tx'[o].pc = "uploading"
        PROVE  \A f \in tx'[o].files : files'[f] = "new"
    <3>1. tx'[o] = tx[o] /\ tx[o].files \subseteq Files
      BY <1>1, <2>1, <2>2 DEF TypeOK
    <3>2. \A f \in tx[o].files : files[f] = "new"
      BY <2>2, <3>1 DEF TxOK
    <3>3. \A f \in tx[o].files : f \notin tx[e].files
      BY <3>2 DEF TxOK, ResetEnd
    <3> QED BY <3>1, <3>2, <3>3 DEF ResetEnd
  <2>3. ASSUME NEW o \in Editors, tx'[o].pc = "saving"
        PROVE  tx'[o].version = 0 /\ page'[o].version = 0
    <3>1. tx'[o] = tx[o]
      BY <2>1, <2>3
    <3>2. tx[o].version \in Nat /\ ~ tx[o].version > 0
      BY <1>1, <2>3, <3>1 DEF ResetEnd, RowLocked, TypeOK
    <3> QED BY <1>1, <2>3, <3>1, <3>2 DEF TxOK
  <2>4. ASSUME NEW o \in Editors, tx'[o].pc = "resetting"
        PROVE  \A f \in tx'[o].files : files'[f] # "new"
    BY <1>1, <1>2, <2>4 DEF TxOK, ResetEnd, TypeOK
  <2> QED BY <1>1, <2>1, <2>2, <2>3, <2>4 DEF TxOK
<1>5. UpdatedVersionComplete'
  BY <1>1 DEF UpdatedVersionComplete
<1>6. TextsOK'
  BY <1>1 DEF TextsOK, TypeOK
<1>7. NoticesOK'
  BY <1>1 DEF NoticesOK, ResetEnd, NeverNoticed
<1> QED BY <1>3, <1>4, <1>5, <1>6, <1>7

-----------------------------------------------------------------------------
(* The actions that leave the row alone. *)

LEMMA LoadStep ==
  ASSUME MailInv, NEW e \in Editors, Load(e)
  PROVE  MailInv'
<1> USE DEF MailInv
<1>1. TypeOK /\ Version \in Nat /\ Text \in Nat
  BY VersionFacts
<1>2. Version' = Version /\ Text' = Text /\ Existing' = Existing /\ Committed' = Committed
  BY DEF Load, Version, Text, Existing, Committed
<1>3. page' = [page EXCEPT ![e] = [version |-> Version, text |-> Text, resets |-> resets]]
  BY DEF Load
<1>4. TypeOK'
  BY <1>1, <1>3 DEF TypeOK, Load
<1>5. TxOK'
  BY <1>1, <1>2, <1>3 DEF TxOK, TypeOK, Load
<1>6. TextsOK'
  BY <1>1, <1>2, <1>3 DEF TextsOK, TypeOK, Load
<1>7. UpdatedVersionComplete' /\ NoticesOK'
  BY <1>2 DEF UpdatedVersionComplete, NoticesOK, Load
<1> QED BY <1>4, <1>5, <1>6, <1>7

\* An action that changes neither row nor pages keeps what is said of them, if
\* committed files stay committed.
LEMMA RowKept ==
  ASSUME MailInv, UNCHANGED <<saved, page, default, noticed, saves, resets>>,
         Committed \subseteq Committed'
  PROVE  /\ UpdatedVersionComplete' /\ TextsOK' /\ NoticesOK'
         /\ Version' = Version
BY DEF MailInv, UpdatedVersionComplete, TextsOK, NoticesOK, Version, Text

LEMMA UploadBeginStep ==
  ASSUME MailInv, NEW e \in Editors, NEW f \in Files, UploadBegin(e, f)
  PROVE  MailInv'
<1> USE DEF MailInv
<1>1. /\ tx' = [tx EXCEPT ![e] = [pc |-> "uploading", version |-> 0, files |-> {f}]]
      /\ lock = Nobody /\ lock' = e /\ files' = files /\ files[f] = "new" /\ page' = page
  BY DEF UploadBegin
<1>2. Existing' = Existing /\ Committed' = Committed
  BY <1>1 DEF Existing, Committed
<1>3. Version' = Version /\ UpdatedVersionComplete' /\ TextsOK' /\ NoticesOK'
  BY <1>2, RowKept DEF UploadBegin
<1>4. TypeOK'
  BY <1>1 DEF TypeOK, UploadBegin
<1>5. TxOK'
  BY <1>1, <1>2, <1>3, MailTemplateAssumption DEF TxOK, TypeOK
<1> QED BY <1>3, <1>4, <1>5

LEMMA SaveBeginStep ==
  ASSUME MailInv, NEW e \in Editors, NEW images \in SUBSET Files, SaveBegin(e, images)
  PROVE  MailInv'
<1> USE DEF MailInv
<1>1. /\ tx' = [tx EXCEPT ![e] = [pc |-> "saving", version |-> Version, files |-> images]]
      /\ lock = Nobody /\ lock' = e /\ files' = files /\ page' = page
      /\ page[e].version = Version /\ images \subseteq Existing
  BY DEF SaveBegin, Current
<1>2. Existing' = Existing /\ Committed' = Committed
  BY <1>1 DEF Existing, Committed
<1>3. Version' = Version /\ UpdatedVersionComplete' /\ TextsOK' /\ NoticesOK'
  BY <1>2, RowKept DEF SaveBegin
<1>4. Version \in Nat
  BY VersionFacts
<1>5. TypeOK'
  BY <1>1, <1>4 DEF TypeOK, SaveBegin
<1>6. TxOK'
  BY <1>1, <1>2, <1>3, MailTemplateAssumption DEF TxOK, TypeOK
<1> QED BY <1>3, <1>5, <1>6

LEMMA ResetBeginStep ==
  ASSUME MailInv, NEW e \in Editors, ResetBegin(e)
  PROVE  MailInv'
<1> USE DEF MailInv
<1>1. /\ tx' = [tx EXCEPT ![e] = [pc |-> "resetting", version |-> 0, files |-> Existing]]
      /\ lock' = lock /\ files' = files /\ page' = page
  BY DEF ResetBegin
<1>2. Existing' = Existing /\ Committed' = Committed /\ Existing \subseteq Files
  BY <1>1 DEF Existing, Committed
<1>3. Version' = Version /\ UpdatedVersionComplete' /\ TextsOK' /\ NoticesOK'
  BY <1>2, RowKept DEF ResetBegin
<1>4. TypeOK'
  BY <1>1, <1>2 DEF TypeOK, ResetBegin
<1>5. \A f \in Existing : files[f] # "new"
  BY DEF Existing
<1>6. TxOK'
  BY <1>1, <1>2, <1>3, <1>5 DEF TxOK, TypeOK
<1> QED BY <1>3, <1>4, <1>6

LEMMA UploadEndStep ==
  ASSUME MailInv, NEW e \in Editors, UploadEnd(e)
  PROVE  MailInv'
<1> USE DEF MailInv
<1>1. /\ TypeOK /\ tx[e].pc = "uploading" /\ page' = page
      /\ files' = [f \in Files |-> IF f \in tx[e].files THEN "draft" ELSE files[f]]
      /\ \A f \in tx[e].files : files[f] = "new"
  BY DEF UploadEnd, TxOK
<1>2. /\ tx'[e].pc = "idle" /\ \A o \in Editors \ {e} : tx'[o] = tx[o]
  BY <1>1, FinishType DEF UploadEnd
<1>3. \A o \in Editors : tx'[o].pc \notin {"uploading", "saving"}
  BY <1>1, <1>2 DEF TxOK
<1>4. Version' = Version /\ UpdatedVersionComplete' /\ TextsOK' /\ NoticesOK'
  <2>1. Committed \subseteq Committed'
    BY <1>1 DEF Committed
  <2> QED BY <2>1, RowKept DEF UploadEnd
<1>5. TypeOK'
  BY <1>1, FinishType DEF TypeOK, UploadEnd
<1>6. TxOK'
  <2>1. \A o \in Editors : tx'[o].pc = "resetting" => tx'[o] = tx[o] /\ tx[o].files \subseteq Files
    BY <1>1, <1>2 DEF TypeOK
  <2>2. \A f \in Files : files[f] # "new" => files'[f] # "new"
    BY <1>1
  <2> QED BY <1>3, <2>1, <2>2 DEF TxOK
<1> QED BY <1>4, <1>5, <1>6

LEMMA DeleteDraftStep ==
  ASSUME MailInv, NEW e \in Editors, NEW f \in Files, DeleteDraft(e, f)
  PROVE  MailInv'
<1> USE DEF MailInv
<1>1. /\ TypeOK /\ lock = Nobody /\ tx' = tx /\ lock' = lock /\ page' = page
      /\ files[f] \in {"draft", "stale"} /\ files' = [files EXCEPT ![f] = "gone"]
  BY DEF DeleteDraft
<1>2. \A o \in Editors : tx[o].pc \notin {"uploading", "saving"}
  BY <1>1, MailTemplateAssumption DEF TxOK
<1>3. Version' = Version /\ UpdatedVersionComplete' /\ TextsOK' /\ NoticesOK'
  <2>1. Committed \subseteq Committed'
    BY <1>1 DEF Committed, TypeOK
  <2> QED BY <2>1, RowKept DEF DeleteDraft
<1>4. TypeOK'
  BY <1>1 DEF TypeOK, DeleteDraft
<1>5. TxOK'
  BY <1>1, <1>2 DEF TxOK, TypeOK
<1> QED BY <1>3, <1>4, <1>5

LEMMA RollbackStep ==
  ASSUME MailInv, NEW e \in Editors, Rollback(e)
  PROVE  MailInv'
<1> USE DEF MailInv
<1>1. /\ TypeOK /\ files' = files /\ page' = page
      /\ tx'[e].pc = "idle" /\ \A o \in Editors \ {e} : tx'[o] = tx[o]
      /\ lock # e => lock' = lock
  BY FinishType DEF Rollback
<1>2. Existing' = Existing /\ Committed' = Committed
  BY <1>1 DEF Existing, Committed
<1>3. Version' = Version /\ UpdatedVersionComplete' /\ TextsOK' /\ NoticesOK'
  BY <1>2, RowKept DEF Rollback
<1>4. TypeOK'
  BY <1>1, FinishType DEF TypeOK, Rollback
<1>5. TxOK'
  BY <1>1, <1>2, <1>3 DEF TxOK
<1> QED BY <1>3, <1>4, <1>5

LEMMA GrowStaleStep ==
  ASSUME MailInv, NEW f \in Files, GrowStale(f)
  PROVE  MailInv'
<1> USE DEF MailInv
<1>1. /\ TypeOK /\ tx' = tx /\ lock' = lock /\ page' = page
      /\ files[f] = "draft" /\ files' = [files EXCEPT ![f] = "stale"]
  BY DEF GrowStale
<1>2. Existing' = Existing /\ Committed' = Committed
  BY <1>1 DEF Existing, Committed, TypeOK
<1>3. Version' = Version /\ UpdatedVersionComplete' /\ TextsOK' /\ NoticesOK'
  BY <1>2, RowKept DEF GrowStale
<1>4. TypeOK'
  BY <1>1 DEF TypeOK, GrowStale
<1>5. TxOK'
  BY <1>1, <1>2, <1>3 DEF TxOK, TypeOK
<1> QED BY <1>3, <1>4, <1>5

LEMMA DeployStep ==
  ASSUME MailInv, NEW d \in DefaultVersions, Deploy(d)
  PROVE  MailInv'
<1> USE DEF MailInv
<1>1. /\ TypeOK /\ files' = files /\ page' = page /\ resets' = resets
      /\ default' = d /\ tx' = [e \in Editors |-> Idle] /\ lock' = Nobody
  BY DEF Deploy
<1>2. TxOK'
  BY <1>1 DEF TxOK, Idle
<1>3. CASE UNCHANGED <<saved, noticed>>
  <2>1. TypeOK'
    BY <1>1, <1>3 DEF TypeOK, Deploy, Idle
  <2>2. UpdatedVersionComplete' /\ TextsOK' /\ NoticesOK'
    BY <1>1, <1>3 DEF UpdatedVersionComplete, Committed, TextsOK, Version, Text, NoticesOK
  <2> QED BY <1>2, <2>1, <2>2
<1>4. CASE Notify(d)
  <2>1. /\ saved \in Templates /\ saved.notified < d
        /\ saved' = [saved EXCEPT !.notified = d] /\ noticed' = [noticed EXCEPT ![d] = @ + 1]
    BY <1>1, <1>4, VersionFacts DEF Notify
  <2>2. /\ saved' \in Templates /\ saved'.version = saved.version
        /\ saved'.text = saved.text /\ saved'.images = saved.images /\ saved'.notified = d
    BY <2>1 DEF Templates
  <2>3. TypeOK'
    BY <1>1, <2>1, <2>2 DEF TypeOK, Deploy, Idle
  <2>4. UpdatedVersionComplete' /\ TextsOK'
    BY <1>1, <1>4, <2>2, MailTemplateAssumption
       DEF UpdatedVersionComplete, Committed, TextsOK, Version, Text, Notify
  <2>5. NoticesOK'
    <3>1. d \in Nat /\ saved.notified \in Nat /\ \A b \in DefaultVersions : b \in Nat /\ noticed[b] \in Nat
      BY <1>1, <2>1, MailTemplateAssumption DEF Templates, TypeOK
    <3>2. noticed[d] = 0
      BY <2>1, <3>1 DEF NoticesOK
    <3>3. saved' # NoTemplate
      BY <2>2, MailTemplateAssumption
    <3>4. \A b \in DefaultVersions : noticed'[b] = IF b = d THEN 1 ELSE noticed[b]
      BY <1>1, <2>1, <3>2 DEF TypeOK
    <3> QED BY <2>1, <2>2, <3>1, <3>3, <3>4 DEF NoticesOK
  <2> QED BY <1>2, <2>3, <2>4, <2>5
<1> QED BY <1>3, <1>4 DEF Deploy

-----------------------------------------------------------------------------
LEMMA NextStep == MailInv /\ [Next]_vars => MailInv'
<1> SUFFICES ASSUME MailInv, [Next]_vars PROVE MailInv'
  OBVIOUS
<1>1. ASSUME NEW e \in Editors, Request(e) PROVE MailInv'
  <2>1. CASE Load(e)
    BY <2>1, LoadStep
  <2>2. CASE UploadEnd(e)
    BY <2>2, UploadEndStep
  <2>3. CASE SaveEnd(e)
    BY <2>3, SaveEndStep
  <2>4. CASE ResetBegin(e)
    BY <2>4, ResetBeginStep
  <2>5. CASE ResetEnd(e)
    BY <2>5, ResetEndStep
  <2>6. CASE Rollback(e)
    BY <2>6, RollbackStep
  <2>7. CASE \E f \in Files : UploadBegin(e, f) \/ DeleteDraft(e, f)
    BY <2>7, UploadBeginStep, DeleteDraftStep
  <2>8. CASE \E images \in SUBSET Files : SaveBegin(e, images)
    BY <2>8, SaveBeginStep
  <2>9. CASE \E o \in Editors : Deadlock(e, o)
    BY <2>9, RollbackStep DEF Deadlock
  <2> QED BY <1>1, <2>1, <2>2, <2>3, <2>4, <2>5, <2>6, <2>7, <2>8, <2>9 DEF Request
<1>2. CASE \E f \in Files : GrowStale(f)
  BY <1>2, GrowStaleStep
<1>3. CASE \E d \in DefaultVersions : Deploy(d)
  BY <1>3, DeployStep
<1>4. CASE UNCHANGED vars
  BY <1>4 DEF vars, MailInv, TypeOK, TxOK, UpdatedVersionComplete, TextsOK, NoticesOK, Version, Text,
              Existing, Committed
<1> QED BY <1>1, <1>2, <1>3, <1>4 DEF Next

LEMMA MailInvariance == Spec => []MailInv
BY InitInv, NextStep, PTL DEF Spec

\* The mail's rows, the lock and the pages are well typed in every state.
THEOREM TypeCorrect == Spec => []TypeOK
BY MailInvariance, PTL DEF MailInv

\* However saves, uploads, deletions of drafts and resets overlap, a version
\* that replaced another one has all its images.
THEOREM ImagesComplete == Spec => []UpdatedVersionComplete
BY MailInvariance, PTL DEF MailInv

\* Whatever builds follow each other, a community is told of a default once.
THEOREM OneNotice == Spec => []NoticedOnce
<1>1. MailInv => NoticedOnce
  BY DEF MailInv, NoticesOK, NoticedOnce
<1> QED BY <1>1, MailInvariance, PTL

\* Without a reset in between, the version an editor loaded protects every text
\* stored since.
THEOREM TextsProtected == Spec => VersionProtects
<1>1. ASSUME MailInv, [Next]_vars
      PROVE  [\A e \in Editors : Replaces(e) /\ page[e].resets = resets => page[e].text = saved.text]_vars
  <2> SUFFICES ASSUME NEW e \in Editors, Replaces(e), page[e].resets = resets
               PROVE  page[e].text = saved.text
    OBVIOUS
  <2>1. tx[e].version = Version /\ tx[e].version = page[e].version
    BY <1>1 DEF MailInv, TxOK, Replaces
  <2>2. saved # NoTemplate /\ Text = saved.text
    BY DEF Replaces, Text
  <2> QED BY <1>1, <2>1, <2>2 DEF MailInv, TextsOK
<1> QED BY <1>1, MailInvariance, PTL DEF Spec, VersionProtects

-----------------------------------------------------------------------------
(* The limit of the drafts: who uploads found room, and holds the lock. *)

RoomOK ==
  \A e \in Editors : tx[e].pc = "uploading" =>
     (\E f \in Files : tx[e].files = {f}) /\ Cardinality(Drafts) < MaxImages

DraftInv == DraftLimit /\ RoomOK

LEMMA DraftsCounted ==
  ASSUME NEW S \in SUBSET Files, NEW T \in SUBSET S
  PROVE  IsFiniteSet(S) /\ Cardinality(S) \in Nat /\ Cardinality(T) \in Nat /\ Cardinality(T) <= Cardinality(S)
<1>1. IsFiniteSet(S)
  BY FS_Subset, MailTemplateAssumption
<1> QED BY <1>1, FS_Subset, FS_CardinalityType

LEMMA DraftsShrink ==
  ASSUME DraftInv, Drafts' \subseteq Drafts,
         \A e \in Editors : tx'[e].pc = "uploading" => tx'[e] = tx[e]
  PROVE  DraftInv'
<1>1. /\ Drafts \in SUBSET Files /\ Drafts' \in SUBSET Drafts /\ MaxImages \in Nat
  BY MailTemplateAssumption DEF Drafts
<1>2. /\ Cardinality(Drafts) \in Nat /\ Cardinality(Drafts') \in Nat
      /\ Cardinality(Drafts') <= Cardinality(Drafts)
  BY <1>1, DraftsCounted
<1> QED BY <1>1, <1>2 DEF DraftInv, DraftLimit, RoomOK

LEMMA DraftStep == MailInv /\ DraftInv /\ [Next]_vars => DraftInv'
<1> SUFFICES ASSUME MailInv, DraftInv, [Next]_vars PROVE DraftInv'
  OBVIOUS
<1> USE DEF MailInv
<1>1. ASSUME NEW e \in Editors, NEW f \in Files, UploadBegin(e, f) PROVE DraftInv'
  <2>1. /\ Drafts' = Drafts /\ Cardinality(Drafts) < MaxImages
        /\ tx' = [tx EXCEPT ![e] = [pc |-> "uploading", version |-> 0, files |-> {f}]]
    BY <1>1 DEF UploadBegin, Drafts
  <2> QED BY <2>1 DEF DraftInv, DraftLimit, RoomOK, TypeOK
<1>2. ASSUME NEW e \in Editors, UploadEnd(e) PROVE DraftInv'
  <2>1. PICK f \in Files : tx[e].files = {f}
    BY <1>2 DEF UploadEnd, DraftInv, RoomOK
  <2>2. Cardinality(Drafts) < MaxImages
    BY <1>2 DEF UploadEnd, DraftInv, RoomOK
  <2>3. f \notin Drafts /\ Drafts' = Drafts \cup {f}
    BY <1>2, <2>1 DEF UploadEnd, TxOK, Drafts
  <2>4. IsFiniteSet(Drafts) /\ Cardinality(Drafts) \in Nat
    BY DraftsCounted DEF Drafts
  <2>5. Cardinality(Drafts') <= MaxImages
    <3>1. Cardinality(Drafts \cup {f}) = Cardinality(Drafts) + 1
      BY <2>3, <2>4, FS_AddElement
    <3>2. Cardinality(Drafts') = Cardinality(Drafts) + 1
      BY <2>3, <3>1
    <3> QED BY <2>2, <2>4, <3>2, MailTemplateAssumption
  <2>6. \A o \in Editors : tx'[o].pc # "uploading"
    BY <1>2, FinishType DEF UploadEnd, TxOK
  <2> QED BY <2>5, <2>6 DEF DraftInv, DraftLimit, RoomOK
<1>3. ASSUME NEW e \in Editors, \/ Load(e) \/ ResetBegin(e) \/ ResetEnd(e) \/ Rollback(e)
                                \/ \E f \in Files : DeleteDraft(e, f)
                                \/ \E images \in SUBSET Files : SaveBegin(e, images)
                                \/ SaveEnd(e)
      PROVE  DraftInv'
  <2>1. Drafts' \subseteq Drafts
    BY <1>3 DEF Drafts, Load, ResetBegin, ResetEnd, Rollback, DeleteDraft, SaveBegin, SaveEnd, SavedFiles,
                TypeOK
  <2>2. \A o \in Editors : tx'[o].pc = "uploading" => tx'[o] = tx[o]
    BY <1>3 DEF Load, ResetBegin, ResetEnd, Rollback, DeleteDraft, SaveBegin, SaveEnd, Finish, Idle, TypeOK
  <2> QED BY <2>1, <2>2, DraftsShrink
<1>4. ASSUME NEW f \in Files, GrowStale(f) PROVE DraftInv'
  <2>1. Drafts' \subseteq Drafts /\ tx' = tx
    BY <1>4 DEF GrowStale, Drafts, TypeOK
  <2> QED BY <2>1, DraftsShrink
<1>5. ASSUME NEW d \in DefaultVersions, Deploy(d) PROVE DraftInv'
  <2>1. Drafts' \subseteq Drafts /\ \A o \in Editors : tx'[o].pc = "idle"
    BY <1>5 DEF Deploy, Drafts, Idle
  <2> QED BY <2>1, DraftsShrink
<1>6. CASE UNCHANGED vars
  BY <1>6 DEF vars, DraftInv, DraftLimit, RoomOK, Drafts
<1>7. ASSUME NEW e \in Editors, Request(e) PROVE DraftInv'
  BY <1>1, <1>2, <1>3, <1>7 DEF Request, Deadlock
<1> QED BY <1>4, <1>5, <1>6, <1>7 DEF Next

\* Overlapping uploads never pass the limit of the drafts.
THEOREM DraftsLimited == Spec => []DraftLimit
<1>1. Init => DraftInv
  <2> SUFFICES ASSUME Init PROVE DraftInv
    OBVIOUS
  <2>1. Drafts = {}
    BY DEF Init, Drafts
  <2>2. Cardinality(Drafts) = 0
    BY <2>1, FS_EmptySet
  <2> QED BY <2>2, MailTemplateAssumption DEF DraftInv, DraftLimit, RoomOK, Init, Idle
<1> QED BY <1>1, DraftStep, MailInvariance, PTL DEF Spec, DraftInv
=============================================================================
