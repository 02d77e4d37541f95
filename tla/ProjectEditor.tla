---------------------------- MODULE ProjectEditor ----------------------------
(***************************************************************************)
(* One browser tab that edits a project                                    *)
(* (src/frontend/src/admin/editor/ContentEditorForm.tsx, EditorLoader.tsx, *)
(* draftStore.ts), over the server's row of ProjectRow, while other tabs,  *)
(* clients and the seed command change that row.                           *)
(*                                                                         *)
(* A save, an image upload, an image removal and a load are each in flight *)
(* on their own: what the server does, what it reads for its answer after  *)
(* its commit, and the answer's arrival are separate actions.  A request   *)
(* the tab abandons goes on at the server as one of the others'.           *)
(***************************************************************************)
EXTENDS ProjectRow

CONSTANTS
  Drafts,        (* What the form can hold; the draft of a row is a content. *)
  ToPayload,     (* ToPayload[d]: the content draft d is sent as.            *)
  tab            (* The tab's own upload.                                    *)

ASSUME EditorAssumption ==
  /\ Contents \subseteq Drafts
  /\ None \notin Drafts
  /\ ToPayload \in [Drafts -> Contents]
  /\ \A c \in Contents : ToPayload[c] = c
  /\ tab \in Uploads

VARIABLES
  at,            (* "away", "loading" or "form".                             *)
  item,          (* EditorLoader's row: what the form is compared with.      *)
  draft,         (* The form's draft.                                        *)
  restored,      (* The notice of a kept draft: "no", "fresh" or "stale".    *)
  kept,          (* sessionStorage's draft of this row.                      *)
  conflict,      (* A refused save's box offers to load the latest version.  *)
  load,          (* The list request, of the page or of "load latest".       *)
  save,          (* The save request.                                        *)
  answer,        (* The upload's answer, once the server has stored it.      *)
  removal,       (* The removal request.                                     *)
  origin,        (* History: the version the draft was begun on, knowingly.  *)
  typed,         (* History: typing that was neither saved nor dropped.      *)
  foreign,       (* History: row's version is not of a save answered here.   *)
  slipped        (* History: the form took a version it had not shown for    *)
                 (* the draft's: a save answered with a later save's row, or *)
                 (* a draft restored twice.                                  *)

loadVars  == <<load>>
imageVars == <<answer, removal>>
formVars  == <<at, item, draft, restored, kept, conflict, origin, typed, slipped>>

vars == <<rowVars, formVars, loadVars, save, imageVars, foreign>>

NoKept   == [draft |-> None, base |-> 0, origin |-> 0]
NoSave   == [at |-> "none", sent |-> None, expected |-> 0, made |-> 0, got |-> Missing]
NoLoad   == [at |-> "none", got |-> Missing]
NoAnswer == [at |-> "none", image |-> NoImage]

Init ==
  /\ RowInit
  /\ at = "away"
  /\ item = Missing
  /\ draft = None /\ restored = "no" /\ kept = NoKept /\ conflict = FALSE
  /\ load = NoLoad /\ save = NoSave /\ answer = NoAnswer /\ removal = "none"
  /\ origin = 0 /\ typed = None /\ foreign = FALSE /\ slipped = FALSE

\* An answer shows the image its row points at, if that file is still there
\* when it is looked up.
WithImage(got) == [got EXCEPT !.image = IF @ \in files THEN @ ELSE NoImage]

\* The effect that keeps the draft while it differs from the row.
Keep(d, it, from) ==
  kept' = IF d # it.content
          THEN [draft |-> d, base |-> it.version, origin |-> from]
          ELSE NoKept

-------------------------------------------------------------------------------
(* Loading and leaving                                                      *)

Open ==
  /\ at = "away"
  /\ at' = "loading"
  /\ load' = [NoLoad EXCEPT !.at = "asked"]
  /\ UNCHANGED <<rowVars, item, draft, restored, kept, conflict, origin, typed,
                 slipped, save, imageVars, foreign>>

\* list_items reads the rows, then their images.
LoadRead ==
  /\ load.at = "asked"
  /\ load' = [at |-> "read", got |-> row]
  /\ UNCHANGED <<rowVars, formVars, save, imageVars, foreign>>

LoadAnswer ==
  /\ load.at = "read"
  /\ load' = [at |-> "answered", got |-> WithImage(load.got)]
  /\ UNCHANGED <<rowVars, formVars, save, imageVars, foreign>>

\* The form opens on the loaded row: a kept draft that differs from it comes
\* back, with a notice that says whether the row was saved since the draft's
\* base.  Then the draft is kept again, on the version just loaded.
Mount ==
  /\ at = "loading" /\ load.at = "answered"
  /\ load' = NoLoad
  /\ IF load.got.content = None
     THEN at' = "away" /\ UNCHANGED <<item, draft, restored, kept, origin, typed, slipped>>
     ELSE LET back == kept.draft # None /\ kept.draft # load.got.content IN
          /\ at' = "form"
          /\ item' = load.got
          /\ draft' = IF back THEN kept.draft ELSE load.got.content
          /\ restored' = IF ~back THEN "no"
                         ELSE IF kept.base = load.got.version THEN "fresh" ELSE "stale"
          /\ origin' = IF back THEN kept.origin ELSE load.got.version
          /\ slipped' = (back /\ kept.base = load.got.version /\ kept.origin # load.got.version)
          /\ Keep(draft', load.got, origin')
          /\ typed' = IF back THEN typed ELSE None
  /\ conflict' = FALSE
  /\ UNCHANGED <<rowVars, save, imageVars, foreign>>

\* What is left of the form, and of its requests, when it goes.
Gone ==
  /\ at' = "away"
  /\ item' = Missing
  /\ draft' = None /\ restored' = "no" /\ conflict' = FALSE
  /\ load' = NoLoad /\ save' = NoSave /\ answer' = NoAnswer /\ removal' = "none"
  /\ uploads' = [uploads EXCEPT ![tab] = "idle"]
  /\ origin' = 0 /\ slipped' = FALSE
  /\ UNCHANGED <<row, files, images, version>>

\* A reload, Back or Forward, an expired session: the kept draft stays.
GoAway ==
  /\ at # "away"
  /\ Gone
  /\ foreign' = (foreign \/ save.at \in {"committed", "read", "answered"})
  /\ UNCHANGED <<kept, typed>>

\* No dialog with a request on its way holds the page.
Free == at = "form" /\ load.at = "none" /\ removal = "none"

\* Leaving by a link or a sign-out, the dialog about unsaved changes answered.
Discard ==
  /\ Free
  /\ Gone
  /\ foreign' = (foreign \/ save.at \in {"committed", "read", "answered"})
  /\ kept' = NoKept /\ typed' = None

-------------------------------------------------------------------------------
(* Editing and saving                                                       *)

Type(d) ==
  /\ Free /\ d # draft
  /\ draft' = d
  /\ Keep(d, item, origin)
  /\ typed' = IF d = item.content THEN None ELSE d
  /\ UNCHANGED <<rowVars, at, item, restored, conflict, origin, slipped, loadVars,
                 save, imageVars, foreign>>

\* discardRestored
DropRestored ==
  /\ Free /\ restored # "no"
  /\ draft' = item.content /\ restored' = "no" /\ conflict' = FALSE
  /\ kept' = NoKept /\ typed' = None
  /\ origin' = item.version /\ slipped' = FALSE
  /\ UNCHANGED <<rowVars, at, item, loadVars, save, imageVars, foreign>>

\* validateDraft: a placeholder has no image.
Valid == ~(Placeholder(ToPayload[draft]) /\ item.image # NoImage)

\* onSubmit of an invalid draft: its errors replace the ones on screen.
SubmitInvalid ==
  /\ Free /\ save.at = "none" /\ ~Valid
  /\ conflict' = FALSE
  /\ UNCHANGED <<rowVars, at, item, draft, restored, kept, origin, typed, slipped,
                 loadVars, save, imageVars, foreign>>

\* onSubmit of a valid one: the draft as it is now, and the version of item.
Submit ==
  /\ Free /\ save.at = "none" /\ Valid
  /\ save' = [NoSave EXCEPT !.at = "sent", !.sent = draft, !.expected = item.version]
  /\ conflict' = FALSE
  /\ UNCHANGED <<rowVars, at, item, draft, restored, kept, origin, typed, slipped,
                 loadVars, imageVars, foreign>>

\* The server saves; a content already there is no change.
SaveCommit ==
  /\ save.at = "sent"
  /\ Update(ToPayload[save.sent], save.expected)
  /\ save' = [save EXCEPT !.at = "committed", !.made = row'.version]
  /\ foreign' = (foreign /\ row'.version = row.version)
  /\ UNCHANGED <<formVars, loadVars, imageVars>>

\* The refresh after the commit reads the row as it is by then, then its image
\* is looked up.
SaveRead ==
  /\ save.at = "committed" /\ Exists
  /\ save' = [save EXCEPT !.at = "read", !.got = row]
  /\ UNCHANGED <<rowVars, formVars, loadVars, imageVars, foreign>>

SaveAnswer ==
  /\ save.at = "read"
  /\ save' = [save EXCEPT !.at = "answered", !.got = WithImage(@)]
  /\ UNCHANGED <<rowVars, formVars, loadVars, imageVars, foreign>>

\* Mutant: a saved form is always left.
SaveDoneAlways ==
  /\ save.at = "answered"
  /\ Gone
  /\ kept' = NoKept
  /\ typed' = IF draft = save.sent \/ draft = save.got.content THEN None ELSE typed
  /\ UNCHANGED foreign

\* The answer when nothing was typed since, or only what was saved: the form is
\* left for the list.
SaveDone ==
  /\ save.at = "answered"
  /\ draft = save.sent \/ draft = save.got.content
  /\ Gone
  /\ kept' = NoKept /\ typed' = None
  /\ UNCHANGED foreign

\* keepNewerChanges: the user typed on, and the form goes on from the answer.
SaveKeepsNewer ==
  /\ save.at = "answered"
  /\ draft # save.sent /\ draft # save.got.content
  /\ item' = save.got
  /\ restored' = "no"
  /\ origin' = save.made
  /\ slipped' = (save.got.version # save.made)
  /\ save' = NoSave
  /\ Keep(draft, save.got, origin')
  /\ UNCHANGED <<rowVars, at, draft, conflict, typed, loadVars, imageVars, foreign>>

\* 412: the draft stays, and the latest version can be loaded.
SaveRefused ==
  /\ save.at = "sent" /\ Refused(save.expected)
  /\ save' = NoSave
  /\ conflict' = TRUE
  /\ UNCHANGED <<rowVars, at, item, draft, restored, kept, origin, typed, slipped,
                 loadVars, imageVars, foreign>>

\* Any other failure, before or after the commit; the draft stays.
SaveFails ==
  /\ save.at # "none"
  /\ foreign' = (foreign \/ save.at # "sent")
  /\ save' = NoSave
  /\ UNCHANGED <<rowVars, formVars, loadVars, imageVars>>

\* "Load latest version", confirmed in its dialog.
AskLatest ==
  /\ Free /\ conflict
  /\ load' = [NoLoad EXCEPT !.at = "asked"]
  /\ UNCHANGED <<rowVars, formVars, save, imageVars, foreign>>

\* Mutant: a deleted row is taken over too.
LatestLandsGone ==
  /\ at = "form" /\ load.at = "answered"
  /\ load' = NoLoad /\ conflict' = FALSE
  /\ item' = load.got
  /\ draft' = load.got.content /\ restored' = "no"
  /\ kept' = NoKept /\ typed' = None
  /\ origin' = load.got.version /\ slipped' = FALSE
  /\ UNCHANGED <<rowVars, at, save, imageVars, foreign>>

\* The latest row replaces the form; a deleted one leaves it as it is.
LatestLands ==
  /\ at = "form" /\ load.at = "answered"
  /\ load' = NoLoad /\ conflict' = FALSE
  /\ IF load.got.content = None
     THEN UNCHANGED <<item, draft, restored, kept, origin, typed, slipped>>
     ELSE /\ item' = load.got
          /\ draft' = load.got.content /\ restored' = "no"
          /\ kept' = NoKept /\ typed' = None
          /\ origin' = load.got.version /\ slipped' = FALSE
  /\ UNCHANGED <<rowVars, at, save, imageVars, foreign>>

\* The request for the latest fails, and its dialog is closed.
LatestFails ==
  /\ at = "form" /\ load.at # "none"
  /\ load' = NoLoad
  /\ UNCHANGED <<rowVars, formVars, save, imageVars, foreign>>

-------------------------------------------------------------------------------
(* The cover image                                                          *)

\* A pick: one upload at a time, and none for a stored placeholder.
Upload ==
  /\ Free /\ answer.at = "none"
  /\ ~Placeholder(item.content)
  /\ UploadRead(tab)
  /\ UNCHANGED <<formVars, loadVars, save, imageVars, foreign>>

UploadStored ==
  /\ UploadWrite(tab)
  /\ answer' = [at |-> "stored", image |-> images']
  /\ UNCHANGED <<formVars, loadVars, save, removal, foreign>>

\* The refresh after the upload's commit: the answer knows the new image only,
\* so a project that points elsewhere by now is answered without one.
UploadAnswer ==
  /\ answer.at = "stored" /\ Exists
  /\ answer' = [at |-> "answered",
                image |-> IF row.image = answer.image THEN row.image ELSE NoImage]
  /\ UNCHANGED <<rowVars, formVars, loadVars, save, removal, foreign>>

\* Mutant: the whole answer replaces the row.
UploadLandsWhole ==
  /\ answer.at = "answered"
  /\ answer' = NoAnswer
  /\ item' = [row EXCEPT !.image = answer.image]
  /\ Keep(draft, item', origin)
  /\ UNCHANGED <<rowVars, at, draft, restored, conflict, origin, typed, slipped,
                 loadVars, save, removal, foreign>>

\* onImageChange: only the image, in the row as it is now.
UploadLands ==
  /\ answer.at = "answered"
  /\ answer' = NoAnswer
  /\ item' = [item EXCEPT !.image = answer.image]
  /\ UNCHANGED <<rowVars, at, draft, restored, kept, conflict, origin, typed, slipped,
                 loadVars, save, removal, foreign>>

UploadEndsBadly ==
  \/ /\ UploadFails(tab)
     /\ UNCHANGED <<formVars, loadVars, save, imageVars, foreign>>
  \/ /\ answer.at # "none"
     /\ answer' = NoAnswer
     /\ UNCHANGED <<rowVars, formVars, loadVars, save, removal, foreign>>

\* The removal, confirmed in its dialog; its answer shows no image.
AskRemoval ==
  /\ Free /\ item.image # NoImage
  /\ removal' = "asked"
  /\ UNCHANGED <<rowVars, formVars, loadVars, save, answer, foreign>>

RemovalCommit ==
  /\ removal = "asked"
  /\ Remove
  /\ removal' = "answered"
  /\ UNCHANGED <<formVars, loadVars, save, answer, foreign>>

RemovalLands ==
  /\ removal = "answered"
  /\ removal' = "none"
  /\ item' = [item EXCEPT !.image = NoImage]
  /\ UNCHANGED <<rowVars, at, draft, restored, kept, conflict, origin, typed, slipped,
                 loadVars, save, answer, foreign>>

RemovalFails ==
  /\ removal # "none"
  /\ removal' = "none"
  /\ UNCHANGED <<rowVars, formVars, loadVars, save, answer, foreign>>

-------------------------------------------------------------------------------

\* Everyone else: other tabs and clients, abandoned requests, the seed command.
OthersChange ==
  /\ \E c \in Contents : Create(c) \/ Update(c, row.version) \/ Seed(c)
  /\ foreign' = (foreign \/ row'.version # row.version)

Others ==
  /\ \/ OthersChange
     \/ /\ Delete \/ Remove \/ \E u \in Uploads \ {tab} : UploadRead(u) \/ UploadWrite(u) \/ UploadFails(u)
        /\ UNCHANGED foreign
  /\ UNCHANGED <<formVars, loadVars, save, imageVars>>

Loading == Open \/ LoadRead \/ LoadAnswer \/ Mount \/ GoAway \/ Discard

Saving ==
  \/ Submit \/ SubmitInvalid \/ SaveCommit \/ SaveRead \/ SaveAnswer
  \/ SaveDone \/ SaveKeepsNewer \/ SaveRefused \/ SaveFails
  \/ AskLatest \/ LatestLands \/ LatestFails

Imaging ==
  \/ Upload \/ UploadStored \/ UploadAnswer \/ UploadLands \/ UploadEndsBadly
  \/ AskRemoval \/ RemovalCommit \/ RemovalLands \/ RemovalFails

Next ==
  \/ Loading \/ Saving \/ Imaging \/ Others
  \/ DropRestored \/ \E d \in Drafts : Type(d)

Spec == Init /\ [][Next]_vars

-------------------------------------------------------------------------------
(* Properties                                                               *)

\* Every variable has its type, and what is held of a row was the row's.
TypeOK ==
  /\ RowTypeOK
  /\ at \in {"away", "loading", "form"}
  /\ item \in RowType /\ draft \in Drafts \union {None}
  /\ restored \in {"no", "fresh", "stale"}
  /\ kept \in [draft : Drafts \union {None}, base : Nat, origin : Nat]
  /\ conflict \in BOOLEAN
  /\ load \in [at : {"none", "asked", "read", "answered"}, got : RowType]
  /\ save \in [at : {"none", "sent", "committed", "read", "answered"},
               sent : Drafts \union {None}, expected : Nat, made : Nat, got : RowType]
  /\ answer \in [at : {"none", "stored", "answered"}, image : Nat]
  /\ removal \in {"none", "asked", "answered"}
  /\ origin \in Nat /\ typed \in Drafts \union {None}
  /\ foreign \in BOOLEAN /\ slipped \in BOOLEAN
  /\ at = "form" => item.content # None /\ draft # None

\* A save replaces the version its draft was begun on, or the user was told that
\* the row had been saved elsewhere: an image answer, a newer load, an answer
\* that outlives typing never make the form match a version it has not shown.
\* (Except where the form slips: see UnseenIsRefused.)
SaveReplacesSeen ==
  [][SaveCommit /\ ~slipped => origin = row.version \/ restored = "stale"]_vars

\* What the panel's documentation promises: an edit carries the version it was
\* loaded from, then of each save it stays on, so that a change saved elsewhere
\* meanwhile is refused.
UnseenIsRefused ==
  [][SaveCommit => origin = row.version \/ restored = "stale"]_vars

\* Typing is never lost: until it is saved or the user drops it, it is in the
\* form or kept for it, through saves, refusals, reloads and expired sessions.
TypingSurvives ==
  typed # None => (at = "form" /\ draft = typed) \/ kept.draft = typed

\* A save is refused as changed elsewhere only if it was: by somebody else, or
\* by a save of this tab that it had no answer to.  Image changes in the middle
\* of an edit never make it fail.  A save whose answer was lost counts as foreign: a
\* retry of it is refused.
NoSelfConflict == [][SaveRefused => foreign]_vars

=============================================================================
