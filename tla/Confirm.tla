-------------------------------- MODULE Confirm --------------------------------
(***************************************************************************)
(* A confirmed action of the admin panel: the question's state, held by    *)
(* hooks/useConfirmedAction.ts, and the native modal that shows it         *)
(* (components/ConfirmDialog.tsx).  The platform may close the modal on    *)
(* its own (a second Escape), and tells of every closing in an event that  *)
(* comes later, though before the next click.                              *)
(***************************************************************************)
EXTENDS Naturals

VARIABLES
  question,      (* none, open, busy or failed.                              *)
  modal,         (* Whether the platform shows the dialog.                   *)
  events,        (* Close events on their way.                               *)
  opener,        (* Whether the button that opened it is on the page.        *)
  focus          (* Where the focus is.                                      *)

vars == <<question, modal, events, opener, focus>>

Focuses == {"opener", "cancel", "inside", "fallback", "nowhere"}

\* The platform returns the focus to the opener, if it is there.
Returned(there) == IF there THEN "opener" ELSE "nowhere"

Init == question = "none" /\ modal = FALSE /\ events = 0 /\ opener = TRUE /\ focus = "opener"

\* open(target), and the effect that shows the dialog, on Cancel.
open ==
  /\ question = "none" /\ events = 0 /\ opener
  /\ question' = "open" /\ modal' = TRUE /\ focus' = "cancel"
  /\ UNCHANGED <<events, opener>>

\* A row's button comes with the next row.
Row ==
  /\ question = "none" /\ events = 0 /\ ~opener /\ opener' = TRUE /\ focus' = "opener"
  /\ UNCHANGED <<question, modal, events>>

\* The effect of a question that is no longer asked.
Closes(there) ==
  IF modal THEN modal' = FALSE /\ events' = events + 1 /\ focus' = Returned(there)
  ELSE UNCHANGED <<modal, events, focus>>

\* Cancel, or Escape, which the parent may refuse.
onCancel ==
  /\ modal /\ question \in {"open", "failed"}
  /\ question' = "none" /\ Closes(opener) /\ UNCHANGED opener

\* A second Escape: the platform closes the dialog without asking.
Escape ==
  /\ modal /\ modal' = FALSE /\ events' = events + 1 /\ focus' = Returned(opener)
  /\ UNCHANGED <<question, opener>>

confirm ==
  /\ modal /\ question \in {"open", "failed"}
  /\ question' = "busy" /\ focus' = "inside" /\ UNCHANGED <<modal, events, opener>>

\* The request is answered: what was asked about goes, and its button with it; or it fails.
Done ==
  /\ question = "busy" /\ question' = "none"
  /\ opener' = FALSE /\ Closes(FALSE)
Failed ==
  /\ question = "busy" /\ question' = "failed" /\ UNCHANGED <<modal, events, opener, focus>>

\* Mutant: a dialog closed by the platform in mid-request stays closed.
onCloseForGood ==
  /\ events > 0 /\ events' = events - 1
  /\ IF question = "busy" THEN UNCHANGED <<question, modal, focus>>
     ELSE /\ focus' = IF opener THEN "opener" ELSE "fallback"
          /\ question' = "none" /\ UNCHANGED modal
  /\ UNCHANGED opener

\* onClose: in mid-request the dialog comes back; otherwise the focus goes to the
\* opener or its stand-in, and a question still open is cancelled.
onClose ==
  /\ events > 0 /\ events' = events - 1
  /\ IF question = "busy" THEN modal' = TRUE /\ focus' = "cancel" /\ UNCHANGED question
     ELSE /\ focus' = IF opener THEN "opener" ELSE "fallback"
          /\ question' = "none" /\ UNCHANGED modal
  /\ UNCHANGED opener

Next ==
  \/ open \/ Row \/ onCancel \/ Escape \/ confirm
  \/ Done \/ Failed \/ onClose

Spec == Init /\ [][Next]_vars

TypeOK ==
  /\ question \in {"none", "open", "busy", "failed"} /\ modal \in BOOLEAN /\ events \in 0..1
  /\ opener \in BOOLEAN /\ focus \in Focuses

\* The question and the platform's dialog never disagree for longer than a close
\* event takes, and then the focus is inside the dialog or back on the page,
\* never nowhere.
DialogSettles == events = 0 => (modal <=> question # "none") /\ focus # "nowhere"
===============================================================================
