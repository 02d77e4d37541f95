-------------------------------- MODULE Dialogs --------------------------------
(***************************************************************************)
(* The public page's two modal dialogs, the phone menu (MobileMenu) and    *)
(* the contact form (ContactDialog), against the Lenis instance they stop  *)
(* and start and the focus they move.  A native dialog closes at once, by  *)
(* its button, Escape, a link, a wider window or its removal, and its      *)
(* close event comes in a later task, before any later click.              *)
(***************************************************************************)

VARIABLES
  lenis,         (* none, free, stopped; fresh: made while a dialog is open. *)
  open,          (* The dialog that is open, or none: each makes the rest inert. *)
  closing,       (* Dialogs whose close event is queued.                     *)
  expanded,      (* What React was told is open (aria-expanded).             *)
  draft,         (* The contact form is mounted, as it stays once opened.    *)
  desktop,       (* The window has the desktop layout.                       *)
  home,          (* The page below is the home page, with its form.          *)
  frame,         (* Links whose frame, or scroll, is still to come.          *)
  focus          (* Where the focus is.                                      *)

vars == <<lenis, open, closing, expanded, draft, desktop, home, frame, focus>>
layout == <<desktop, home>>

Modals == {"menu", "form"}
Focuses == {"page", "menu", "form", "button", "send", "nav", "heading"}

\* Lenis.stop and Lenis.start, through the ref to the instance there is.
stop == IF lenis = "none" THEN "none" ELSE "stopped"
start == IF lenis = "none" THEN "none" ELSE "free"

\* What had the focus when a dialog was opened, to which closing it returns:
\* the menu button is not displayed in the desktop layout.
Opener(modal, wide) == IF modal = "form" THEN "send" ELSE IF wide THEN "page" ELSE "button"

Init ==
  /\ lenis = "none" /\ open = "none" /\ closing = {} /\ expanded = {}
  /\ draft = FALSE /\ desktop \in BOOLEAN /\ home \in BOOLEAN
  /\ frame = "none" /\ focus = "page"

\* showModal, then Lenis, whose glide ends with it.
Show(modal) ==
  /\ open = "none" /\ closing = {}
  /\ open' = modal /\ lenis' = stop /\ expanded' = expanded \cup {modal} /\ focus' = modal
  /\ frame' = IF frame = "glide" THEN "none" ELSE frame
  /\ UNCHANGED <<closing, layout>>

openMenu == ~desktop /\ Show("menu") /\ UNCHANGED draft
show == home /\ Show("form") /\ draft' = TRUE

\* dialog.close(): the focus returns to the opener, and the event is queued.
Close(modal, wide) ==
  /\ open' = "none" /\ closing' = closing \cup {modal}
  /\ focus' = Opener(modal, wide)

\* Escape, and the contact form's own button: Lenis waits for the event.
Dismiss ==
  /\ open # "none" /\ Close(open, desktop)
  /\ UNCHANGED <<lenis, expanded, draft, layout, frame>>

\* closeMenu: Lenis starts at once, so that a link can scroll.
closeMenu(wide) ==
  /\ open = "menu" /\ Close("menu", wide)
  /\ lenis' = start /\ expanded' = expanded \ {"menu"}

CloseButton == closeMenu(desktop) /\ UNCHANGED <<draft, layout, frame>>

\* A link of the menu, which scrolls in the next frame.
handleClick == home /\ closeMenu(desktop) /\ frame' = "next" /\ UNCHANGED <<draft, layout>>

\* A heading behind a modal dialog is inert and does not take the focus.
Headed == IF open = "none" THEN "heading" ELSE focus

\* The frame: scrollToSection forces Lenis to glide, and focuses the heading when
\* it is there; without Lenis the heading is focused at once.
scrollToSection ==
  /\ frame = "next"
  /\ IF lenis = "none" THEN frame' = "none" /\ focus' = Headed
     ELSE frame' = "glide" /\ UNCHANGED focus
  /\ UNCHANGED <<lenis, open, closing, expanded, draft, layout>>

\* The glide ends, or the reader's own scrolling ends it without the heading.
focusHeading ==
  /\ frame = "glide" /\ frame' = "none" /\ focus' \in {Headed, focus}
  /\ UNCHANGED <<lenis, open, closing, expanded, draft, layout>>

\* Mutant: the close event does not start Lenis.
onDialogCloseStopped(modal) ==
  /\ modal \in closing /\ closing' = closing \ {modal}
  /\ expanded' = expanded \ {modal}
  /\ focus' = IF modal = "menu" /\ focus \in {"page", "menu"}
              THEN IF desktop THEN "nav" ELSE "button" ELSE focus
  /\ UNCHANGED <<lenis, open, draft, layout, frame>>

\* The close event.  The menu's gives the focus to its button, or to the desktop
\* navigation, unless something outside the menu has it in the meantime.
onDialogClose(modal) ==
  /\ modal \in closing /\ closing' = closing \ {modal}
  /\ lenis' = start /\ expanded' = expanded \ {modal}
  /\ focus' = IF modal = "menu" /\ focus \in {"page", "menu"}
              THEN IF desktop THEN "nav" ELSE "button" ELSE focus
  /\ UNCHANGED <<open, draft, layout, frame>>

\* The window crosses the breakpoint: an open menu is closed where its button is
\* hidden; a hidden button loses the focus.
Widen ==
  /\ desktop' = ~desktop
  /\ IF desktop' /\ open = "menu" THEN closeMenu(desktop')
     ELSE /\ focus' = CASE desktop' /\ focus = "button" -> "page"
                        [] desktop /\ focus = "nav" -> "page" [] OTHER -> focus
          /\ UNCHANGED <<lenis, open, closing, expanded>>
  /\ UNCHANGED <<draft, home, frame>>

\* What is unmounted closes, and starts Lenis; its queued event reaches nobody.
Within(parts) == parts \cup (IF "menu" \in parts THEN {"button", "nav"} ELSE {})
                       \cup (IF "form" \in parts THEN {"send", "heading"} ELSE {})
Unmount(parts) ==
  /\ open' = IF open \in parts THEN "none" ELSE open
  /\ closing' = closing \ parts /\ expanded' = expanded \ parts
  /\ lenis' = start
  /\ draft' = (draft /\ "form" \notin parts)
  /\ focus' = IF focus \in Within(parts) THEN "page" ELSE focus

\* Another page of the same language, by Back, Forward or a link: the menu closes,
\* and the home page takes its form with it.
Route ==
  /\ home' = ~home /\ frame' = "none" /\ UNCHANGED desktop
  /\ IF open = "menu" THEN closeMenu(desktop) /\ draft' = FALSE
     ELSE IF home THEN Unmount({"form"}) ELSE UNCHANGED <<lenis, open, closing, expanded, draft, focus>>

\* Another language: the whole layout is unmounted for a frame.
SwitchLanguage == Unmount(Modals) /\ frame' = "none" /\ UNCHANGED layout

\* The media query of Lenis changes: the instance goes, or there is a new one,
\* unless it cannot be made.
SmoothScrollProvider ==
  /\ lenis' = IF lenis # "none" THEN "none" ELSE IF open = "none" THEN "free" ELSE "fresh"
  /\ frame' = IF frame = "glide" THEN "none" ELSE frame
  /\ UNCHANGED <<open, closing, expanded, draft, layout, focus>>

Next ==
  \/ openMenu \/ show \/ Dismiss \/ CloseButton \/ handleClick
  \/ scrollToSection \/ focusHeading \/ \E modal \in Modals : onDialogClose(modal)
  \/ Widen \/ Route \/ SwitchLanguage \/ SmoothScrollProvider

Spec == Init /\ [][Next]_vars

-------------------------------------------------------------------------------

TypeOK ==
  /\ lenis \in {"none", "free", "stopped", "fresh"}
  /\ open \in Modals \cup {"none"} /\ closing \subseteq Modals /\ expanded \subseteq Modals
  /\ draft \in BOOLEAN /\ desktop \in BOOLEAN /\ home \in BOOLEAN
  /\ frame \in {"none", "next", "glide"} /\ focus \in Focuses

\* The page scrolls again after a dialog, however it was closed, and never behind
\* one: Lenis is stopped only for a dialog that is open or whose close event is
\* still to come, an open dialog has stopped it unless it was made since, and the
\* buttons say what is open; the focus is never left in a closed dialog, nor
\* outside the one that is open.  A Lenis made while a dialog is open (the motion
\* preference changed) is "fresh": nothing stops it, and the page scrolls behind.
ScrollFree ==
  /\ lenis = "stopped" => open # "none" \/ closing # {}
  /\ open # "none" => lenis # "free"
  /\ closing = {} => expanded = {open} \ {"none"}
  /\ IF open = "none" THEN focus \notin Modals ELSE focus = open
===============================================================================
