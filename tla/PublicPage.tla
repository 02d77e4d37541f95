------------------------------ MODULE PublicPage ------------------------------
(***************************************************************************)
(* The home page's moving parts, as HomePage mounts them: the pictures     *)
(* (hero, contact screen, backdrop, glass), the parts that enter and fade  *)
(* (Entrance), where the reader is (Reading) and the modal dialogs         *)
(* (Dialogs).  They meet in the visitor's preferences, the scroll position *)
(* and Lenis, which each of them sees change at any moment; they do not    *)
(* write each other's state, so a behaviour follows one part, whichever.   *)
(***************************************************************************)
EXTENDS Integers

CONSTANTS MaxChannels, LastSection, MaxShooters, Boxes, LastRegion

VARIABLES
  part,                                                       (* The part followed. *)
  page, scene, ticker,                                        (* Stage *)
  hook, media, dom, at, style, context, refresh, played,      (* Entrance *)
  home, fonts, lenis, place, moving, active, anchor, rebuild, wanted,  (* Reading *)
  lock, open, closing, expanded, draft, desktop, onHome, frame, focus  (* Dialogs *)

stage == <<page, scene, ticker>>
entrance == <<hook, media, dom, at, style, context, refresh, played>>
reading == <<home, fonts, lenis, place, moving, active, anchor, rebuild, wanted>>
dialogs == <<lock, open, closing, expanded, draft, desktop, onHome, frame, focus>>
vars == <<part, stage, entrance, reading, dialogs>>

Hero == INSTANCE HeroScene
Closing == INSTANCE ContactScene
Back == INSTANCE Backdrop
Pane == INSTANCE Glass
Enter == INSTANCE Entrance
Read == INSTANCE Reading
Modal == INSTANCE Dialogs WITH lenis <- lock, home <- onHome

ASSUME PublicPageAssumption ==
  Closing!Bounds /\ Back!Bounds /\ Pane!Bounds /\ Read!Bounds

Pictures == {"hero", "closing", "backdrop", "glass"}
Parts == Pictures \cup {"entrance", "reading", "dialogs"}

-------------------------------------------------------------------------------

Off == "off"
NoPicture == page = Off /\ scene = Off /\ ticker = Off
NoEntrance ==
  /\ hook = Off /\ media = Off /\ dom = Off /\ at = Off
  /\ style = Off /\ context = Off /\ refresh = Off /\ played = Off
NoReading ==
  /\ home = Off /\ fonts = Off /\ lenis = Off /\ place = Off /\ moving = Off
  /\ active = Off /\ anchor = Off /\ rebuild = Off /\ wanted = Off
NoDialogs ==
  /\ lock = Off /\ open = Off /\ closing = Off /\ expanded = Off /\ draft = Off
  /\ desktop = Off /\ onHome = Off /\ frame = Off /\ focus = Off

Init ==
  /\ part \in Parts
  /\ CASE part = "hero" -> Hero!Init [] part = "closing" -> Closing!Init
       [] part = "backdrop" -> Back!Init [] part = "glass" -> Pane!Init [] OTHER -> NoPicture
  /\ IF part = "entrance" THEN Enter!Init ELSE NoEntrance
  /\ IF part = "reading" THEN Read!Init ELSE NoReading
  /\ IF part = "dialogs" THEN Modal!Init ELSE NoDialogs

Draws(picture, step) == part = picture /\ step /\ UNCHANGED <<part, entrance, reading, dialogs>>
Enters(step) == part = "entrance" /\ step /\ UNCHANGED <<part, stage, reading, dialogs>>
Reads(step) == part = "reading" /\ step /\ UNCHANGED <<part, stage, entrance, dialogs>>
Modally(step) == part = "dialogs" /\ step /\ UNCHANGED <<part, stage, entrance, reading>>

Next ==
  \/ Draws("hero", Hero!Next) \/ Draws("closing", Closing!Next)
  \/ Draws("backdrop", Back!Next) \/ Draws("glass", Pane!Next)
  \/ Enters(Enter!Next) \/ Reads(Read!Next) \/ Modally(Modal!Next)

\* The parts' own fairness: gsap's ticker, timers and the browser's tasks.
Fairness ==
  /\ WF_vars(Draws("closing", Closing!InkAdvance))
  /\ WF_vars(Enters(Enter!IntroEnds)) /\ WF_vars(Enters(Enter!Refreshed))
  /\ WF_vars(Reads(Read!onRefresh \/ Read!onRebuilt)) /\ SF_vars(Reads(Read!Correct))

Spec == Init /\ [][Next]_vars /\ Fairness

-------------------------------------------------------------------------------

TypeOK ==
  /\ part \in Parts
  /\ part = "hero" => Hero!TypeOK
  /\ part = "closing" => Closing!TypeOK
  /\ part = "backdrop" => Back!TypeOK
  /\ part = "glass" => Pane!TypeOK
  /\ part = "entrance" => Enter!TypeOK
  /\ part = "reading" => Read!TypeOK
  /\ part = "dialogs" => Modal!TypeOK

\* Every picture's frame callback is on gsap's ticker exactly while there is
\* something to move and someone to see it, and none outlives its picture.
LoopFollows ==
  /\ part = "hero" => Hero!LoopFollows
  /\ part = "closing" => Closing!LoopFollows
  /\ part = "backdrop" => Back!LoopFollows
  /\ part = "glass" => Pane!LoopFollows

\* No canvas is left cleared or out of date by a resize, a font, a lost context
\* or a replacement; the link laid over the contact screen is the link of what it
\* shows, and the glass comes to rest where the reader is.
PictureTrue ==
  /\ part = "hero" => Hero!Drawn
  /\ part = "closing" => Closing!Drawn /\ Closing!LinkTrue
  /\ part = "backdrop" => Back!Drawn
  /\ part = "glass" => Pane!GlassRests

\* No part of the page stays hidden, after whatever came, went or failed: but
\* for what the fades had written when their setup failed, until the next cleanup.
NothingHidden == part = "entrance" => Enter!NothingHidden

\* Nothing the site does by itself leaves the reader elsewhere than they asked.
PlaceKept == part = "reading" => Read!PlaceKept

\* The page scrolls again after a dialog, and behind one only with a Lenis that was
\* made while it was open.
ScrollFree == part = "dialogs" => Modal!ScrollFree

\* What was begun is seen: each ink drop's word and the hero's intro are shown in
\* the end, and a landing is corrected unless the reader took over.
Seen ==
  /\ \A c \in Closing!Indices :
       /\ (part = "closing" /\ scene.kind = "ink" /\ scene.latest = c) ~>
            (part = "closing"
               => scene.kind # "ink" \/ ~scene.running \/ scene.latest # c \/ scene.written = c)
       /\ (part = "closing" /\ scene.kind = "ink" /\ scene.written = c) ~>
            (part = "closing"
               => scene.kind # "ink" \/ ~scene.running \/ scene.hover \/ scene.written # c)
  /\ \A e \in Enter!Parts :
       (part = "entrance" /\ hook = "intro" /\ e \in dom /\ style[e] # "own") ~>
         (part = "entrance" => e \notin dom \/ style[e] \in {"to", "own"})
  /\ (part = "reading" /\ Read!Due) ~> (part = "reading" => ~home.on \/ home.settled)
===============================================================================
