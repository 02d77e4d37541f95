-------------------------------- MODULE Glass --------------------------------
(***************************************************************************)
(* The pane of glass behind the text (animations/usePageGlass.ts): it      *)
(* wraps the box nearest the middle of the screen, fades out while the     *)
(* page scrolls and back in once it rests, and asks for frames only while  *)
(* something changes.  The boxes are numbered; 0 is none.                  *)
(***************************************************************************)
EXTENDS Stage

CONSTANT Boxes         (* How many glass boxes the page has. *)

Bounds == Boxes \in Nat \ {0}

\* How far the glass has appeared: hidden, in between, or as much as it should.
Presence == {"hidden", "partly", "whole"}

\* target: the box in view, if any, wraps the glass whole.
target(s) == [rect |-> s.near, presence |-> IF s.near = 0 THEN "hidden" ELSE "whole"]

\* step: the frame after s, its pane in its place or still gliding, and its
\* presence what is wanted or not yet.
Want(p, s) == IF s.scrolling /\ p.motion THEN "hidden" ELSE target(s).presence
Frame(p, s, done, faded) ==
  [s EXCEPT !.rect = IF done /\ target(s).rect # 0 THEN target(s).rect ELSE @,
            !.presence = IF faded THEN Want(p, s) ELSE "partly",
            !.moving = ~(done /\ faded)]

\* A pane that is seen glides to another box, unless the frame is a jump.
Glides(s) == target(s).rect \notin {0, s.rect} /\ s.rect # 0 /\ s.presence # "hidden"
Placed(s, jump) == IF Glides(s) /\ ~jump THEN BOOLEAN ELSE {TRUE}
Fades(p, s, jump) == IF jump \/ s.presence = Want(p, s) THEN {TRUE} ELSE BOOLEAN
Stepped(p, s, jump) == {Frame(p, s, done, faded) : done \in Placed(s, jump), faded \in Fades(p, s, jump)}

\* The effect: boxes measured, and the glass placed at once.
PageGlass(p, near) ==
  Stepped(p, [kind |-> "glass", near |-> near, rect |-> 0, presence |-> "hidden", running |-> FALSE,
              scrolling |-> FALSE, restTimer |-> FALSE, rested |-> TRUE, moving |-> FALSE], TRUE)

begin(s) == [s EXCEPT !.running = TRUE]
cleanup(s) == [stop(s) EXCEPT !.restTimer = FALSE]

Init ==
  /\ page \in Pages
  /\ \E near \in 0 .. Boxes : scene \in PageGlass(page, near)
  /\ ticker = Ticks(scene)

\* Motion changes, or the set of sections does.
Remount ==
  \E p \in {page, [page EXCEPT !.motion = ~@]}, near \in 0 .. Boxes :
    /\ page' = p
    /\ \E s \in PageGlass(p, near) : Rebuild(cleanup(scene), s)

\* It stops once it no longer moves and the page has rested for a moment.
Tick ==
  /\ scene.running /\ UNCHANGED page
  /\ \E s \in Stepped(page, scene, ~page.motion) :
       \/ Become(s)
       \/ ~s.moving /\ s.rested /\ Become(stop(s))

onScroll ==
  /\ UNCHANGED page
  /\ \E near \in 0 .. Boxes :
       Become(begin([scene EXCEPT !.near = near, !.scrolling = TRUE, !.restTimer = TRUE, !.rested = FALSE]))

Rests ==
  /\ scene.restTimer /\ UNCHANGED page
  /\ Become(begin([scene EXCEPT !.scrolling = FALSE, !.restTimer = FALSE, !.rested = TRUE]))

\* The window or a box changes its size, also in the middle of a scroll.
onResize ==
  /\ UNCHANGED page
  /\ \E near \in 0 .. Boxes : Become(begin([scene EXCEPT !.near = near, !.rested = TRUE]))

Next == Remount \/ Tick \/ onScroll \/ Rests \/ onResize

Spec == Init /\ [][Next]_stage

-------------------------------------------------------------------------------

TypeOK ==
  /\ page \in Pages /\ ticker \in Int
  /\ scene \in [kind : {"glass"}, near : 0 .. Boxes, rect : 0 .. Boxes, presence : Presence,
                running : BOOLEAN, scrolling : BOOLEAN, restTimer : BOOLEAN, rested : BOOLEAN,
                moving : BOOLEAN]

\* No frame callback outlives the effect, and while the page moves one is there
\* until the glass is gone.
LoopFollows ==
  /\ OneLoop
  /\ scene.scrolling => scene.restTimer
  /\ ~scene.running /\ scene.scrolling /\ page.motion => scene.presence = "hidden"

\* Whenever the glass stands still after a scroll or a resize, it is where the
\* reader is: round the box in view, and whole, or hidden where there is none.
GlassRests ==
  ~scene.running /\ ~scene.scrolling =>
    /\ scene.presence = target(scene).presence
    /\ scene.near # 0 => scene.rect = scene.near
=============================================================================
