------------------------------- MODULE Backdrop -------------------------------
(***************************************************************************)
(* The page's background (components/PageBackdrop.tsx): in the dark a sky  *)
(* that a shooting star crosses as a section arrives (useNightSky.ts), in  *)
(* the light a bamboo grove that sways as one does and drops a leaf now    *)
(* and then (useBambooGrove.ts).  sectionArrival.ts announces the section  *)
(* in the middle of the screen, except the first one it sees.              *)
(***************************************************************************)
EXTENDS Stage

CONSTANTS
  LastSection,   (* The hero is section 0.                          *)
  MaxShooters    (* Bound: shooting stars that have not crossed yet. *)

Bounds == LastSection \in Nat \ {0} /\ MaxShooters \in Nat \ {0}

Sections == 0 .. LastSection
None == -1

\* covered is "not visible" here: the opaque hero fills the screen.
NightSky(p, current) ==
  start(p, [kind |-> "sky", current |-> current, visible |-> TRUE, running |-> FALSE,
            drawn |-> TRUE, shooters |-> 0])
BambooGrove(p, current) ==
  [kind |-> "grove", current |-> current, visible |-> TRUE, running |-> FALSE,
   drawn |-> TRUE, swaying |-> FALSE, falling |-> 0, timer |-> p.motion, resizing |-> FALSE]

Scenery(p, current) == IF p.theme = "dark" THEN NightSky(p, current) ELSE BambooGrove(p, current)
skyCleanup(s) == stop(s)
groveCleanup(s) == [stop(s) EXCEPT !.timer = FALSE, !.resizing = FALSE]
cleanup(s) == IF s.kind = "sky" THEN skyCleanup(s) ELSE groveCleanup(s)

Init ==
  /\ page \in Pages
  /\ scene = Scenery(page, None)
  /\ ticker = Ticks(scene)

Remount ==
  \E p \in Pages : Rerun(p) /\ page' = p /\ Rebuild(cleanup(scene), Scenery(p, scene.current))

-------------------------------------------------------------------------------
(* The sky.                                                                  *)

\* A frame draws the stars; a shooting star may have crossed.
SkyTick ==
  /\ scene.kind = "sky" /\ scene.running /\ UNCHANGED page
  /\ \E n \in 0 .. scene.shooters : Become([scene EXCEPT !.drawn = TRUE, !.shooters = n])

\* update: the hero covers the sky, or no longer does; the tab is hidden or shown.
SkyWatched == scene.kind = "sky" /\ Watched

skySize(s) == [s EXCEPT !.drawn = FALSE]
SkyResized == scene.kind = "sky" /\ Become([skySize(scene) EXCEPT !.drawn = TRUE]) /\ UNCHANGED page

\* A shooting star, at the arriving section's angle; the hero has none.
shoot(s, index) ==
  IF ~page.motion \/ index <= 0 \/ s.shooters = MaxShooters THEN s ELSE [s EXCEPT !.shooters = @ + 1]

-------------------------------------------------------------------------------
(* The grove.                                                                *)

drawGrove(s) == [s EXCEPT !.drawn = TRUE]

\* A frame: the sway may be over, leaves may have fallen; then nothing moves.
GroveTick ==
  /\ scene.kind = "grove" /\ scene.running /\ UNCHANGED page
  /\ \E swaying \in {scene.swaying, FALSE}, n \in 0 .. scene.falling :
       LET s == [drawGrove(scene) EXCEPT !.swaying = swaying, !.falling = n]
       IN Become(IF ~swaying /\ n = 0 THEN stop(s) ELSE s)

\* scheduleLeaf: again and again, a leaf if the tab is shown and few are falling.
LeafTimer ==
  /\ scene.kind = "grove" /\ scene.timer /\ UNCHANGED page
  /\ Become(IF page.hidden \/ scene.falling >= 2 THEN scene
            ELSE start(page, [scene EXCEPT !.falling = @ + 1]))

sway(s) == IF page.motion THEN start(page, [s EXCEPT !.swaying = TRUE]) ELSE s

groveSize(s) == [s EXCEPT !.drawn = FALSE]
GroveResized ==
  /\ scene.kind = "grove" /\ UNCHANGED page
  /\ \/ Become([scene EXCEPT !.resizing = TRUE])
     \/ scene.resizing /\ Become(drawGrove([groveSize(scene) EXCEPT !.resizing = FALSE]))

GroveToggled ==
  /\ scene.kind = "grove" /\ page' = Toggled
  /\ Become(IF ~page.hidden THEN stop(scene)
            ELSE IF scene.falling > 0 \/ scene.swaying THEN start(Toggled, scene) ELSE scene)

-------------------------------------------------------------------------------
(* The sections.                                                             *)

\* watchSectionArrivals: another section reaches the middle of the screen.
Arrive ==
  /\ UNCHANGED page
  /\ \E index \in Sections \ {scene.current} :
       LET s == [scene EXCEPT !.current = index]
       IN Become(IF scene.current = None THEN s
                 ELSE IF s.kind = "sky" THEN shoot(s, index) ELSE sway(s))

\* A section comes or goes with the content: watched anew.
Rewatched == scene.current # None /\ Become([scene EXCEPT !.current = None]) /\ UNCHANGED page

Next ==
  \/ Remount \/ Arrive \/ Rewatched
  \/ SkyTick \/ SkyWatched \/ SkyResized
  \/ GroveTick \/ LeafTimer \/ GroveResized \/ GroveToggled

Spec == Init /\ [][Next]_stage

-------------------------------------------------------------------------------

SkyOK == scene \in [kind : {"sky"}, current : Sections \cup {None}, visible : BOOLEAN,
                    running : BOOLEAN, drawn : BOOLEAN, shooters : 0 .. MaxShooters]
GroveOK == scene \in [kind : {"grove"}, current : Sections \cup {None}, visible : BOOLEAN,
                      running : BOOLEAN, drawn : BOOLEAN, swaying : BOOLEAN, falling : 0 .. 2,
                      timer : BOOLEAN, resizing : BOOLEAN]

TypeOK ==
  /\ page \in Pages /\ ticker \in Int
  /\ IF scene.kind = "sky" THEN SkyOK ELSE GroveOK

\* The sky's frame callback is on the ticker exactly while the sky can be seen
\* and may move; the grove's exactly while something in it moves in a tab that
\* is shown; none outlives its scene, and nothing moves without motion.
LoopFollows ==
  /\ OneLoop
  /\ scene.kind = "sky" => (scene.running <=> CanRun(page, scene))
  /\ scene.kind = "grove" =>
       /\ scene.running <=> ~page.hidden /\ (scene.swaying \/ scene.falling > 0)
       /\ scene.swaying \/ scene.falling > 0 \/ scene.timer => page.motion

\* No canvas is left cleared.
Drawn == scene.drawn
=============================================================================
