----------------------------- MODULE ContactScene -----------------------------
(***************************************************************************)
(* The contact screen's picture (sections/Closing.tsx), which carries      *)
(* links: in the light, ink drops that write each channel's name in turn,  *)
(* the written word being that channel's link and the title the latest     *)
(* drop's (useInkWriting.ts); in the dark, a meteor per channel, the title *)
(* being the link of the one beside it (useMeteorContact.ts).              *)
(*                                                                         *)
(* A channel is its index.  Frames take no fixed time: in each one a phase *)
(* may be over.  Where a meteor is is left out; how strongly it colours    *)
(* the title is kept, as 0, weak (1), more than 0.6 (2) or full (3).       *)
(***************************************************************************)
EXTENDS Stage

CONSTANT MaxChannels   (* Bound: contact links, the CV among them. *)

Bounds == MaxChannels \in Nat \ {0}

Indices == 0 .. MaxChannels - 1
None == -1
Phases == {"wait", "fall", "splash", "write", "hold", "fade"}
Modes == {"wander", "approach", "hold", "leave"}
Weights == 0 .. 3
Blank == [phase |-> "blank", idx |-> None]

Nothing == [kind |-> "none", channels |-> 0, visible |-> FALSE, running |-> FALSE]

-------------------------------------------------------------------------------
(* The ink.  "written" and "latest" are InkContact's states.                 *)

inkSize(s) == [s EXCEPT !.picture = Blank, !.dirty = TRUE]

\* What the canvas shows is the phase, and, once it forms, the word of idx.
render(s) == [s EXCEPT !.picture = [phase |-> s.phase, idx |-> s.idx], !.dirty = FALSE]
placeWord(s, show) == [s EXCEPT !.written = IF show THEN s.idx ELSE None]

drop(p, s, i) ==
  LET dropped == placeWord([s EXCEPT !.idx = i, !.latest = i, !.hover = FALSE], FALSE)
  IN IF p.motion THEN start(p, [dropped EXCEPT !.phase = "fall", !.dirty = TRUE])
     ELSE placeWord(render([dropped EXCEPT !.phase = "hold"]), TRUE)

InkWriting(p, n, orphan) ==
  LET fresh == [kind |-> "ink", channels |-> n, visible |-> FALSE, running |-> FALSE,
                phase |-> "wait", idx |-> n - 1, hover |-> FALSE, dirty |-> TRUE,
                picture |-> Blank, fonts |-> TRUE, orphan |-> orphan,
                written |-> None, latest |-> None]
  IN start(p, IF p.motion THEN inkSize(fresh) ELSE drop(p, inkSize(fresh), 0))

\* The effect is disposed of; its font may still be loading.
Still(s) == s.phase = "hold" \/ ~page.motion
inkCleanup(s) ==
  [stop(s) EXCEPT !.written = None, !.latest = None,
                  !.orphan = IF s.fonts /\ Still(s) THEN s.idx ELSE @]

\* The phase after this one, when its time is up.  The word that is pointed at stays.
Advance(s) ==
  CASE s.phase = "wait"   -> drop(page, s, (s.idx + 1) % s.channels)
    [] s.phase = "fall"   -> render([s EXCEPT !.phase = "splash"])
    [] s.phase = "splash" -> render([s EXCEPT !.phase = "write"])
    [] s.phase = "write"  -> render(placeWord([s EXCEPT !.phase = "hold"], TRUE))
    [] s.phase = "hold"   -> render([s EXCEPT !.phase = "fade"])
    [] s.phase = "fade" /\ s.hover  -> render([s EXCEPT !.phase = "hold"])
    [] s.phase = "fade" /\ ~s.hover -> render(placeWord([s EXCEPT !.phase = "wait"], FALSE))

InkFrame == scene.kind = "ink" /\ scene.running /\ UNCHANGED page
InkAdvance == InkFrame /\ ~(scene.phase = "hold" /\ scene.hover) /\ Become(Advance(scene))

\* A frame within a phase; a held word is painted again only if something changed.
InkStays ==
  /\ InkFrame
  /\ Become(IF scene.phase = "wait" \/ (scene.phase = "hold" /\ ~scene.dirty) THEN scene ELSE render(scene))

\* An icon pointed at or focused (controls.drop).
InkPreview ==
  /\ scene.kind = "ink" /\ UNCHANGED page
  /\ \E i \in 0 .. scene.channels - 1 :
       /\ i # scene.idx \/ scene.phase \in {"wait", "fade"}
       /\ Become(drop(page, scene, i))

\* The word pointed at or focused, and left (controls.setHover).
InkHover ==
  /\ scene.kind = "ink" /\ UNCHANGED page
  /\ \E on \in BOOLEAN :
       /\ on => scene.written # None
       /\ LET s == [scene EXCEPT !.hover = on, !.dirty = TRUE]
          IN Become(start(page, IF page.motion THEN s ELSE render(s)))

\* The brush font has come, for this effect or for one disposed of.
InkFonts ==
  /\ scene.kind = "ink" /\ UNCHANGED page
  /\ \/ /\ scene.fonts
        /\ LET s == [scene EXCEPT !.fonts = FALSE, !.dirty = TRUE]
           IN Become(IF Still(s) THEN placeWord(render(s), TRUE) ELSE s)
     \/ scene.orphan # None /\ Become([scene EXCEPT !.orphan = None])

\* Mutant: a still word is not painted again after a resize.
InkResizedBlank ==
  scene.kind = "ink" /\ UNCHANGED page /\ Become(inkSize(scene))

InkResized ==
  /\ scene.kind = "ink" /\ UNCHANGED page
  /\ Become(LET s == inkSize(scene) IN IF Still(s) THEN placeWord(render(s), TRUE) ELSE s)

InkWatched == scene.kind = "ink" /\ Watched

-------------------------------------------------------------------------------
(* The meteors.  "aligned" is NightContact's state.                          *)

nightSize(s) == [s EXCEPT !.drawn = FALSE]
nightDraw(s) == [s EXCEPT !.drawn = TRUE]

Untinted == [of |-> None, weight |-> 0]

MeteorContact(p, n) ==
  start(p, nightDraw(nightSize(
    [kind |-> "night", channels |-> n, visible |-> FALSE, running |-> FALSE,
     drawn |-> FALSE, modes |-> [m \in 0 .. n - 1 |-> "wander"], turn |-> 0,
     pointed |-> None, aligned |-> None, title |-> Untinted])))

nightCleanup(s) == [stop(s) EXCEPT !.title = Untinted, !.aligned = None]

\* Every few seconds the next meteor sets out, if it is wandering.
TurnTaken(s) ==
  [s EXCEPT !.turn = (@ + 1) % s.channels,
            !.modes[s.turn] = IF @ = "wander" THEN "approach" ELSE @]

\* What a meteor does in a frame: how it colours the title, and its next mode.
Moves(s, m) ==
  LET mode == s.modes[m]
  IN IF m = s.pointed THEN {[weight |-> IF mode = "hold" THEN 3 ELSE 0, mode |-> mode]}
     ELSE CASE mode = "wander"   -> {[weight |-> 0, mode |-> mode]}
            [] mode = "leave"    -> [weight : Weights, mode : {"leave"}] \cup {[weight |-> 0, mode |-> "wander"]}
            [] mode = "approach" -> [weight : Weights, mode : {"approach", "hold"}]
            [] mode = "hold"     -> [weight : {3}, mode : {"hold", "leave"}]

\* The first of the strongest colours the title; its link needs more than 0.6.
Strongest(s, move) ==
  LET at == {m \in DOMAIN s.modes : \A k \in DOMAIN s.modes : move[k].weight <= move[m].weight}
      first == {m \in at : move[m].weight = 3 => \A k \in at : m <= k}
  IN {IF move[m].weight = 0 THEN Untinted ELSE [of |-> m, weight |-> move[m].weight] : m \in first}
Linked(title) == IF title.weight > 1 THEN title.of ELSE None

NightTick ==
  /\ scene.kind = "night" /\ scene.running /\ UNCHANGED page
  /\ \E s \in {scene, TurnTaken(scene)} :
     \E move \in {f \in [DOMAIN s.modes -> [weight : Weights, mode : Modes]] : \A m \in DOMAIN s.modes : f[m] \in Moves(s, m)} :
     \E title \in Strongest(s, move) :
       Become(nightDraw([s EXCEPT !.modes = [m \in DOMAIN s.modes |-> move[m].mode],
                                  !.title = title, !.aligned = Linked(title)]))

NightPointer ==
  /\ scene.kind = "night" /\ UNCHANGED page
  /\ \E m \in DOMAIN scene.modes \cup {None} : Become([scene EXCEPT !.pointed = m])

NightResized == scene.kind = "night" /\ Become(nightDraw(nightSize(scene))) /\ UNCHANGED page
NightWatched == scene.kind = "night" /\ Watched

-------------------------------------------------------------------------------
(* The section, which mounts one screen or the other.                        *)

Screen(p, n, orphan) ==
  IF n = 0 THEN Nothing ELSE IF p.theme = "dark" THEN MeteorContact(p, n) ELSE InkWriting(p, n, orphan)
cleanup(s) == CASE s.kind = "ink" -> inkCleanup(s) [] s.kind = "night" -> nightCleanup(s) [] OTHER -> s

\* The states of the screen's component outlive the effect, and go with the theme.
Orphan(p, s) == IF s.kind = "ink" /\ p.theme = page.theme THEN s.orphan ELSE None

Init ==
  /\ page \in Pages
  /\ \E n \in 0 .. MaxChannels : scene = Screen(page, n, None)
  /\ ticker = Ticks(scene)

\* Preferences change, or the content does: another language, a CV added.
Remount ==
  \E p \in Pages, n \in 0 .. MaxChannels :
    /\ p = page \/ (Rerun(p) /\ n = scene.channels)
    /\ page' = p
    /\ LET done == cleanup(scene) IN Rebuild(done, Screen(p, n, Orphan(p, done)))

EmptyToggled == scene.kind = "none" /\ page' = Toggled /\ Become(scene)

Next ==
  \/ Remount \/ EmptyToggled
  \/ InkAdvance \/ InkStays \/ InkPreview \/ InkHover \/ InkFonts \/ InkResized \/ InkWatched
  \/ NightTick \/ NightPointer \/ NightResized \/ NightWatched

\* gsap calls a running scene's frame callback again and again, so that a
\* phase's time is up at last.
Fairness == WF_stage(InkAdvance)

Spec == Init /\ [][Next]_stage /\ Fairness

-------------------------------------------------------------------------------

Ink ==
  [kind : {"ink"}, channels : 1 .. MaxChannels, visible : BOOLEAN, running : BOOLEAN,
   phase : Phases, idx : Indices, hover : BOOLEAN, dirty : BOOLEAN,
   picture : [phase : Phases \cup {"blank"}, idx : Indices \cup {None}], fonts : BOOLEAN,
   orphan : Indices \cup {None}, written : Indices \cup {None}, latest : Indices \cup {None}]
NightOK ==
  /\ scene.visible \in BOOLEAN /\ scene.running \in BOOLEAN /\ scene.drawn \in BOOLEAN
  /\ scene.modes \in [0 .. scene.channels - 1 -> Modes]
  /\ scene.turn \in DOMAIN scene.modes
  /\ {scene.pointed, scene.aligned, scene.title.of} \subseteq DOMAIN scene.modes \cup {None}

TypeOK ==
  /\ page \in Pages /\ ticker \in Int
  /\ CASE scene.kind = "ink" -> scene \in Ink [] scene.kind = "night" -> NightOK [] OTHER -> scene = Nothing

\* The scene's frame callback is on the ticker exactly while there is something
\* to move and someone to see it; a replaced scene leaves none behind.
LoopFollows == OneLoop /\ (scene.running <=> scene.kind # "none" /\ CanRun(page, scene))

\* A link laid over the picture is the link of what the picture shows: the
\* written word's exactly while the word stands (held or fading), whatever
\* fonts, resizes and drops come in between, and the title's for the meteor
\* whose colour it has, which is on its way, there, or leaving.
LinkTrue ==
  /\ scene.kind = "ink" =>
       /\ scene.written = IF scene.phase \in {"hold", "fade"} THEN scene.idx ELSE None
       /\ scene.written # None => scene.latest = scene.written
  /\ scene.kind = "night" =>
       /\ scene.aligned # None => scene.title = [of |-> scene.aligned, weight |-> scene.title.weight] /\ scene.title.weight > 1
       /\ scene.title.of # None => \/ scene.modes[scene.title.of] # "wander" \/ scene.title.weight = 0

\* No canvas is left cleared or out of date once its picture stands still: a
\* held word is painted, or about to be; the meteors are.
Drawn ==
  /\ scene.kind = "ink" /\ (scene.phase = "hold" \/ ~page.motion) =>
       scene.picture = [phase |-> "hold", idx |-> scene.idx] \/ (scene.dirty /\ scene.running)
  /\ scene.kind = "night" => scene.drawn
===============================================================================
