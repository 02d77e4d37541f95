------------------------------ MODULE HeroScene ------------------------------
(***************************************************************************)
(* The picture behind the hero (sections/Hero.tsx): in the dark a WebGL    *)
(* black hole that swallows the meteors the pointer throws                 *)
(* (useBlackHole.ts, blackHole.ts), or a plain glow where there is no      *)
(* WebGL; in the light an ink stream that carries leaves away              *)
(* (useInkStream.ts), its hills painted once, its water every frame.       *)
(* Meteors and leaves are counted; what they look like is left out.        *)
(***************************************************************************)
EXTENDS Stage

\* HERO_SCENE (motion.ts): the most at once, and the most that still let a
\* phone throw one by itself.
Most == [hole |-> 9, stream |-> 6, plain |-> 0]
IdleMost == [hole |-> 2, stream |-> 1, plain |-> 0]
TopQuality == 2  \* The shader's scales: 1, 0.85 and minScale.

\* The device: WebGL there, a touch screen; the canvas's context lost.
Devices == [webgl : BOOLEAN, coarse : BOOLEAN, lost : BOOLEAN]

Fresh(kind, device) ==
  [kind |-> kind, device |-> device, visible |-> TRUE, running |-> FALSE,
   drawn |-> FALSE, painted |-> kind # "stream", flying |-> 0, afloat |-> 0,
   quality |-> TopQuality, resizing |-> FALSE]

\* createBlackHole: no renderer without WebGL, nor on a canvas that lost it.
createBlackHole(device) == device.webgl /\ ~device.lost

\* Setting a canvas's size clears it; the stream's hills are painted anew.
holeSize(s) == [s EXCEPT !.drawn = FALSE]
paint(s) == [s EXCEPT !.painted = TRUE]
streamSize(s) == paint([s EXCEPT !.drawn = FALSE, !.painted = FALSE])

\* renderer.draw does nothing once the context is lost.
holeDraw(s) == [s EXCEPT !.drawn = ~s.device.lost]
streamStill(s) == [s EXCEPT !.drawn = TRUE]

BlackHole(p, device) ==
  IF createBlackHole(device) THEN start(p, holeDraw(holeSize(Fresh("hole", device))))
  ELSE Fresh("plain", device)
InkStream(p, device) == start(p, streamStill(streamSize(Fresh("stream", device))))

\* A theme change mounts a new canvas; the motion change keeps the black hole's.
Hero(p) ==
  LET device == [scene.device EXCEPT !.lost = @ /\ p.theme = page.theme]
  IN IF p.theme = "dark" THEN BlackHole(p, device) ELSE InkStream(p, device)

\* Mutant: the cleanup leaves the frame callback on the ticker.
cleanupWithoutStop(s) == [s EXCEPT !.resizing = FALSE]

cleanup(s) == [stop(s) EXCEPT !.resizing = FALSE]

Init ==
  /\ page \in Pages
  /\ \E device \in {d \in Devices : ~d.lost} :
       scene = IF page.theme = "dark" THEN BlackHole(page, device) ELSE InkStream(page, device)
  /\ ticker = Ticks(scene)

Remount == \E p \in Pages : Rerun(p) /\ page' = p /\ Rebuild(cleanup(scene), Hero(p))

-------------------------------------------------------------------------------
(* The black hole.                                                           *)

\* Mutant: one meteor more than the most at once.
spawnOneMore(s) ==
  IF ~page.motion \/ s.flying + s.afloat > Most[s.kind] THEN s
  ELSE start(page, [s EXCEPT !.flying = @ + 1])

\* A meteor or leaf from the pointer; without motion there are no handlers.
spawn(s) ==
  IF ~page.motion \/ s.flying + s.afloat >= Most[s.kind] THEN s
  ELSE start(page, [s EXCEPT !.flying = @ + 1])

\* Now and then, one on its own on a touch screen.
Idled(s) == {s} \cup IF s.device.coarse /\ s.flying + s.afloat <= IdleMost[s.kind] THEN {spawn(s)} ELSE {}

\* Any of the meteors crosses the horizon, or has lived long enough.
holeStep(s) == {[s EXCEPT !.flying = n] : n \in 0 .. s.flying}

\* Frames that run long lower the resolution, which clears the canvas.
Lowered(s) == {s} \cup IF s.quality > 0 THEN {holeSize([s EXCEPT !.quality = @ - 1])} ELSE {}

HoleTick ==
  /\ scene.kind = "hole" /\ scene.running
  /\ \E a \in Lowered(scene) : \E b \in Idled(a) : \E c \in holeStep(b) : Become(holeDraw(c))
  /\ UNCHANGED page

HoleResized == scene.kind = "hole" /\ Become(holeDraw(holeSize(scene))) /\ UNCHANGED page
HoleWatched == scene.kind = "hole" /\ Watched
HolePointer == scene.kind = "hole" /\ page.motion /\ Become(spawn(scene)) /\ UNCHANGED page

ContextLost ==
  /\ scene.kind = "hole" /\ ~scene.device.lost
  /\ Become([scene EXCEPT !.device.lost = TRUE, !.drawn = FALSE]) /\ UNCHANGED page

PlainToggled == scene.kind = "plain" /\ page' = Toggled /\ Become(scene)

-------------------------------------------------------------------------------
(* The ink stream.                                                           *)

\* A frame: a falling leaf may land or be gone, one afloat may leave.
Drifted(s, n, m) == [streamStill(s) EXCEPT !.flying = n, !.afloat = m]
streamDraw(s) == {Drifted(s, n, m) : n \in 0 .. s.flying, m \in 0 .. s.flying + s.afloat}

StreamTick ==
  /\ scene.kind = "stream" /\ scene.running
  /\ \E a \in Idled(scene) : \E b \in streamDraw(a) :
       b.flying + b.afloat <= a.flying + a.afloat /\ Become(b)
  /\ UNCHANGED page

\* Repainting waits until the size settles.
StreamResized ==
  /\ scene.kind = "stream" /\ UNCHANGED page
  /\ \/ Become([scene EXCEPT !.resizing = TRUE])
     \/ scene.resizing /\ Become([streamStill(streamSize(scene)) EXCEPT !.resizing = FALSE])

StreamWatched == scene.kind = "stream" /\ Watched
StreamPointer == scene.kind = "stream" /\ page.motion /\ Become(spawn(scene)) /\ UNCHANGED page

Next ==
  \/ Remount
  \/ HoleTick \/ HoleResized \/ HoleWatched \/ HolePointer \/ ContextLost \/ PlainToggled
  \/ StreamTick \/ StreamResized \/ StreamWatched \/ StreamPointer

Spec == Init /\ [][Next]_stage

-------------------------------------------------------------------------------

TypeOK ==
  /\ page \in Pages
  /\ scene \in [kind : {"hole", "stream", "plain"}, device : Devices, visible : BOOLEAN,
                running : BOOLEAN, drawn : BOOLEAN, painted : BOOLEAN, flying : 0 .. 9,
                afloat : 0 .. 6, quality : 0 .. TopQuality, resizing : BOOLEAN]
  /\ ticker \in Int

\* The scene's frame callback is on the ticker exactly while there is something
\* to move and someone to see it; a replaced scene leaves none behind, and
\* nothing is left hanging in a picture that stands still for good.
LoopFollows ==
  /\ OneLoop
  /\ scene.running <=> scene.kind # "plain" /\ CanRun(page, scene)
  /\ scene.flying + scene.afloat > 0 => page.motion

\* No canvas is left cleared: what a resize, a lower resolution or a new canvas
\* wiped is painted again, also where nothing moves.
Drawn ==
  /\ scene.kind # "plain" => scene.painted /\ (scene.drawn \/ scene.device.lost)
  /\ scene.flying + scene.afloat <= Most[scene.kind]
=============================================================================
