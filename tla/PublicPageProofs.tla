--------------------------- MODULE PublicPageProofs ---------------------------
(***************************************************************************)
(* What PublicPage keeps true for any number of channels, sections, stars, *)
(* boxes and regions.  Each picture's frame callback is on the ticker      *)
(* exactly when it should be, and no canvas is left cleared or showing     *)
(* something else than what is laid over it; the dialogs leave the page    *)
(* free to scroll, nothing stays hidden, the reader is kept in place, and  *)
(* everything has its type.                                                *)
(***************************************************************************)
EXTENDS PublicPage, TLAPS

-------------------------------------------------------------------------------
(* The glass.                                                                *)

Panes ==
  [kind : {"glass"}, near : 0 .. Boxes, rect : 0 .. Boxes, presence : Pane!Presence,
   running : BOOLEAN, scrolling : BOOLEAN, restTimer : BOOLEAN, rested : BOOLEAN,
   moving : BOOLEAN]

\* A frame of the glass, which has finished where the reader is.
Follows(p, jump, s, t) ==
  /\ t \in Panes
  /\ t.running = s.running /\ t.scrolling = s.scrolling /\ t.near = s.near
  /\ t.restTimer = s.restTimer /\ t.rested = s.rested
  /\ ~t.moving => t.presence = Pane!Want(p, s) /\ (s.near # 0 => t.rect = s.near)
  /\ jump = TRUE => ~t.moving

LEMMA GlassFrame ==
  ASSUME NEW p, NEW jump, NEW s \in Panes, Boxes \in Nat, NEW t \in Pane!Stepped(p, s, jump)
  PROVE  Follows(p, jump, s, t)
<1>1. Pane!target(s).rect = s.near /\ Pane!Want(p, s) \in Pane!Presence
  BY DEF Pane!target, Pane!Want, Pane!Presence
<1>2. PICK done \in Pane!Placed(s, jump), faded \in Pane!Fades(p, s, jump) :
        t = Pane!Frame(p, s, done, faded)
  BY DEF Pane!Stepped
<1>3. done \in BOOLEAN /\ faded \in BOOLEAN /\ (jump => done /\ faded)
  BY DEF Pane!Placed, Pane!Fades
<1>4. t \in Panes
  BY <1>1, <1>2, <1>3 DEF Pane!Frame, Panes, Pane!Presence
<1>5. /\ t.running = s.running /\ t.scrolling = s.scrolling /\ t.near = s.near
      /\ t.restTimer = s.restTimer /\ t.rested = s.rested
  BY <1>2 DEF Pane!Frame, Panes
<1>6. t.moving = ~(done /\ faded)
  BY <1>2 DEF Pane!Frame, Panes
<1>7. done /\ faded => t.presence = Pane!Want(p, s) /\ (s.near # 0 => t.rect = s.near)
  BY <1>1, <1>2 DEF Pane!Frame, Panes
<1>q. QED
  BY <1>3, <1>4, <1>5, <1>6, <1>7 DEF Follows

GlassInv == Pane!TypeOK /\ Pane!LoopFollows /\ Pane!GlassRests

\* The ticker has the callback of a scene that runs, after what it did to itself
\* and after it was replaced.
LEMMA GlassBecomes ==
  ASSUME ticker \in Int, scene.running \in BOOLEAN, Pane!OneLoop,
         NEW t, t.running \in BOOLEAN, Pane!Become(t)
  PROVE  scene' = t /\ ticker' \in Int /\ Pane!OneLoop'
  BY DEF Pane!OneLoop, Pane!Become, Pane!Ticks

LEMMA GlassRebuilt ==
  ASSUME ticker \in Int, scene.running \in BOOLEAN, Pane!OneLoop,
         NEW s, ~s.running, s.running \in BOOLEAN, NEW t, t.running \in BOOLEAN, Pane!Rebuild(s, t)
  PROVE  scene' = t /\ ticker' \in Int /\ Pane!OneLoop'
  BY DEF Pane!OneLoop, Pane!Rebuild, Pane!Ticks

\* A pane placed at once rests where the reader is.
LEMMA GlassPlaced ==
  ASSUME NEW p \in Pane!Pages, NEW near \in 0 .. Boxes, Boxes \in Nat, NEW t \in Pane!PageGlass(p, near)
  PROVE  /\ t \in Panes /\ ~t.scrolling /\ ~t.running
         /\ t.presence = Pane!target(t).presence /\ (t.near # 0 => t.rect = t.near)
<1> DEFINE s == [kind |-> "glass", near |-> near, rect |-> 0, presence |-> "hidden", running |-> FALSE,
                 scrolling |-> FALSE, restTimer |-> FALSE, rested |-> TRUE, moving |-> FALSE]
<1>1. s \in Panes /\ ~s.scrolling /\ ~s.running
  BY DEF Panes, Pane!Presence
<1> DEFINE jump == TRUE
<1>2. t \in Pane!Stepped(p, s, jump) /\ jump = TRUE
  BY DEF Pane!PageGlass
<1> HIDE DEF s, jump
<1>3. Follows(p, jump, s, t)
  BY <1>1, <1>2, GlassFrame
<1>q. QED
  BY <1>1, <1>2, <1>3 DEF Follows, Pane!Want, Pane!target

\* A step of the glass.
LEMMA GlassStep == Boxes \in Nat /\ GlassInv /\ Pane!Next => GlassInv'
<1> SUFFICES ASSUME Boxes \in Nat, GlassInv, Pane!Next PROVE GlassInv'
  OBVIOUS
<1>0. /\ page \in Pane!Pages /\ ticker \in Int /\ scene \in Panes
      /\ Pane!OneLoop /\ (scene.scrolling => scene.restTimer)
      /\ ~scene.running /\ scene.scrolling /\ page.motion => scene.presence = "hidden"
      /\ ~scene.running /\ ~scene.scrolling =>
           scene.presence = Pane!target(scene).presence /\ (scene.near # 0 => scene.rect = scene.near)
  BY DEF GlassInv, Pane!TypeOK, Pane!LoopFollows, Pane!GlassRests, Panes
<1>a. SUFFICES /\ page' \in Pane!Pages /\ ticker' \in Int /\ scene' \in Panes
               /\ Pane!OneLoop' /\ (scene'.scrolling => scene'.restTimer)
               /\ ~scene'.running /\ scene'.scrolling /\ page'.motion => scene'.presence = "hidden"
               /\ ~scene'.running /\ ~scene'.scrolling =>
                    scene'.presence = Pane!target(scene').presence /\ (scene'.near # 0 => scene'.rect = scene'.near)
  BY DEF GlassInv, Pane!TypeOK, Pane!LoopFollows, Pane!GlassRests, Panes, Pane!target
<1>1. CASE Pane!Remount
  <2>1. PICK p \in {page, [page EXCEPT !.motion = ~@]}, near \in 0 .. Boxes :
          page' = p /\ \E s \in Pane!PageGlass(p, near) : Pane!Rebuild(Pane!cleanup(scene), s)
    BY <1>1 DEF Pane!Remount
  <2>2. PICK s \in Pane!PageGlass(p, near) : Pane!Rebuild(Pane!cleanup(scene), s)
    BY <2>1
  <2>3. page' \in Pane!Pages
    BY <1>0, <2>1 DEF Pane!Pages
  <2>4. /\ s \in Panes /\ ~s.scrolling /\ ~s.running
        /\ s.presence = Pane!target(s).presence /\ (s.near # 0 => s.rect = s.near)
    BY <2>1, <2>2, <2>3, GlassPlaced
  <2> DEFINE done == Pane!cleanup(scene)
  <2>5. ~done.running /\ done.running \in BOOLEAN /\ Pane!Rebuild(done, s)
    BY <1>0, <2>2 DEF Pane!cleanup, Pane!stop, Panes
  <2> HIDE DEF done
  <2>6. scene' = s /\ ticker' \in Int /\ Pane!OneLoop'
    BY <2>4, <2>5, <1>0, GlassRebuilt DEF Panes
  <2>q. QED
    BY <2>3, <2>4, <2>6
<1>2. CASE Pane!Tick
  <2> DEFINE jump == ~page.motion
  <2>1. PICK s \in Pane!Stepped(page, scene, jump) :
          \/ Pane!Become(s)
          \/ ~s.moving /\ s.rested /\ Pane!Become(Pane!stop(s))
    BY <1>2 DEF Pane!Tick
  <2> HIDE DEF jump
  <2>2. Follows(page, jump, scene, s)
    BY <1>0, <2>1, GlassFrame
  <2>3. scene.running /\ page' = page
    BY <1>2 DEF Pane!Tick
  <2>4. CASE Pane!Become(s)
    <3>1. scene' = s /\ ticker' \in Int /\ Pane!OneLoop'
      BY <2>2, <2>4, <1>0, GlassBecomes DEF Follows, Panes
    <3>q. QED
      BY <1>0, <2>2, <2>3, <3>1 DEF Follows
  <2>5. CASE ~s.moving /\ Pane!Become(Pane!stop(s))
    <3>1. /\ Pane!stop(s) \in Panes /\ ~Pane!stop(s).running
          /\ Pane!stop(s).scrolling = s.scrolling /\ Pane!stop(s).restTimer = s.restTimer
          /\ Pane!stop(s).near = s.near /\ Pane!stop(s).rect = s.rect /\ Pane!stop(s).presence = s.presence
      BY <2>2 DEF Follows, Pane!stop, Panes
    <3>2. scene' = Pane!stop(s) /\ ticker' \in Int /\ Pane!OneLoop'
      BY <2>5, <3>1, <1>0, GlassBecomes DEF Follows, Panes
    <3>q. QED
      BY <1>0, <2>2, <2>3, <2>5, <3>1, <3>2 DEF Follows, Pane!Want, Pane!target
  <2>q. QED
    BY <2>1, <2>4, <2>5
<1>3. CASE Pane!onScroll
  <2>1. PICK near \in 0 .. Boxes :
          Pane!Become(Pane!begin([scene EXCEPT !.near = near, !.scrolling = TRUE, !.restTimer = TRUE, !.rested = FALSE]))
    BY <1>3 DEF Pane!onScroll
  <2> DEFINE t == Pane!begin([scene EXCEPT !.near = near, !.scrolling = TRUE, !.restTimer = TRUE, !.rested = FALSE])
  <2>2. t \in Panes /\ t.running /\ t.restTimer
    BY <1>0 DEF Pane!begin, Panes
  <2> HIDE DEF t
  <2>3. scene' = t /\ ticker' \in Int /\ Pane!OneLoop' /\ page' = page
    BY <1>3, <2>1, <2>2, <1>0, GlassBecomes DEF t, Panes, Pane!onScroll
  <2>q. QED
    BY <1>0, <2>2, <2>3
<1>4. CASE Pane!Rests
  <2> DEFINE t == Pane!begin([scene EXCEPT !.scrolling = FALSE, !.restTimer = FALSE, !.rested = TRUE])
  <2>2. t \in Panes /\ t.running /\ ~t.scrolling
    BY <1>0 DEF Pane!begin, Panes
  <2>1. Pane!Become(t) /\ page' = page
    BY <1>4 DEF Pane!Rests
  <2> HIDE DEF t
  <2>3. scene' = t /\ ticker' \in Int /\ Pane!OneLoop'
    BY <2>1, <2>2, <1>0, GlassBecomes DEF Panes
  <2>q. QED
    BY <1>0, <2>1, <2>2, <2>3
<1>5. CASE Pane!onResize
  <2>1. PICK near \in 0 .. Boxes :
          Pane!Become(Pane!begin([scene EXCEPT !.near = near, !.rested = TRUE]))
    BY <1>5 DEF Pane!onResize
  <2> DEFINE t == Pane!begin([scene EXCEPT !.near = near, !.rested = TRUE])
  <2>2. t \in Panes /\ t.running /\ (t.scrolling => t.restTimer)
    BY <1>0 DEF Pane!begin, Panes
  <2> HIDE DEF t
  <2>3. scene' = t /\ ticker' \in Int /\ Pane!OneLoop' /\ page' = page
    BY <1>5, <2>1, <2>2, <1>0, GlassBecomes DEF t, Panes, Pane!onResize
  <2>q. QED
    BY <1>0, <2>2, <2>3
<1>q. QED
  BY <1>1, <1>2, <1>3, <1>4, <1>5 DEF Pane!Next

-------------------------------------------------------------------------------
(* The backdrop.                                                             *)

Skies == [kind : {"sky"}, current : Back!Sections \cup {Back!None}, visible : BOOLEAN,
          running : BOOLEAN, drawn : BOOLEAN, shooters : 0 .. MaxShooters]
Groves == [kind : {"grove"}, current : Back!Sections \cup {Back!None}, visible : BOOLEAN,
           running : BOOLEAN, drawn : BOOLEAN, swaying : BOOLEAN, falling : 0 .. 2,
           timer : BOOLEAN, resizing : BOOLEAN]

\* What a sky and a grove that are drawn are, on page p.
SkyFine(p, s) == s \in Skies /\ s.drawn /\ (s.running <=> Back!CanRun(p, s))
GroveFine(p, s) ==
  /\ s \in Groves /\ s.drawn /\ s.visible
  /\ s.running <=> ~p.hidden /\ (s.swaying \/ s.falling > 0)
  /\ s.swaying \/ s.falling > 0 \/ s.timer => p.motion
SceneryFine(p, s) == SkyFine(p, s) \/ GroveFine(p, s)

BackInv == page \in Back!Pages /\ ticker \in Int /\ Back!OneLoop /\ SceneryFine(page, scene)

LEMMA BackKinds == \A s : (s \in Skies => s.kind = "sky") /\ (s \in Groves => s.kind = "grove")
  BY DEF Skies, Groves

LEMMA BackBecomes ==
  ASSUME ticker \in Int, scene.running \in BOOLEAN, Back!OneLoop,
         NEW t, t.running \in BOOLEAN, Back!Become(t)
  PROVE  scene' = t /\ ticker' \in Int /\ Back!OneLoop'
  BY DEF Back!OneLoop, Back!Become, Back!Ticks

LEMMA BackRebuilt ==
  ASSUME ticker \in Int, scene.running \in BOOLEAN, Back!OneLoop,
         NEW s, ~s.running, s.running \in BOOLEAN, NEW t, t.running \in BOOLEAN, Back!Rebuild(s, t)
  PROVE  scene' = t /\ ticker' \in Int /\ Back!OneLoop'
  BY DEF Back!OneLoop, Back!Rebuild, Back!Ticks

\* Starting and stopping, which the sky does with its visibility.
LEMMA SkyStarts ==
  ASSUME NEW p \in Back!Pages, NEW s \in Skies, s.drawn, s.running => Back!CanRun(p, s)
  PROVE  SkyFine(p, Back!start(p, s))
<1> DEFINE t == Back!start(p, s)
<1>1. Back!CanRun(p, s) \in BOOLEAN /\ s.running \in BOOLEAN
  BY DEF Back!Pages, Back!CanRun, Skies
<1>2. t.running = (s.running \/ Back!CanRun(p, s)) /\ t.visible = s.visible /\ t.drawn = s.drawn
  BY DEF Back!start, Skies
<1>3. t \in Skies
  BY <1>1 DEF Back!start, Skies
<1>q. QED
  BY <1>1, <1>2, <1>3 DEF SkyFine, Back!CanRun

LEMMA SkyStops ==
  ASSUME NEW p \in Back!Pages, NEW s \in Skies, s.drawn, ~Back!CanRun(p, s)
  PROVE  SkyFine(p, Back!stop(s))
  BY DEF SkyFine, Back!stop, Skies, Back!CanRun

\* A new scenery is fine.
LEMMA SceneryStarts ==
  ASSUME NEW p \in Back!Pages, NEW c \in Back!Sections \cup {Back!None}, MaxShooters \in Nat
  PROVE  SceneryFine(p, Back!Scenery(p, c))
<1>1. p.motion \in BOOLEAN /\ p.hidden \in BOOLEAN
  BY DEF Back!Pages
<1>2. SkyFine(p, Back!NightSky(p, c))
  <2> DEFINE s == [kind |-> "sky", current |-> c, visible |-> TRUE, running |-> FALSE,
                   drawn |-> TRUE, shooters |-> 0]
  <2>1. s \in Skies /\ s.drawn /\ ~s.running
    BY DEF Skies
  <2> HIDE DEF s
  <2>2. SkyFine(p, Back!start(p, s))
    BY <2>1, SkyStarts
  <2>q. QED
    BY <2>2 DEF s, Back!NightSky
<1>3. GroveFine(p, Back!BambooGrove(p, c))
  BY <1>1 DEF GroveFine, Groves, Back!BambooGrove
<1>q. QED
  BY <1>2, <1>3 DEF SceneryFine, Back!Scenery

\* Whatever a scene that is fine does to itself, it remains so.
LEMMA BackBecomesFine ==
  ASSUME BackInv, NEW p \in Back!Pages, page' = p, NEW t, SceneryFine(p, t), Back!Become(t)
  PROVE  BackInv'
<1>1. scene.running \in BOOLEAN /\ t.running \in BOOLEAN
  BY DEF BackInv, SceneryFine, SkyFine, GroveFine, Skies, Groves
<1>2. scene' = t /\ ticker' \in Int /\ Back!OneLoop'
  BY <1>1, BackBecomes DEF BackInv
<1>q. QED
  BY <1>2 DEF BackInv, SceneryFine, SkyFine, GroveFine, Back!CanRun

\* A step of the backdrop.
LEMMA BackStep == MaxShooters \in Nat /\ LastSection \in Nat /\ BackInv /\ Back!Next => BackInv'
<1> SUFFICES ASSUME MaxShooters \in Nat, LastSection \in Nat, BackInv, Back!Next PROVE BackInv'
  OBVIOUS
<1>0. /\ page \in Back!Pages /\ ticker \in Int /\ Back!OneLoop /\ SceneryFine(page, scene)
      /\ page.motion \in BOOLEAN /\ page.hidden \in BOOLEAN
  BY DEF BackInv, Back!Pages
<1>k. /\ scene.kind = "sky" => SkyFine(page, scene)
      /\ scene.kind = "grove" => GroveFine(page, scene)
      /\ scene.running \in BOOLEAN /\ scene.current \in Back!Sections \cup {Back!None}
  BY <1>0 DEF SceneryFine, SkyFine, GroveFine, Skies, Groves
<1>t. Back!Toggled \in Back!Pages /\ Back!Toggled.hidden = ~page.hidden /\ Back!Toggled.motion = page.motion
  BY <1>0 DEF Back!Toggled, Back!Pages
<1>1. CASE Back!Remount
  <2>1. PICK p \in Back!Pages :
          page' = p /\ Back!Rebuild(Back!cleanup(scene), Back!Scenery(p, scene.current))
    BY <1>1 DEF Back!Remount
  <2> DEFINE done == Back!cleanup(scene)
             t == Back!Scenery(p, scene.current)
  <2>2. ~done.running /\ done.running \in BOOLEAN
    BY <1>0 DEF Back!cleanup, Back!skyCleanup, Back!groveCleanup, Back!stop, SceneryFine, SkyFine, GroveFine, Skies, Groves
  <2>3. SceneryFine(p, t)
    BY <2>1, <1>k, SceneryStarts
  <2>4. Back!Rebuild(done, t)
    BY <2>1
  <2> HIDE DEF done, t
  <2>5. t.running \in BOOLEAN
    BY <2>3 DEF SceneryFine, SkyFine, GroveFine, Skies, Groves
  <2>6. scene' = t /\ ticker' \in Int /\ Back!OneLoop'
    BY <1>0, <1>k, <2>2, <2>4, <2>5, BackRebuilt
  <2>q. QED
    BY <2>1, <2>3, <2>6 DEF BackInv, SceneryFine, SkyFine, GroveFine, Back!CanRun
<1>2. CASE Back!Arrive
  <2>1. PICK index \in Back!Sections :
          LET s == [scene EXCEPT !.current = index]
          IN Back!Become(IF scene.current = Back!None THEN s
                         ELSE IF s.kind = "sky" THEN Back!shoot(s, index) ELSE Back!sway(s))
    BY <1>2 DEF Back!Arrive
  <2> DEFINE s == [scene EXCEPT !.current = index]
  <2>2. CASE scene \in Skies
    <3>1. SkyFine(page, s) /\ s \in Skies
      BY <1>k, <2>2, BackKinds DEF SkyFine, Skies, Back!CanRun
    <3>2. SkyFine(page, Back!shoot(s, index))
      <4> HIDE DEF s
      <4>q. QED
        BY <3>1 DEF Back!shoot, SkyFine, Skies, Back!CanRun
    <3>3. s.kind = "sky"
      BY <3>1, BackKinds
    <3>4. \E t : SceneryFine(page, t) /\ Back!Become(t)
      BY <2>1, <3>1, <3>2, <3>3 DEF SceneryFine
    <3>q. QED
      BY <1>0, <1>2, <3>4, BackBecomesFine DEF Back!Arrive
  <2>3. CASE scene \in Groves
    <3>1. GroveFine(page, s) /\ s \in Groves
      BY <1>k, <2>3, BackKinds DEF GroveFine, Groves
    <3>2. GroveFine(page, Back!sway(s))
      <4> HIDE DEF s
      <4>q. QED
        BY <1>0, <3>1 DEF Back!sway, Back!start, GroveFine, Groves, Back!CanRun
    <3>3. s.kind = "grove"
      BY <3>1, BackKinds
    <3>4. \E t : SceneryFine(page, t) /\ Back!Become(t)
      BY <2>1, <3>1, <3>2, <3>3 DEF SceneryFine
    <3>q. QED
      BY <1>0, <1>2, <3>4, BackBecomesFine DEF Back!Arrive
  <2>q. QED
    BY <1>0, <2>2, <2>3 DEF SceneryFine, SkyFine, GroveFine
<1>3. CASE Back!Rewatched
  <2> DEFINE t == [scene EXCEPT !.current = Back!None]
  <2>1. SceneryFine(page, t)
    BY <1>0 DEF SceneryFine, SkyFine, GroveFine, Skies, Groves, Back!CanRun
  <2>2. Back!Become(t) /\ page' = page
    BY <1>3 DEF Back!Rewatched
  <2>q. QED
    BY <1>0, <2>1, <2>2, BackBecomesFine
<1>4. CASE Back!SkyTick
  <2>1. PICK n \in 0 .. scene.shooters : Back!Become([scene EXCEPT !.drawn = TRUE, !.shooters = n])
    BY <1>4 DEF Back!SkyTick
  <2> DEFINE t == [scene EXCEPT !.drawn = TRUE, !.shooters = n]
  <2>2. SkyFine(page, t)
    <3>1. SkyFine(page, scene)
      BY <1>4, <1>k DEF Back!SkyTick
    <3>2. n \in 0 .. MaxShooters
      BY <2>1, <3>1 DEF SkyFine, Skies
    <3>3. t \in Skies /\ t.drawn /\ t.running = scene.running /\ t.visible = scene.visible
      BY <3>1, <3>2 DEF SkyFine, Skies
    <3>q. QED
      BY <3>1, <3>3 DEF SkyFine, Back!CanRun
  <2>q. QED
    BY <1>0, <1>4, <2>1, <2>2, BackBecomesFine DEF SceneryFine, Back!SkyTick
<1>5. CASE Back!SkyWatched
  <2>1. SkyFine(page, scene) /\ scene \in Skies
    BY <1>5, <1>k DEF Back!SkyWatched, SkyFine
  <2>2. CASE Back!Become(Back!Observed(scene)) /\ page' = page
    <3> DEFINE s == [scene EXCEPT !.visible = ~@]
    <3>1. s \in Skies /\ s.drawn /\ s.running = scene.running /\ s.visible = ~scene.visible
      BY <2>1 DEF SkyFine, Skies
    <3>2. SkyFine(page, Back!start(page, s)) \/ ~s.visible
      <4> HIDE DEF s
      <4>q. QED
        BY <1>0, <2>1, <3>1, SkyStarts DEF SkyFine, Back!CanRun
    <3>3. SkyFine(page, Back!stop(s)) \/ s.visible
      <4> HIDE DEF s
      <4>q. QED
        BY <1>0, <3>1, SkyStops DEF Back!CanRun
    <3>4. SkyFine(page, Back!Observed(scene))
      BY <3>2, <3>3 DEF Back!Observed
    <3>q. QED
      BY <1>0, <2>2, <3>4, BackBecomesFine DEF SceneryFine
  <2>3. CASE page' = Back!Toggled /\ Back!Become(Back!onVisibility(Back!Toggled, scene))
    <3> DEFINE p == Back!Toggled
    <3>1. SkyFine(p, Back!onVisibility(p, scene))
      <4>1. p \in Back!Pages /\ p.hidden = ~page.hidden
        BY <1>t
      <4> HIDE DEF p
      <4>2. CASE p.hidden
        BY <2>1, <4>1, <4>2, SkyStops DEF Back!onVisibility, SkyFine, Back!CanRun
      <4>3. CASE ~p.hidden
        BY <1>0, <2>1, <4>1, <4>3, SkyStarts DEF Back!onVisibility, SkyFine, Back!CanRun
      <4>q. QED
        BY <4>2, <4>3
    <3>q. QED
      BY <1>t, <2>3, <3>1, BackBecomesFine DEF SceneryFine
  <2>q. QED
    BY <1>5, <2>2, <2>3 DEF Back!SkyWatched, Back!Watched
<1>6. CASE Back!SkyResized
  <2> DEFINE t == [Back!skySize(scene) EXCEPT !.drawn = TRUE]
  <2>1. SkyFine(page, t)
    BY <1>6, <1>k DEF Back!SkyResized, Back!skySize, SkyFine, Skies, Back!CanRun
  <2>q. QED
    BY <1>0, <1>6, <2>1, BackBecomesFine DEF SceneryFine, Back!SkyResized
<1>7. CASE Back!GroveTick
  <2>1. GroveFine(page, scene) /\ page' = page /\ scene.running
    BY <1>7, <1>k DEF Back!GroveTick
  <2>2. PICK swaying \in {scene.swaying, FALSE}, n \in 0 .. scene.falling :
          LET s == [Back!drawGrove(scene) EXCEPT !.swaying = swaying, !.falling = n]
          IN Back!Become(IF ~swaying /\ n = 0 THEN Back!stop(s) ELSE s)
    BY <1>7 DEF Back!GroveTick
  <2> DEFINE s == [Back!drawGrove(scene) EXCEPT !.swaying = swaying, !.falling = n]
  <2>3. /\ s \in Groves /\ s.drawn /\ s.visible /\ s.running = scene.running
        /\ s.swaying = swaying /\ s.falling = n /\ n \in 0 .. 2 /\ swaying \in BOOLEAN
        /\ s.timer = scene.timer
    <3>1. swaying \in BOOLEAN /\ n \in 0 .. 2
      <4>1. scene.swaying \in BOOLEAN /\ scene.falling \in 0 .. 2
        BY <2>1 DEF GroveFine, Groves
      <4>2. swaying = scene.swaying \/ swaying = FALSE
        OBVIOUS
      <4>3. swaying \in BOOLEAN
        BY <4>1, <4>2
      <4>4. n \in 0 .. 2
        BY <4>1
      <4>q. QED
        BY <4>3, <4>4
    <3>2. s \in Groves
      BY <2>1, <3>1 DEF Back!drawGrove, GroveFine, Groves
    <3>3. s.drawn /\ s.visible = scene.visible /\ s.running = scene.running /\ s.timer = scene.timer
      BY <2>1 DEF Back!drawGrove, GroveFine, Groves
    <3>4. s.falling = n
      BY <2>1 DEF Back!drawGrove, GroveFine, Groves
    <3>5. s.swaying = swaying
      BY <2>1 DEF Back!drawGrove, GroveFine, Groves
    <3>q. QED
      BY <2>1, <3>1, <3>2, <3>3, <3>4, <3>5 DEF GroveFine
  <2>4. GroveFine(page, IF ~swaying /\ n = 0 THEN Back!stop(s) ELSE s)
    <3> HIDE DEF s
    <3>0. /\ scene.timer => page.motion
          /\ scene.swaying \/ scene.falling > 0 => page.motion
          /\ ~page.hidden /\ page.motion
      BY <2>1 DEF GroveFine
    <3>1. CASE ~swaying /\ n = 0
      <4>1. /\ Back!stop(s) \in Groves /\ ~Back!stop(s).running /\ Back!stop(s).drawn
            /\ Back!stop(s).visible
        BY <2>3 DEF Back!stop, Groves
      <4>2. Back!stop(s).falling = s.falling /\ Back!stop(s).swaying = s.swaying
        BY <2>3 DEF Back!stop, Groves
      <4>q. QED
        BY <2>3, <3>0, <3>1, <4>1, <4>2 DEF GroveFine
    <3>2. CASE swaying \/ n > 0
      <4>1. s.swaying \/ s.falling > 0
        BY <2>3, <3>2
      <4>2. s.running
        BY <2>1, <2>3
      <4>3. GroveFine(page, s)
        BY <2>3, <3>0, <4>1, <4>2 DEF GroveFine
      <4>q. QED
        BY <3>2, <4>3
    <3>q. QED
      BY <2>3, <3>1, <3>2
  <2>q. QED
    BY <1>0, <2>1, <2>2, <2>4, BackBecomesFine DEF SceneryFine
<1>8. CASE Back!LeafTimer
  <2>1. GroveFine(page, scene) /\ page' = page /\ scene.timer
    BY <1>8, <1>k DEF Back!LeafTimer
  <2> DEFINE s == [scene EXCEPT !.falling = @ + 1]
             t == IF page.hidden \/ scene.falling >= 2 THEN scene ELSE Back!start(page, s)
  <2>2. GroveFine(page, t)
    <3>1. CASE page.hidden \/ scene.falling >= 2
      BY <2>1, <3>1
    <3>2. CASE ~(page.hidden \/ scene.falling >= 2)
      <4>1. s \in Groves /\ s.drawn /\ s.visible /\ s.falling > 0 /\ s.timer /\ s.running \in BOOLEAN
        BY <2>1, <3>2 DEF GroveFine, Groves
      <4>2. Back!CanRun(page, s) /\ page.motion
        BY <2>1, <3>2, <4>1 DEF Back!CanRun, GroveFine
      <4> HIDE DEF s
      <4>3. /\ Back!start(page, s) \in Groves /\ Back!start(page, s).running
            /\ Back!start(page, s).drawn /\ Back!start(page, s).visible
            /\ Back!start(page, s).falling > 0
        BY <4>1, <4>2 DEF Back!start, Groves
      <4>q. QED
        BY <3>2, <4>2, <4>3 DEF GroveFine
    <3>q. QED
      BY <3>1, <3>2
  <2>3. Back!Become(t)
    BY <1>8 DEF Back!LeafTimer
  <2>q. QED
    BY <1>0, <2>1, <2>2, <2>3, BackBecomesFine DEF SceneryFine
<1>9. CASE Back!GroveResized
  <2>1. GroveFine(page, scene) /\ page' = page
    BY <1>9, <1>k DEF Back!GroveResized
  <2> DEFINE s == [scene EXCEPT !.resizing = TRUE]
             t == Back!drawGrove([Back!groveSize(scene) EXCEPT !.resizing = FALSE])
  <2>2. GroveFine(page, s) /\ GroveFine(page, t)
    BY <2>1 DEF Back!drawGrove, Back!groveSize, GroveFine, Groves
  <2>3. Back!Become(s) \/ Back!Become(t)
    BY <1>9 DEF Back!GroveResized
  <2>q. QED
    BY <1>0, <2>1, <2>2, <2>3, BackBecomesFine DEF SceneryFine
<1>10. CASE Back!GroveToggled
  <2> DEFINE p == Back!Toggled
             t == IF ~page.hidden THEN Back!stop(scene)
                  ELSE IF scene.falling > 0 \/ scene.swaying THEN Back!start(p, scene) ELSE scene
  <2>1. GroveFine(page, scene) /\ page' = p /\ Back!Become(t)
    BY <1>10, <1>k DEF Back!GroveToggled
  <2>2. p \in Back!Pages /\ p.hidden = ~page.hidden /\ p.motion = page.motion
    BY <1>t
  <2> HIDE DEF p
  <2>3. GroveFine(p, t)
    <3>1. CASE ~page.hidden
      BY <2>1, <2>2, <3>1 DEF Back!stop, GroveFine, Groves
    <3>2. CASE page.hidden /\ ~(scene.falling > 0 \/ scene.swaying)
      BY <2>1, <2>2, <3>2 DEF GroveFine, Groves
    <3>3. CASE page.hidden /\ (scene.falling > 0 \/ scene.swaying)
      <4>1. Back!CanRun(p, scene)
        BY <2>1, <2>2, <3>3 DEF Back!CanRun, GroveFine
      <4>2. /\ Back!start(p, scene) \in Groves /\ Back!start(p, scene).running
            /\ Back!start(p, scene).drawn /\ Back!start(p, scene).visible
            /\ Back!start(p, scene).falling = scene.falling
            /\ Back!start(p, scene).swaying = scene.swaying
        BY <2>1, <4>1 DEF Back!start, GroveFine, Groves
      <4>q. QED
        BY <2>1, <2>2, <3>3, <4>1, <4>2 DEF GroveFine, Back!CanRun
    <3>q. QED
      BY <1>0, <3>1, <3>2, <3>3
  <2>q. QED
    BY <2>1, <2>2, <2>3, BackBecomesFine DEF SceneryFine
<1>q. QED
  BY <1>1, <1>2, <1>3, <1>4, <1>5, <1>6, <1>7, <1>8, <1>9, <1>10 DEF Back!Next

-------------------------------------------------------------------------------
(* The hero.                                                                 *)

Heroes ==
  [kind : {"hole", "stream", "plain"}, device : Hero!Devices, visible : BOOLEAN,
   running : BOOLEAN, drawn : BOOLEAN, painted : BOOLEAN, flying : 0 .. 9,
   afloat : 0 .. 6, quality : 0 .. Hero!TopQuality, resizing : BOOLEAN]

\* Everything of a hero but its canvas: what flies, and whether it has frames.
HeroMoves(p, s) ==
  /\ s \in Heroes
  /\ s.running <=> s.kind # "plain" /\ Hero!CanRun(p, s)
  /\ s.flying + s.afloat > 0 => p.motion
  /\ s.flying + s.afloat <= Hero!Most[s.kind]
  /\ s.kind # "plain" => s.painted
HeroDrawn(s) == s.kind # "plain" => s.drawn \/ s.device.lost
HeroFine(p, s) == HeroMoves(p, s) /\ HeroDrawn(s)

HeroInv == page \in Hero!Pages /\ ticker \in Int /\ Hero!OneLoop /\ HeroFine(page, scene)

LEMMA HeroBecomes ==
  ASSUME ticker \in Int, scene.running \in BOOLEAN, Hero!OneLoop,
         NEW t, t.running \in BOOLEAN, Hero!Become(t)
  PROVE  scene' = t /\ ticker' \in Int /\ Hero!OneLoop'
  BY DEF Hero!OneLoop, Hero!Become, Hero!Ticks

LEMMA HeroRebuilt ==
  ASSUME ticker \in Int, scene.running \in BOOLEAN, Hero!OneLoop,
         NEW s, ~s.running, s.running \in BOOLEAN, NEW t, t.running \in BOOLEAN, Hero!Rebuild(s, t)
  PROVE  scene' = t /\ ticker' \in Int /\ Hero!OneLoop'
  BY DEF Hero!OneLoop, Hero!Rebuild, Hero!Ticks

LEMMA HeroBecomesFine ==
  ASSUME HeroInv, NEW p \in Hero!Pages, page' = p, NEW t, HeroFine(p, t), Hero!Become(t)
  PROVE  HeroInv'
<1>1. scene.running \in BOOLEAN /\ t.running \in BOOLEAN
  BY DEF HeroInv, HeroFine, HeroMoves, Heroes
<1>2. scene' = t /\ ticker' \in Int /\ Hero!OneLoop'
  BY <1>1, HeroBecomes DEF HeroInv
<1>q. QED
  BY <1>2 DEF HeroInv, HeroFine, HeroMoves, HeroDrawn, Hero!CanRun

LEMMA HeroMost == Hero!Most["hole"] = 9 /\ Hero!Most["stream"] = 6 /\ Hero!Most["plain"] = 0
  BY DEF Hero!Most

\* What a canvas looks like does not matter to what moves.
LEMMA HeroLooks ==
  ASSUME NEW p, NEW s, HeroMoves(p, s), NEW t \in Heroes,
         t.kind = s.kind, t.visible = s.visible, t.running = s.running,
         t.flying = s.flying, t.afloat = s.afloat, s.kind # "plain" => t.painted
  PROVE  HeroMoves(p, t)
  BY DEF HeroMoves, Hero!CanRun

\* Fewer fly.
LEMMA HeroFewer ==
  ASSUME NEW p, NEW s, HeroMoves(p, s), NEW t \in Heroes,
         t.kind = s.kind, t.visible = s.visible, t.running = s.running,
         t.painted = s.painted, t.flying + t.afloat <= s.flying + s.afloat
  PROVE  HeroMoves(p, t)
<1>1. Hero!Most[s.kind] \in Int
  BY HeroMost DEF HeroMoves, Heroes
<1>2. /\ s.flying + s.afloat \in Int /\ t.flying + t.afloat \in Int
  BY DEF HeroMoves, Heroes
<1>q. QED
  BY <1>1, <1>2 DEF HeroMoves, Hero!CanRun

\* Starting and stopping.
LEMMA HeroStarts ==
  ASSUME NEW p \in Hero!Pages, NEW s \in Heroes, s.kind # "plain" => s.painted,
         s.running => s.kind # "plain" /\ Hero!CanRun(p, s), s.kind # "plain",
         s.flying + s.afloat > 0 => p.motion, s.flying + s.afloat <= Hero!Most[s.kind]
  PROVE  HeroMoves(p, Hero!start(p, s)) /\ Hero!start(p, s).drawn = s.drawn
         /\ Hero!start(p, s).device = s.device /\ Hero!start(p, s).kind = s.kind
<1> DEFINE t == Hero!start(p, s)
<1>1. Hero!CanRun(p, s) \in BOOLEAN /\ s.running \in BOOLEAN
  BY DEF Hero!Pages, Hero!CanRun, Heroes
<1>2. /\ t.running = (s.running \/ Hero!CanRun(p, s)) /\ t.visible = s.visible /\ t.drawn = s.drawn
      /\ t.kind = s.kind /\ t.painted = s.painted /\ t.flying = s.flying /\ t.afloat = s.afloat
      /\ t.device = s.device
  BY DEF Hero!start, Heroes
<1>3. t \in Heroes
  BY <1>1 DEF Hero!start, Heroes
<1> HIDE DEF t
<1>4. t.running <=> t.kind # "plain" /\ Hero!CanRun(p, t)
  BY <1>1, <1>2 DEF Hero!CanRun
<1>5. HeroMoves(p, t)
  BY <1>2, <1>3, <1>4 DEF HeroMoves
<1>q. QED
  BY <1>2, <1>5 DEF t

LEMMA HeroStops ==
  ASSUME NEW p \in Hero!Pages, NEW s \in Heroes, s.kind # "plain" => s.painted, ~Hero!CanRun(p, s),
         s.flying + s.afloat > 0 => p.motion, s.flying + s.afloat <= Hero!Most[s.kind]
  PROVE  HeroMoves(p, Hero!stop(s)) /\ Hero!stop(s).drawn = s.drawn
         /\ Hero!stop(s).device = s.device /\ Hero!stop(s).kind = s.kind
  BY DEF HeroMoves, Hero!stop, Heroes, Hero!CanRun

\* The pointer, or an idle moment, adds at most one.
LEMMA HeroSpawns ==
  ASSUME page \in Hero!Pages, NEW s, HeroMoves(page, s)
  PROVE  HeroMoves(page, Hero!spawn(s)) /\ Hero!spawn(s).drawn = s.drawn
         /\ Hero!spawn(s).device = s.device /\ Hero!spawn(s).kind = s.kind
<1>1. CASE ~page.motion \/ s.flying + s.afloat >= Hero!Most[s.kind]
  BY <1>1 DEF Hero!spawn
<1>2. CASE page.motion /\ ~(s.flying + s.afloat >= Hero!Most[s.kind])
  <2> DEFINE t == [s EXCEPT !.flying = @ + 1]
  <2>1. s \in Heroes /\ s.kind \in {"hole", "stream", "plain"}
    BY DEF HeroMoves, Heroes
  <2>2. s.kind # "plain" /\ s.flying + s.afloat + 1 <= Hero!Most[s.kind] /\ s.flying < 9
    BY <1>2, <2>1, HeroMost DEF Heroes
  <2>3. /\ t \in Heroes /\ t.kind = s.kind /\ t.running = s.running /\ t.visible = s.visible
        /\ t.painted = s.painted /\ t.flying + t.afloat = s.flying + s.afloat + 1
        /\ t.drawn = s.drawn /\ t.device = s.device
    BY <2>1, <2>2 DEF Heroes
  <2>4. Hero!spawn(s) = Hero!start(page, t)
    BY <1>2 DEF Hero!spawn
  <2> HIDE DEF t
  <2>q. QED
    BY <1>2, <2>2, <2>3, <2>4, HeroStarts DEF HeroMoves, Hero!CanRun
<1>q. QED
  BY <1>1, <1>2

\* A new hero is fine.
LEMMA HeroFresh ==
  ASSUME NEW kind \in {"hole", "stream", "plain"}, NEW device \in Hero!Devices
  PROVE  /\ Hero!Fresh(kind, device) \in Heroes
         /\ Hero!Fresh(kind, device).kind = kind /\ Hero!Fresh(kind, device).device = device
         /\ ~Hero!Fresh(kind, device).running
         /\ Hero!Fresh(kind, device).flying + Hero!Fresh(kind, device).afloat = 0
         /\ Hero!Fresh(kind, device).painted = (kind # "stream")
<1> DEFINE f == Hero!Fresh(kind, device)
           wet == kind # "stream"
<1>1. f = [kind |-> kind, device |-> device, visible |-> TRUE, running |-> FALSE,
           drawn |-> FALSE, painted |-> wet, flying |-> 0, afloat |-> 0,
           quality |-> Hero!TopQuality, resizing |-> FALSE]
  BY DEF Hero!Fresh
<1>2. wet \in BOOLEAN
  OBVIOUS
<1>3. Hero!TopQuality \in 0 .. Hero!TopQuality
  BY DEF Hero!TopQuality
<1> HIDE DEF wet, f
<1>4. f \in Heroes
  BY <1>1, <1>2, <1>3 DEF Heroes
<1>5. f.kind = kind /\ f.device = device /\ ~f.running /\ f.flying + f.afloat = 0 /\ f.painted = wet
  BY <1>1
<1>q. QED
  BY <1>4, <1>5 DEF f, wet

LEMMA BlackHoleFine ==
  ASSUME NEW p \in Hero!Pages, NEW device \in Hero!Devices
  PROVE  HeroFine(p, Hero!BlackHole(p, device))
<1>1. CASE Hero!createBlackHole(device)
  <2> DEFINE f == Hero!Fresh("hole", device)
             d == Hero!holeDraw(Hero!holeSize(f))
  <2>1. /\ f \in Heroes /\ f.kind = "hole" /\ f.device = device /\ ~f.running
        /\ f.flying + f.afloat = 0 /\ f.painted
    BY HeroFresh
  <2>2. device.lost = FALSE
    BY <1>1 DEF Hero!createBlackHole, Hero!Devices
  <2>3. d \in Heroes /\ d.kind = "hole" /\ ~d.running /\ d.flying + d.afloat = 0 /\ d.painted /\ d.drawn
    <3> HIDE DEF f
    <3>q. QED
      BY <2>1, <2>2 DEF Hero!holeDraw, Hero!holeSize, Heroes
  <2> HIDE DEF d
  <2>4. HeroMoves(p, Hero!start(p, d)) /\ Hero!start(p, d).drawn
    BY <2>3, HeroStarts, HeroMost
  <2>q. QED
    BY <1>1, <2>4 DEF d, Hero!BlackHole, HeroFine, HeroDrawn
<1>2. CASE ~Hero!createBlackHole(device)
  <2> DEFINE f == Hero!Fresh("plain", device)
  <2>1. f \in Heroes /\ f.kind = "plain" /\ ~f.running /\ f.flying + f.afloat = 0
    BY HeroFresh
  <2> HIDE DEF f
  <2>2. HeroFine(p, f)
    BY <2>1, HeroMost DEF HeroFine, HeroMoves, HeroDrawn
  <2>q. QED
    BY <1>2, <2>2 DEF f, Hero!BlackHole
<1>q. QED
  BY <1>1, <1>2

LEMMA InkStreamFine ==
  ASSUME NEW p \in Hero!Pages, NEW device \in Hero!Devices
  PROVE  HeroFine(p, Hero!InkStream(p, device))
<1> DEFINE f == Hero!Fresh("stream", device)
           d == Hero!streamStill(Hero!streamSize(f))
<1>1. f \in Heroes /\ f.kind = "stream" /\ ~f.running /\ f.flying + f.afloat = 0
  BY HeroFresh
<1>2. d \in Heroes /\ d.kind = "stream" /\ ~d.running /\ d.flying + d.afloat = 0 /\ d.painted /\ d.drawn
  <2> HIDE DEF f
  <2>q. QED
    BY <1>1 DEF Hero!streamStill, Hero!streamSize, Hero!paint, Heroes
<1> HIDE DEF d
<1>3. HeroMoves(p, Hero!start(p, d)) /\ Hero!start(p, d).drawn
  BY <1>2, HeroStarts, HeroMost
<1>q. QED
  BY <1>3 DEF d, Hero!InkStream, HeroFine, HeroDrawn

LEMMA HeroMounted ==
  ASSUME HeroInv, NEW p \in Hero!Pages
  PROVE  HeroFine(p, Hero!Hero(p))
<1> DEFINE kept == scene.device.lost /\ p.theme = page.theme
           device == [scene.device EXCEPT !.lost = kept]
<1>1. scene.device \in Hero!Devices
  BY DEF HeroInv, HeroFine, HeroMoves, Heroes
<1>2. kept \in BOOLEAN
  BY <1>1 DEF Hero!Devices
<1>3. device \in Hero!Devices
  <2> HIDE DEF kept
  <2>q. QED
    BY <1>1, <1>2 DEF Hero!Devices
<1>4. Hero!Hero(p) = IF p.theme = "dark" THEN Hero!BlackHole(p, device) ELSE Hero!InkStream(p, device)
  BY DEF Hero!Hero
<1> HIDE DEF device
<1>q. QED
  BY <1>3, <1>4, BlackHoleFine, InkStreamFine

\* A frame of the black hole, part by part.
LEMMA HoleFrame ==
  ASSUME page \in Hero!Pages, HeroFine(page, scene), scene.kind = "hole",
         NEW a \in Hero!Lowered(scene), NEW b \in Hero!Idled(a), NEW c \in Hero!holeStep(b)
  PROVE  HeroFine(page, Hero!holeDraw(c))
<1>1. HeroMoves(page, scene) /\ scene \in Heroes
  BY DEF HeroFine, HeroMoves
<1>2. HeroMoves(page, a) /\ a.kind = "hole"
  <2>1. CASE a = scene
    BY <1>1, <2>1
  <2>2. CASE scene.quality > 0 /\ a = Hero!holeSize([scene EXCEPT !.quality = @ - 1])
    <3>1. scene.quality - 1 \in 0 .. Hero!TopQuality
      BY <1>1, <2>2 DEF Heroes, Hero!TopQuality
    <3>2. /\ a \in Heroes /\ a.kind = scene.kind /\ a.visible = scene.visible /\ a.running = scene.running
          /\ a.flying = scene.flying /\ a.afloat = scene.afloat /\ a.painted = scene.painted
      BY <1>1, <2>2, <3>1 DEF Hero!holeSize, Heroes
    <3>q. QED
      BY <1>1, <3>2, HeroLooks DEF HeroMoves
  <2>q. QED
    BY <2>1, <2>2 DEF Hero!Lowered
<1>3. HeroMoves(page, b) /\ b.kind = "hole"
  <2>1. b = a \/ b = Hero!spawn(a)
    BY DEF Hero!Idled
  <2>q. QED
    BY <1>2, <2>1, HeroSpawns
<1>4. HeroMoves(page, c) /\ c.kind = "hole" /\ c \in Heroes
  <2>1. PICK n \in 0 .. b.flying : c = [b EXCEPT !.flying = n]
    BY DEF Hero!holeStep
  <2>2. b \in Heroes /\ n \in 0 .. 9
    BY <1>3, <2>1 DEF HeroMoves, Heroes
  <2>3. /\ c \in Heroes /\ c.kind = b.kind /\ c.visible = b.visible /\ c.running = b.running
        /\ c.painted = b.painted /\ c.flying + c.afloat <= b.flying + b.afloat
    BY <2>1, <2>2 DEF Heroes
  <2>q. QED
    BY <1>3, <2>3, HeroFewer
<1>5. LET d == Hero!holeDraw(c)
      IN /\ d \in Heroes /\ d.kind = c.kind /\ d.visible = c.visible /\ d.running = c.running
         /\ d.flying = c.flying /\ d.afloat = c.afloat /\ d.painted = c.painted
         /\ d.drawn \/ d.device.lost
  <2>1. c.device.lost \in BOOLEAN
    BY <1>4 DEF Heroes, Hero!Devices
  <2> DEFINE ok == ~c.device.lost
  <2>2. Hero!holeDraw(c) = [c EXCEPT !.drawn = ok] /\ ok \in BOOLEAN
    BY DEF Hero!holeDraw
  <2> HIDE DEF ok
  <2>3. /\ Hero!holeDraw(c) \in Heroes /\ Hero!holeDraw(c).drawn = ok /\ Hero!holeDraw(c).device = c.device
        /\ Hero!holeDraw(c).kind = c.kind /\ Hero!holeDraw(c).visible = c.visible
        /\ Hero!holeDraw(c).running = c.running /\ Hero!holeDraw(c).flying = c.flying
        /\ Hero!holeDraw(c).afloat = c.afloat /\ Hero!holeDraw(c).painted = c.painted
    BY <1>4, <2>2 DEF Heroes
  <2>q. QED
    BY <2>3 DEF ok
<1>q. QED
  BY <1>4, <1>5, HeroLooks DEF HeroFine, HeroDrawn, HeroMoves

\* A frame of the ink stream.
LEMMA StreamFrame ==
  ASSUME page \in Hero!Pages, HeroFine(page, scene), scene.kind = "stream",
         NEW a \in Hero!Idled(scene), NEW b \in Hero!streamDraw(a),
         b.flying + b.afloat <= a.flying + a.afloat
  PROVE  HeroFine(page, b)
<1>1. HeroMoves(page, a) /\ a.kind = "stream" /\ a \in Heroes
  <2>1. a = scene \/ a = Hero!spawn(scene)
    BY DEF Hero!Idled
  <2>q. QED
    BY <2>1, HeroSpawns DEF HeroFine, HeroMoves
<1>2. PICK n \in 0 .. a.flying, m \in 0 .. a.flying + a.afloat :
        b = [Hero!streamStill(a) EXCEPT !.flying = n, !.afloat = m]
  <2>1. PICK n \in 0 .. a.flying, m \in 0 .. a.flying + a.afloat : b = Hero!Drifted(a, n, m)
    BY DEF Hero!streamDraw
  <2>q. QED
    BY <2>1 DEF Hero!Drifted
<1>3. a.flying + a.afloat <= 6
  BY <1>1, HeroMost DEF HeroMoves
<1>4. n \in 0 .. 9 /\ m \in 0 .. 6
  BY <1>1, <1>2, <1>3 DEF Heroes
<1>5. /\ b \in Heroes /\ b.kind = a.kind /\ b.visible = a.visible /\ b.running = a.running
      /\ b.painted = a.painted /\ b.drawn
  BY <1>1, <1>2, <1>4 DEF Hero!streamStill, Heroes
<1>q. QED
  BY <1>1, <1>5, HeroFewer DEF HeroFine, HeroDrawn

\* A hero that is watched starts and stops with what is seen of it.
LEMMA HeroWatched ==
  ASSUME HeroInv, scene.kind # "plain", Hero!Watched
  PROVE  HeroInv'
<1>1. /\ page \in Hero!Pages /\ page.hidden \in BOOLEAN /\ scene \in Heroes
      /\ HeroMoves(page, scene) /\ HeroDrawn(scene)
  BY DEF HeroInv, HeroFine, HeroMoves, Hero!Pages
<1>2. CASE Hero!Become(Hero!Observed(scene)) /\ page' = page
  <2> DEFINE s == [scene EXCEPT !.visible = ~@]
  <2>1. /\ s \in Heroes /\ s.drawn = scene.drawn /\ s.running = scene.running /\ s.visible = ~scene.visible
        /\ s.kind = scene.kind /\ s.painted = scene.painted /\ s.flying = scene.flying
        /\ s.afloat = scene.afloat /\ s.device = scene.device
    BY <1>1 DEF Heroes
  <2>2. HeroFine(page, Hero!start(page, s)) \/ ~s.visible
    <3> HIDE DEF s
    <3>1. s.visible => ~scene.running
      BY <1>1, <2>1 DEF HeroMoves, Hero!CanRun
    <3>q. QED
      BY <1>1, <2>1, <3>1, HeroStarts DEF HeroMoves, HeroFine, HeroDrawn
  <2>3. HeroFine(page, Hero!stop(s)) \/ s.visible
    <3> HIDE DEF s
    <3>q. QED
      BY <1>1, <2>1, HeroStops DEF HeroMoves, HeroFine, HeroDrawn, Hero!CanRun
  <2>4. HeroFine(page, Hero!Observed(scene))
    BY <2>2, <2>3 DEF Hero!Observed
  <2>q. QED
    BY <1>1, <1>2, <2>4, HeroBecomesFine
<1>3. CASE page' = Hero!Toggled /\ Hero!Become(Hero!onVisibility(Hero!Toggled, scene))
  <2> DEFINE p == Hero!Toggled
  <2>1. p \in Hero!Pages /\ p.hidden = ~page.hidden /\ p.motion = page.motion
    BY <1>1 DEF Hero!Toggled, Hero!Pages
  <2>2. HeroFine(p, Hero!onVisibility(p, scene))
    <3> HIDE DEF p
    <3>1. CASE p.hidden
      BY <1>1, <2>1, <3>1, HeroStops DEF Hero!onVisibility, HeroMoves, HeroFine, HeroDrawn, Hero!CanRun
    <3>2. CASE ~p.hidden
      <4>1. ~scene.running
        BY <1>1, <2>1, <3>2 DEF HeroMoves, Hero!CanRun
      <4>q. QED
        BY <1>1, <2>1, <3>2, <4>1, HeroStarts DEF Hero!onVisibility, HeroMoves, HeroFine, HeroDrawn
    <3>q. QED
      BY <3>1, <3>2
  <2>q. QED
    BY <1>3, <2>1, <2>2, HeroBecomesFine
<1>q. QED
  BY <1>2, <1>3 DEF Hero!Watched

\* A step of the hero.
LEMMA HeroStep == HeroInv /\ Hero!Next => HeroInv'
<1> SUFFICES ASSUME HeroInv, Hero!Next PROVE HeroInv'
  OBVIOUS
<1>0. /\ page \in Hero!Pages /\ ticker \in Int /\ Hero!OneLoop /\ scene \in Heroes /\ scene.running \in BOOLEAN
      /\ HeroMoves(page, scene) /\ HeroDrawn(scene) /\ HeroFine(page, scene)
  BY DEF HeroInv, HeroFine, HeroMoves, Heroes
<1>1. CASE Hero!Remount
  <2>1. PICK p \in Hero!Pages : page' = p /\ Hero!Rebuild(Hero!cleanup(scene), Hero!Hero(p))
    BY <1>1 DEF Hero!Remount
  <2> DEFINE done == Hero!cleanup(scene)
             t == Hero!Hero(p)
  <2>2. ~done.running /\ done.running \in BOOLEAN
    BY <1>0 DEF Hero!cleanup, Hero!stop, Heroes
  <2>3. HeroFine(p, t)
    BY <2>1, HeroMounted
  <2>4. Hero!Rebuild(done, t)
    BY <2>1
  <2> HIDE DEF done, t
  <2>5. t.running \in BOOLEAN
    BY <2>3 DEF HeroFine, HeroMoves, Heroes
  <2>6. scene' = t /\ ticker' \in Int /\ Hero!OneLoop'
    BY <1>0, <2>2, <2>4, <2>5, HeroRebuilt
  <2>q. QED
    BY <2>1, <2>3, <2>6 DEF HeroInv, HeroFine, HeroMoves, HeroDrawn, Hero!CanRun
<1>2. CASE Hero!HoleTick
  <2>a. PICK a \in Hero!Lowered(scene) :
          \E b \in Hero!Idled(a) : \E c \in Hero!holeStep(b) : Hero!Become(Hero!holeDraw(c))
    BY <1>2 DEF Hero!HoleTick
  <2>b. PICK b \in Hero!Idled(a) : \E c \in Hero!holeStep(b) : Hero!Become(Hero!holeDraw(c))
    BY <2>a
  <2>1. PICK c \in Hero!holeStep(b) : Hero!Become(Hero!holeDraw(c))
    BY <2>b
  <2>2. HeroFine(page, Hero!holeDraw(c)) /\ page' = page
    BY <1>0, <1>2, <2>1, HoleFrame DEF Hero!HoleTick
  <2>q. QED
    BY <1>0, <2>1, <2>2, HeroBecomesFine
<1>3. CASE Hero!HoleResized
  <2> DEFINE ok == ~scene.device.lost
             t == Hero!holeDraw(Hero!holeSize(scene))
  <2>1. scene.device.lost \in BOOLEAN
    BY <1>0 DEF Heroes, Hero!Devices
  <2>2. /\ t \in Heroes /\ t.kind = scene.kind /\ t.visible = scene.visible /\ t.running = scene.running
        /\ t.flying = scene.flying /\ t.afloat = scene.afloat /\ t.painted = scene.painted
        /\ t.drawn = ok /\ t.device = scene.device
    <3>1. Hero!holeSize(scene).device = scene.device
      BY <1>0 DEF Hero!holeSize, Heroes
    <3>2. t = [Hero!holeSize(scene) EXCEPT !.drawn = ok] /\ ok \in BOOLEAN
      BY <3>1 DEF Hero!holeDraw
    <3> HIDE DEF ok
    <3>q. QED
      BY <1>0, <3>2 DEF Hero!holeSize, Heroes
  <2>3. Hero!Become(t) /\ page' = page
    BY <1>3 DEF Hero!HoleResized
  <2> HIDE DEF t
  <2>4. HeroFine(page, t)
    BY <1>0, <2>2, HeroLooks DEF HeroFine, HeroDrawn, HeroMoves
  <2>q. QED
    BY <1>0, <2>3, <2>4, HeroBecomesFine
<1>4. CASE Hero!HoleWatched \/ Hero!StreamWatched
  BY <1>4, HeroWatched DEF Hero!HoleWatched, Hero!StreamWatched
<1>5. CASE Hero!HolePointer \/ Hero!StreamPointer
  <2>1. Hero!Become(Hero!spawn(scene)) /\ page' = page
    BY <1>5 DEF Hero!HolePointer, Hero!StreamPointer
  <2>2. HeroFine(page, Hero!spawn(scene))
    BY <1>0, HeroSpawns DEF HeroFine, HeroDrawn
  <2>q. QED
    BY <1>0, <2>1, <2>2, HeroBecomesFine
<1>6. CASE Hero!ContextLost
  <2> DEFINE t == [scene EXCEPT !.device.lost = TRUE, !.drawn = FALSE]
  <2>0. scene.device \in Hero!Devices
    BY <1>0 DEF Heroes
  <2>1. /\ t \in Heroes /\ t.kind = scene.kind /\ t.visible = scene.visible /\ t.running = scene.running
        /\ t.flying = scene.flying /\ t.afloat = scene.afloat /\ t.painted = scene.painted
        /\ t.device.lost
    BY <1>0, <2>0 DEF Heroes, Hero!Devices
  <2>2. Hero!Become(t) /\ page' = page
    BY <1>6 DEF Hero!ContextLost
  <2> HIDE DEF t
  <2>3. HeroFine(page, t)
    BY <1>0, <2>1, HeroLooks DEF HeroFine, HeroDrawn, HeroMoves
  <2>q. QED
    BY <1>0, <2>2, <2>3, HeroBecomesFine
<1>7. CASE Hero!PlainToggled
  <2> DEFINE p == Hero!Toggled
  <2>1. p \in Hero!Pages /\ p.motion = page.motion
    BY <1>0 DEF Hero!Toggled, Hero!Pages
  <2>2. scene.kind = "plain" /\ page' = p /\ Hero!Become(scene)
    BY <1>7 DEF Hero!PlainToggled
  <2> HIDE DEF p
  <2>3. HeroFine(p, scene)
    BY <1>0, <2>1, <2>2 DEF HeroFine, HeroMoves, HeroDrawn
  <2>q. QED
    BY <2>1, <2>2, <2>3, HeroBecomesFine
<1>8. CASE Hero!StreamTick
  <2>a. PICK a \in Hero!Idled(scene) :
          \E b \in Hero!streamDraw(a) : b.flying + b.afloat <= a.flying + a.afloat /\ Hero!Become(b)
    BY <1>8 DEF Hero!StreamTick
  <2>1. PICK b \in Hero!streamDraw(a) : b.flying + b.afloat <= a.flying + a.afloat /\ Hero!Become(b)
    BY <2>a
  <2>2. HeroFine(page, b) /\ page' = page
    BY <1>0, <1>8, <2>1, StreamFrame DEF Hero!StreamTick
  <2>q. QED
    BY <1>0, <2>1, <2>2, HeroBecomesFine
<1>9. CASE Hero!StreamResized
  <2> DEFINE s == [scene EXCEPT !.resizing = TRUE]
             t == [Hero!streamStill(Hero!streamSize(scene)) EXCEPT !.resizing = FALSE]
  <2>1. /\ s \in Heroes /\ s.kind = scene.kind /\ s.visible = scene.visible /\ s.running = scene.running
        /\ s.flying = scene.flying /\ s.afloat = scene.afloat /\ s.painted = scene.painted
        /\ s.drawn = scene.drawn /\ s.device = scene.device
    BY <1>0 DEF Heroes
  <2>2. /\ t \in Heroes /\ t.kind = scene.kind /\ t.visible = scene.visible /\ t.running = scene.running
        /\ t.flying = scene.flying /\ t.afloat = scene.afloat /\ t.painted /\ t.drawn
    BY <1>0 DEF Hero!streamStill, Hero!streamSize, Hero!paint, Heroes
  <2>3. (Hero!Become(s) \/ Hero!Become(t)) /\ page' = page
    BY <1>9 DEF Hero!StreamResized
  <2> HIDE DEF s, t
  <2>4. HeroFine(page, s) /\ HeroFine(page, t)
    BY <1>0, <2>1, <2>2, HeroLooks DEF HeroFine, HeroDrawn, HeroMoves
  <2>q. QED
    BY <1>0, <2>3, <2>4, HeroBecomesFine
<1>q. QED
  BY <1>1, <1>2, <1>3, <1>4, <1>5, <1>6, <1>7, <1>8, <1>9 DEF Hero!Next

-------------------------------------------------------------------------------
(* The contact screen's ink.                                                 *)

CloseBecomes(t) == scene' = t /\ ticker' \in Int /\ Closing!OneLoop'

LEMMA ClosingBecomes ==
  ASSUME ticker \in Int, scene.running \in BOOLEAN, Closing!OneLoop,
         NEW t, t.running \in BOOLEAN, Closing!Become(t)
  PROVE  CloseBecomes(t)
  BY DEF CloseBecomes, Closing!OneLoop, Closing!Become, Closing!Ticks

LEMMA ClosingRebuilt ==
  ASSUME ticker \in Int, scene.running \in BOOLEAN, Closing!OneLoop,
         NEW s, ~s.running, s.running \in BOOLEAN, NEW t, t.running \in BOOLEAN, Closing!Rebuild(s, t)
  PROVE  CloseBecomes(t)
  BY DEF CloseBecomes, Closing!OneLoop, Closing!Rebuild, Closing!Ticks

\* What the ink is between drops: its word, its link and its picture.
Worded(s) ==
  /\ s.written = IF s.phase \in {"hold", "fade"} THEN s.idx ELSE Closing!None
  /\ s.phase # "wait" => s.latest = s.idx
  /\ s.phase = "hold" => s.picture = [phase |-> "hold", idx |-> s.idx]
InkRuns(p, s) == (s.running <=> Closing!CanRun(p, s)) /\ (p.motion \/ s.phase = "hold")
InkFine(p, s) == s \in Closing!Ink /\ Worded(s) /\ InkRuns(p, s)

\* Painting and placing the word keep the record, and everything else in it.
LEMMA InkRender ==
  ASSUME NEW s \in Closing!Ink
  PROVE  /\ Closing!render(s) \in Closing!Ink
         /\ Closing!render(s).phase = s.phase /\ Closing!render(s).idx = s.idx
         /\ Closing!render(s).picture = [phase |-> s.phase, idx |-> s.idx]
         /\ Closing!render(s).running = s.running /\ Closing!render(s).visible = s.visible
         /\ Closing!render(s).written = s.written /\ Closing!render(s).latest = s.latest
         /\ Closing!render(s).channels = s.channels
  BY DEF Closing!render, Closing!Ink

LEMMA InkPlace ==
  ASSUME NEW s \in Closing!Ink, NEW show \in BOOLEAN
  PROVE  /\ Closing!placeWord(s, show) \in Closing!Ink
         /\ Closing!placeWord(s, show).phase = s.phase /\ Closing!placeWord(s, show).idx = s.idx
         /\ Closing!placeWord(s, show).picture = s.picture
         /\ Closing!placeWord(s, show).running = s.running /\ Closing!placeWord(s, show).visible = s.visible
         /\ Closing!placeWord(s, show).written = IF show THEN s.idx ELSE Closing!None
         /\ Closing!placeWord(s, show).latest = s.latest
         /\ Closing!placeWord(s, show).channels = s.channels
  BY DEF Closing!placeWord, Closing!Ink

LEMMA InkStart ==
  ASSUME NEW p \in Closing!Pages, NEW s \in Closing!Ink, s.running => Closing!CanRun(p, s)
  PROVE  /\ Closing!start(p, s) \in Closing!Ink
         /\ Closing!start(p, s).phase = s.phase /\ Closing!start(p, s).idx = s.idx
         /\ Closing!start(p, s).picture = s.picture /\ Closing!start(p, s).visible = s.visible
         /\ Closing!start(p, s).written = s.written /\ Closing!start(p, s).latest = s.latest
         /\ Closing!start(p, s).running <=> Closing!CanRun(p, Closing!start(p, s))
<1> DEFINE t == Closing!start(p, s)
           on == s.running \/ Closing!CanRun(p, s)
<1>1. on \in BOOLEAN /\ (on <=> Closing!CanRun(p, s))
  BY DEF Closing!Pages, Closing!CanRun, Closing!Ink
<1>2. t = [s EXCEPT !.running = on]
  BY DEF Closing!start
<1> HIDE DEF t, on
<1>3. /\ t \in Closing!Ink /\ t.running = on
      /\ t.phase = s.phase /\ t.idx = s.idx /\ t.picture = s.picture /\ t.visible = s.visible
      /\ t.written = s.written /\ t.latest = s.latest
  BY <1>1, <1>2 DEF Closing!Ink
<1>q. QED
  BY <1>1, <1>3 DEF t, Closing!CanRun

LEMMA InkStop ==
  ASSUME NEW s \in Closing!Ink
  PROVE  /\ Closing!stop(s) \in Closing!Ink
         /\ Closing!stop(s).phase = s.phase /\ Closing!stop(s).idx = s.idx
         /\ Closing!stop(s).picture = s.picture /\ Closing!stop(s).visible = s.visible
         /\ Closing!stop(s).written = s.written /\ Closing!stop(s).latest = s.latest
         /\ ~Closing!stop(s).running
  BY DEF Closing!stop, Closing!Ink

\* A new drop, which falls or, without motion, is a word at once.
LEMMA InkDrops ==
  ASSUME MaxChannels \in Nat, NEW p \in Closing!Pages, NEW s \in Closing!Ink,
         NEW i \in 0 .. s.channels - 1, s.running => Closing!CanRun(p, s)
  PROVE  InkFine(p, Closing!drop(p, s, i))
<1> DEFINE off == FALSE
           u == [s EXCEPT !.idx = i, !.latest = i, !.hover = FALSE]
           d == Closing!placeWord(u, off)
           falling == [d EXCEPT !.phase = "fall", !.dirty = TRUE]
           held == [d EXCEPT !.phase = "hold"]
<1>1. /\ u \in Closing!Ink /\ u.idx = i /\ u.latest = i /\ u.running = s.running /\ u.visible = s.visible
  <2>1. i \in Closing!Indices
    BY DEF Closing!Ink, Closing!Indices
  <2>q. QED
    BY <2>1 DEF Closing!Ink
<1>2. d = Closing!placeWord(u, FALSE) /\ off \in BOOLEAN /\ ~off
  OBVIOUS
<1> HIDE DEF u, off
<1>3. /\ d \in Closing!Ink /\ d.idx = i /\ d.latest = i /\ d.running = s.running /\ d.visible = s.visible
      /\ d.written = Closing!None
  BY <1>1, <1>2, InkPlace
<1> HIDE DEF d
<1>4. /\ falling \in Closing!Ink /\ falling.idx = i /\ falling.latest = i /\ falling.running = s.running
      /\ falling.visible = s.visible /\ falling.written = Closing!None /\ falling.phase = "fall"
  BY <1>3, ZenonT(30) DEF Closing!Ink, Closing!Phases
<1>5. /\ held \in Closing!Ink /\ held.idx = i /\ held.latest = i /\ held.running = s.running
      /\ held.visible = s.visible /\ held.phase = "hold"
  BY <1>3 DEF Closing!Ink, Closing!Phases
<1>6. Closing!drop(p, s, i) =
        IF p.motion THEN Closing!start(p, falling)
        ELSE Closing!placeWord(Closing!render(held), TRUE)
  BY <1>2 DEF Closing!drop, d, u
<1> HIDE DEF falling, held
<1>7. CASE p.motion
  <2>1. falling.running => Closing!CanRun(p, falling)
    BY <1>4 DEF Closing!CanRun
  <2>2. InkFine(p, Closing!start(p, falling))
    BY <1>4, <1>7, <2>1, InkStart DEF InkFine, Worded, InkRuns
  <2>q. QED
    BY <1>6, <1>7, <2>2
<1>8. CASE ~p.motion
  <2> DEFINE r == Closing!render(held)
             on == TRUE
             t == Closing!placeWord(r, on)
  <2>1. /\ r \in Closing!Ink /\ r.phase = "hold" /\ r.idx = i /\ r.picture = [phase |-> "hold", idx |-> i]
        /\ r.running = s.running /\ r.visible = s.visible /\ r.latest = i
    BY <1>5, InkRender
  <2>2. on \in BOOLEAN /\ on
    OBVIOUS
  <2> HIDE DEF r, on
  <2>3. /\ t \in Closing!Ink /\ t.phase = "hold" /\ t.idx = i /\ t.picture = [phase |-> "hold", idx |-> i]
        /\ t.running = s.running /\ t.visible = s.visible /\ t.latest = i /\ t.written = i
    BY <2>1, <2>2, InkPlace
  <2> HIDE DEF t
  <2>4. InkFine(p, t)
    BY <1>8, <2>3 DEF InkFine, Worded, InkRuns, Closing!CanRun
  <2>q. QED
    BY <1>6, <1>8, <2>4 DEF t, r, on
<1>q. QED
  BY <1>7, <1>8

\* A new screen of ink.
LEMMA InkStarts ==
  ASSUME MaxChannels \in Nat, NEW p \in Closing!Pages, NEW n \in 1 .. MaxChannels,
         NEW orphan \in Closing!Indices \cup {Closing!None}
  PROVE  InkFine(p, Closing!InkWriting(p, n, orphan))
<1> DEFINE fresh == [kind |-> "ink", channels |-> n, visible |-> FALSE, running |-> FALSE,
                     phase |-> "wait", idx |-> n - 1, hover |-> FALSE, dirty |-> TRUE,
                     picture |-> Closing!Blank, fonts |-> TRUE, orphan |-> orphan,
                     written |-> Closing!None, latest |-> Closing!None]
           sized == Closing!inkSize(fresh)
           t == IF p.motion THEN sized ELSE Closing!drop(p, sized, 0)
<1>1. fresh \in Closing!Ink
  BY DEF Closing!Ink, Closing!Indices, Closing!Phases, Closing!Blank
<1>2. /\ sized \in Closing!Ink /\ ~sized.running /\ sized.phase = "wait" /\ sized.written = Closing!None
      /\ sized.channels = n
  BY <1>1 DEF Closing!inkSize, Closing!Ink, Closing!Blank
<1>3. Closing!InkWriting(p, n, orphan) = Closing!start(p, t)
  BY DEF Closing!InkWriting
<1> HIDE DEF fresh, sized
<1>4. t \in Closing!Ink /\ Worded(t) /\ (t.running => Closing!CanRun(p, t)) /\ (p.motion \/ t.phase = "hold")
  <2>1. CASE p.motion
    BY <1>2, <2>1 DEF Worded
  <2>2. CASE ~p.motion
    <3>1. 0 \in 0 .. sized.channels - 1
      BY <1>2
    <3>2. InkFine(p, Closing!drop(p, sized, 0))
      BY <1>2, <3>1, InkDrops
    <3>q. QED
      BY <2>2, <3>2 DEF InkFine, InkRuns
  <2>q. QED
    BY <2>1, <2>2
<1> HIDE DEF t
<1>q. QED
  BY <1>3, <1>4, InkStart DEF InkFine, Worded, InkRuns

\* What leaves the words, the phase and the running alone keeps the ink fine.
LEMMA InkFrames ==
  ASSUME NEW p, NEW s, InkFine(p, s), NEW t \in Closing!Ink,
         t.phase = s.phase, t.idx = s.idx, t.picture = s.picture, t.written = s.written,
         t.latest = s.latest, t.running = s.running, t.visible = s.visible
  PROVE  InkFine(p, t)
  BY DEF InkFine, Worded, InkRuns, Closing!CanRun

\* A picture painted now.
LEMMA InkRendered ==
  ASSUME NEW p, NEW s \in Closing!Ink, InkRuns(p, s),
         s.written = IF s.phase \in {"hold", "fade"} THEN s.idx ELSE Closing!None,
         s.phase # "wait" => s.latest = s.idx
  PROVE  InkFine(p, Closing!render(s))
  BY InkRender, ZenonT(30) DEF InkFine, Worded, InkRuns, Closing!CanRun

\* The next phase, when this one's time is up.
LEMMA InkAdvances ==
  ASSUME MaxChannels \in Nat, page \in Closing!Pages, scene.kind = "ink", InkFine(page, scene), scene.running
  PROVE  InkFine(page, Closing!Advance(scene))
<1>0. /\ scene \in Closing!Ink /\ Worded(scene) /\ InkRuns(page, scene) /\ page.motion
      /\ scene.phase \in Closing!Phases
  BY DEF InkFine, InkRuns, Closing!CanRun, Closing!Ink
<1> DEFINE To(phase) == [scene EXCEPT !.phase = phase]
<1>t. \A phase \in Closing!Phases :
        /\ To(phase) \in Closing!Ink /\ To(phase).phase = phase /\ To(phase).idx = scene.idx
        /\ To(phase).written = scene.written /\ To(phase).latest = scene.latest
        /\ InkRuns(page, To(phase))
  BY <1>0 DEF Closing!Ink, InkRuns, Closing!CanRun
<1>1. CASE scene.phase = "wait"
  <2>1. (scene.idx + 1) % scene.channels \in 0 .. scene.channels - 1
    <3>1. scene.idx + 1 \in Nat /\ scene.channels \in Nat /\ scene.channels > 0
      BY <1>0 DEF Closing!Ink, Closing!Indices
    <3>q. QED
      BY <3>1
  <2>2. InkFine(page, Closing!drop(page, scene, (scene.idx + 1) % scene.channels))
    BY <1>0, <2>1, InkDrops DEF InkRuns
  <2>q. QED
    BY <1>1, <2>2 DEF Closing!Advance
<1>2. CASE scene.phase = "fall"
  <2> DEFINE u == To("splash")
  <2>1. InkFine(page, Closing!render(u))
    <3>1. /\ u \in Closing!Ink /\ u.phase = "splash" /\ u.idx = scene.idx
          /\ u.written = scene.written /\ u.latest = scene.latest /\ InkRuns(page, u)
      BY <1>t DEF Closing!Phases
    <3> HIDE DEF u
    <3>q. QED
      BY <1>0, <1>2, <3>1, InkRendered DEF Worded
  <2>q. QED
    BY <1>2, <2>1 DEF Closing!Advance
<1>3. CASE scene.phase = "splash"
  <2> DEFINE u == To("write")
  <2>1. InkFine(page, Closing!render(u))
    <3>1. /\ u \in Closing!Ink /\ u.phase = "write" /\ u.idx = scene.idx
          /\ u.written = scene.written /\ u.latest = scene.latest /\ InkRuns(page, u)
      BY <1>t DEF Closing!Phases
    <3> HIDE DEF u
    <3>q. QED
      BY <1>0, <1>3, <3>1, InkRendered DEF Worded
  <2>q. QED
    BY <1>3, <2>1 DEF Closing!Advance
<1>4. CASE scene.phase = "write"
  <2> DEFINE u == To("hold")
             on == TRUE
             t == Closing!placeWord(u, on)
  <2>1. InkFine(page, Closing!render(t))
    <3>1. /\ u \in Closing!Ink /\ u.phase = "hold" /\ u.idx = scene.idx
          /\ u.written = scene.written /\ u.latest = scene.latest /\ InkRuns(page, u)
      BY <1>t DEF Closing!Phases
    <3>2. on \in BOOLEAN /\ on
      OBVIOUS
    <3> HIDE DEF u, on
    <3>3. /\ t \in Closing!Ink /\ t.phase = "hold" /\ t.idx = scene.idx
          /\ t.written = scene.idx /\ t.latest = scene.latest /\ InkRuns(page, t)
      BY <3>1, <3>2, InkPlace DEF InkRuns, Closing!CanRun
    <3> HIDE DEF t
    <3>q. QED
      BY <1>0, <1>4, <3>3, InkRendered DEF Worded
  <2>q. QED
    BY <1>4, <2>1 DEF Closing!Advance
<1>5. CASE scene.phase = "hold"
  <2> DEFINE u == To("fade")
  <2>1. InkFine(page, Closing!render(u))
    <3>1. /\ u \in Closing!Ink /\ u.phase = "fade" /\ u.idx = scene.idx
          /\ u.written = scene.written /\ u.latest = scene.latest /\ InkRuns(page, u)
      BY <1>t DEF Closing!Phases
    <3> HIDE DEF u
    <3>q. QED
      BY <1>0, <1>5, <3>1, InkRendered DEF Worded
  <2>q. QED
    BY <1>5, <2>1 DEF Closing!Advance
<1>6. CASE scene.phase = "fade" /\ scene.hover
  <2> DEFINE u == To("hold")
  <2>1. InkFine(page, Closing!render(u))
    <3>1. /\ u \in Closing!Ink /\ u.phase = "hold" /\ u.idx = scene.idx
          /\ u.written = scene.written /\ u.latest = scene.latest /\ InkRuns(page, u)
      BY <1>t DEF Closing!Phases
    <3> HIDE DEF u
    <3>q. QED
      BY <1>0, <1>6, <3>1, InkRendered DEF Worded
  <2>q. QED
    BY <1>6, <2>1 DEF Closing!Advance
<1>7. CASE scene.phase = "fade" /\ ~scene.hover
  <2> DEFINE u == To("wait")
             off == FALSE
             t == Closing!placeWord(u, off)
  <2>1. InkFine(page, Closing!render(t))
    <3>1. /\ u \in Closing!Ink /\ u.phase = "wait" /\ u.idx = scene.idx
          /\ u.written = scene.written /\ u.latest = scene.latest /\ InkRuns(page, u)
      BY <1>t DEF Closing!Phases
    <3>2. off \in BOOLEAN /\ ~off
      OBVIOUS
    <3> HIDE DEF u, off
    <3>3. /\ t \in Closing!Ink /\ t.phase = "wait" /\ t.idx = scene.idx
          /\ t.written = Closing!None /\ t.latest = scene.latest /\ InkRuns(page, t)
      BY <3>1, <3>2, InkPlace DEF InkRuns, Closing!CanRun
    <3> HIDE DEF t
    <3>q. QED
      BY <3>3, InkRendered
  <2>q. QED
    BY <1>7, <2>1 DEF Closing!Advance
<1>q. QED
  BY <1>0, <1>1, <1>2, <1>3, <1>4, <1>5, <1>6, <1>7 DEF Closing!Phases

\* A still word painted again and linked.
LEMMA InkStill ==
  ASSUME NEW p, NEW s \in Closing!Ink, InkRuns(p, s), s.phase = "hold", s.latest = s.idx
  PROVE  InkFine(p, Closing!placeWord(Closing!render(s), TRUE))
<1> DEFINE r == Closing!render(s)
           on == TRUE
           t == Closing!placeWord(r, on)
<1>1. /\ r \in Closing!Ink /\ r.phase = "hold" /\ r.idx = s.idx /\ r.picture = [phase |-> "hold", idx |-> s.idx]
      /\ r.running = s.running /\ r.visible = s.visible /\ r.latest = s.idx
  BY InkRender
<1>2. on \in BOOLEAN /\ on
  OBVIOUS
<1> HIDE DEF r, on
<1>3. /\ t \in Closing!Ink /\ t.phase = "hold" /\ t.idx = s.idx /\ t.picture = [phase |-> "hold", idx |-> s.idx]
      /\ t.running = s.running /\ t.visible = s.visible /\ t.latest = s.idx /\ t.written = s.idx
  BY <1>1, <1>2, InkPlace
<1> HIDE DEF t
<1>4. InkFine(p, t)
  BY <1>3 DEF InkFine, Worded, InkRuns, Closing!CanRun
<1>q. QED
  BY <1>4 DEF t, r, on

\* What the picture shows, once every frame of it is right.
LEMMA InkWritten ==
  ASSUME NEW p, NEW s, InkFine(p, s)
  PROVE  /\ s \in Closing!Ink /\ s.kind = "ink" /\ s.running \in BOOLEAN /\ s.visible \in BOOLEAN
         /\ s.phase \in Closing!Phases /\ InkRuns(p, s) /\ (s.running => Closing!CanRun(p, s))
         /\ s.written = IF s.phase \in {"hold", "fade"} THEN s.idx ELSE Closing!None
         /\ s.phase # "wait" => s.latest = s.idx
  BY DEF InkFine, Worded, InkRuns, Closing!Ink

-------------------------------------------------------------------------------
(* The contact screen's meteors.                                             *)

Nights(n) ==
  [kind : {"night"}, channels : {n}, visible : BOOLEAN, running : BOOLEAN, drawn : BOOLEAN,
   modes : [0 .. n - 1 -> Closing!Modes], turn : 0 .. n - 1,
   pointed : 0 .. n - 1 \cup {Closing!None}, aligned : 0 .. n - 1 \cup {Closing!None},
   title : [of : 0 .. n - 1 \cup {Closing!None}, weight : Closing!Weights]]

\* The title's link, colour and meteor.
Titled(s) ==
  /\ s.aligned # Closing!None => s.title.of = s.aligned /\ s.title.weight > 1
  /\ s.title.of # Closing!None => s.modes[s.title.of] # "wander" \/ s.title.weight = 0
NightFine(p, s) ==
  /\ s.channels \in 1 .. MaxChannels /\ s \in Nights(s.channels) /\ s.drawn /\ Titled(s)
  /\ s.running <=> Closing!CanRun(p, s)

LEMMA NightParts ==
  ASSUME NEW p, NEW s, NightFine(p, s)
  PROVE  /\ s.kind = "night" /\ s.running \in BOOLEAN /\ s.visible \in BOOLEAN /\ s.channels \in 1 .. MaxChannels
         /\ s \in Nights(s.channels) /\ DOMAIN s.modes = 0 .. s.channels - 1
  BY DEF NightFine, Nights

LEMMA NightStart ==
  ASSUME NEW p \in Closing!Pages, NEW n, NEW s \in Nights(n), n \in 1 .. MaxChannels, s.drawn, Titled(s),
         s.running => Closing!CanRun(p, s)
  PROVE  NightFine(p, Closing!start(p, s))
<1> DEFINE t == Closing!start(p, s)
           on == s.running \/ Closing!CanRun(p, s)
<1>1. on \in BOOLEAN /\ (on <=> Closing!CanRun(p, s))
  BY DEF Closing!Pages, Closing!CanRun, Nights
<1>2. t = [s EXCEPT !.running = on]
  BY DEF Closing!start
<1> HIDE DEF t, on
<1>3. /\ t \in Nights(n) /\ t.running = on /\ t.channels = n /\ t.drawn = s.drawn /\ t.visible = s.visible
      /\ t.aligned = s.aligned /\ t.title = s.title /\ t.modes = s.modes
  BY <1>1, <1>2 DEF Nights
<1>4. NightFine(p, t)
  BY <1>1, <1>3 DEF NightFine, Titled, Closing!CanRun
<1>q. QED
  BY <1>4 DEF t

LEMMA NightStop ==
  ASSUME NEW p, NEW n, NEW s \in Nights(n), n \in 1 .. MaxChannels, s.drawn, Titled(s), ~Closing!CanRun(p, s)
  PROVE  NightFine(p, Closing!stop(s))
<1> DEFINE t == Closing!stop(s)
<1>1. /\ t \in Nights(n) /\ t.running = FALSE /\ t.channels = n /\ t.drawn = s.drawn /\ t.visible = s.visible
      /\ t.aligned = s.aligned /\ t.title = s.title /\ t.modes = s.modes
  BY DEF Closing!stop, Nights
<1> HIDE DEF t
<1>2. NightFine(p, t)
  BY <1>1 DEF NightFine, Titled, Closing!CanRun
<1>q. QED
  BY <1>2 DEF t

\* A new sky of meteors.
LEMMA NightStarts ==
  ASSUME MaxChannels \in Nat, NEW p \in Closing!Pages, NEW n \in 1 .. MaxChannels
  PROVE  NightFine(p, Closing!MeteorContact(p, n))
<1> DEFINE fresh ==
             [kind |-> "night", channels |-> n, visible |-> FALSE, running |-> FALSE,
              drawn |-> FALSE, modes |-> [m \in 0 .. n - 1 |-> "wander"], turn |-> 0,
              pointed |-> Closing!None, aligned |-> Closing!None, title |-> Closing!Untinted]
           s == Closing!nightDraw(Closing!nightSize(fresh))
<1>1. fresh \in Nights(n) /\ ~fresh.running /\ fresh.title.of = Closing!None /\ fresh.aligned = Closing!None
  BY DEF Nights, Closing!Modes, Closing!Weights, Closing!Untinted
<1>2. Closing!MeteorContact(p, n) = Closing!start(p, s)
  BY DEF Closing!MeteorContact
<1> HIDE DEF fresh
<1>3. s \in Nights(n) /\ s.drawn /\ ~s.running /\ s.title.of = Closing!None /\ s.aligned = Closing!None
  BY <1>1 DEF Nights, Closing!nightDraw, Closing!nightSize
<1> HIDE DEF s
<1>4. Titled(s)
  BY <1>3 DEF Titled
<1>q. QED
  BY <1>2, <1>3, <1>4, NightStart

\* What one meteor does: it colours the title only on its way, there or leaving.
LEMMA MeteorMoves ==
  ASSUME NEW n, NEW s \in Nights(n), NEW m \in 0 .. n - 1, NEW move \in Closing!Moves(s, m)
  PROVE  /\ move \in [weight : Closing!Weights, mode : Closing!Modes]
         /\ move.weight # 0 => move.mode # "wander"
<1> DEFINE mode == s.modes[m]
<1>1. mode \in Closing!Modes
  BY DEF Nights
<1>2. Closing!Moves(s, m) =
        IF m = s.pointed THEN {[weight |-> IF mode = "hold" THEN 3 ELSE 0, mode |-> mode]}
        ELSE CASE mode = "wander"   -> {[weight |-> 0, mode |-> mode]}
               [] mode = "leave"    -> [weight : Closing!Weights, mode : {"leave"}] \cup {[weight |-> 0, mode |-> "wander"]}
               [] mode = "approach" -> [weight : Closing!Weights, mode : {"approach", "hold"}]
               [] mode = "hold"     -> [weight : {3}, mode : {"hold", "leave"}]
  BY DEF Closing!Moves
<1> HIDE DEF mode
<1>3. CASE m = s.pointed
  BY <1>1, <1>2, <1>3 DEF Closing!Modes, Closing!Weights
<1>4. CASE m # s.pointed /\ mode = "wander"
  BY <1>1, <1>2, <1>4 DEF Closing!Modes, Closing!Weights
<1>5. CASE m # s.pointed /\ mode = "leave"
  BY <1>1, <1>2, <1>5 DEF Closing!Modes, Closing!Weights
<1>6. CASE m # s.pointed /\ mode = "approach"
  BY <1>1, <1>2, <1>6 DEF Closing!Modes, Closing!Weights
<1>7. CASE m # s.pointed /\ mode = "hold"
  BY <1>1, <1>2, <1>7 DEF Closing!Modes, Closing!Weights
<1>q. QED
  BY <1>1, <1>3, <1>4, <1>5, <1>6, <1>7 DEF Closing!Modes

\* The next meteor sets out.
LEMMA NightTurns ==
  ASSUME NEW n \in 1 .. MaxChannels, MaxChannels \in Nat, NEW s \in Nights(n)
  PROVE  LET t == Closing!TurnTaken(s)
         IN t \in Nights(n) /\ t.running = s.running /\ t.visible = s.visible
<1> DEFINE turn == (s.turn + 1) % s.channels
           mode == IF s.modes[s.turn] = "wander" THEN "approach" ELSE s.modes[s.turn]
           modes == [s.modes EXCEPT ![s.turn] = mode]
<1>1. turn \in 0 .. n - 1
  <2>1. s.turn + 1 \in Nat /\ s.channels = n /\ n \in Nat /\ n > 0
    BY DEF Nights
  <2>q. QED
    BY <2>1
<1>2. modes \in [0 .. n - 1 -> Closing!Modes]
  <2>1. mode \in Closing!Modes
    BY DEF Nights, Closing!Modes
  <2> HIDE DEF mode
  <2>q. QED
    BY <2>1 DEF Nights
<1>3. Closing!TurnTaken(s) = [s EXCEPT !.turn = turn, !.modes = modes]
  BY DEF Closing!TurnTaken, Nights
<1> HIDE DEF turn, modes
<1>q. QED
  BY <1>1, <1>2, <1>3 DEF Nights

\* A frame of the meteors.
Drawing(s, move, title) ==
  Closing!nightDraw([s EXCEPT !.modes = [m \in DOMAIN s.modes |-> move[m].mode],
                              !.title = title, !.aligned = Closing!Linked(title)])

LEMMA NightFrame ==
  ASSUME NEW p, NEW n \in 1 .. MaxChannels, NEW s \in Nights(n), s.running <=> Closing!CanRun(p, s),
         NEW move \in [DOMAIN s.modes -> [weight : Closing!Weights, mode : Closing!Modes]],
         \A m \in DOMAIN s.modes : move[m] \in Closing!Moves(s, m),
         NEW title \in Closing!Strongest(s, move)
  PROVE  NightFine(p, Drawing(s, move, title))
<1> DEFINE modes == [m \in DOMAIN s.modes |-> move[m].mode]
           aligned == Closing!Linked(title)
           t == Closing!nightDraw([s EXCEPT !.modes = modes, !.title = title, !.aligned = aligned])
<1>1. DOMAIN s.modes = 0 .. n - 1
  BY DEF Nights
<1>2. modes \in [0 .. n - 1 -> Closing!Modes] /\ \A m \in 0 .. n - 1 : modes[m] = move[m].mode
  BY <1>1
<1>3. PICK m \in 0 .. n - 1 :
        title = IF move[m].weight = 0 THEN Closing!Untinted ELSE [of |-> m, weight |-> move[m].weight]
  BY <1>1 DEF Closing!Strongest
<1>4. /\ move[m].weight \in Closing!Weights
      /\ move[m].weight # 0 => move[m].mode # "wander"
  BY <1>1, MeteorMoves
<1>5. /\ title \in [of : 0 .. n - 1 \cup {Closing!None}, weight : Closing!Weights]
      /\ title.of # Closing!None => modes[title.of] # "wander"
  <2>1. CASE move[m].weight = 0
    BY <1>3, <2>1 DEF Closing!Untinted, Closing!Weights
  <2>2. CASE move[m].weight # 0
    BY <1>2, <1>3, <1>4, <2>2
  <2>q. QED
    BY <2>1, <2>2
<1>6. /\ aligned \in 0 .. n - 1 \cup {Closing!None}
      /\ aligned # Closing!None => title.of = aligned /\ title.weight > 1
  BY <1>5 DEF Closing!Linked
<1> HIDE DEF modes, aligned
<1>7. /\ t \in Nights(n) /\ t.drawn /\ t.modes = modes /\ t.title = title /\ t.aligned = aligned
      /\ t.running = s.running /\ t.visible = s.visible /\ t.channels = n
  BY <1>2, <1>5, <1>6 DEF Nights, Closing!nightDraw
<1> HIDE DEF t
<1>8. NightFine(p, t)
  BY <1>5, <1>6, <1>7 DEF NightFine, Titled, Closing!CanRun
<1>q. QED
  BY <1>8 DEF Drawing, t, modes, aligned

-------------------------------------------------------------------------------
(* The contact screen.                                                       *)

ClosingFine(p, s) == s = Closing!Nothing \/ InkFine(p, s) \/ NightFine(p, s)
ClosingInv == page \in Closing!Pages /\ ticker \in Int /\ Closing!OneLoop /\ ClosingFine(page, scene)

LEMMA ClosingKinds ==
  ASSUME NEW p, NEW s, ClosingFine(p, s)
  PROVE  /\ s.kind = "ink" => InkFine(p, s)
         /\ s.kind = "night" => NightFine(p, s)
         /\ s.kind \notin {"ink", "night"} => s = Closing!Nothing
         /\ s.kind \in {"ink", "night", "none"} /\ s.running \in BOOLEAN
<1>1. CASE s = Closing!Nothing
  BY <1>1 DEF Closing!Nothing
<1>2. CASE InkFine(p, s)
  <2>1. s.kind = "ink" /\ s.running \in BOOLEAN
    BY <1>2, InkWritten
  <2>q. QED
    BY <1>2, <2>1
<1>3. CASE NightFine(p, s)
  <2>1. s.kind = "night" /\ s.running \in BOOLEAN
    BY <1>3, NightParts
  <2>q. QED
    BY <1>3, <2>1
<1>q. QED
  BY <1>1, <1>2, <1>3 DEF ClosingFine

LEMMA ClosingBecomesFine ==
  ASSUME ClosingInv, NEW p \in Closing!Pages, page' = p, NEW t, ClosingFine(p, t), Closing!Become(t)
  PROVE  ClosingInv'
<1>1. scene.running \in BOOLEAN /\ t.running \in BOOLEAN
  BY ClosingKinds DEF ClosingInv
<1>2. CloseBecomes(t)
  BY <1>1, ClosingBecomes DEF ClosingInv
<1>q. QED
  BY <1>2 DEF ClosingInv, CloseBecomes, ClosingFine, InkFine, NightFine, InkRuns, Closing!CanRun

\* The screen shown or hidden, the tab too.
LEMMA InkWatches ==
  ASSUME NEW p \in Closing!Pages, NEW s \in Closing!Ink, Worded(s), p.motion \/ s.phase = "hold"
  PROVE  /\ (s.running => Closing!CanRun(p, s)) => InkFine(p, Closing!start(p, s))
         /\ ~Closing!CanRun(p, s) => InkFine(p, Closing!stop(s))
  BY InkStart, InkStop DEF InkFine, Worded, InkRuns, Closing!CanRun

LEMMA ClosingWatched ==
  ASSUME ClosingInv, scene.kind \in {"ink", "night"}, Closing!Watched
  PROVE  ClosingInv'
<1>0. page \in Closing!Pages /\ page.hidden \in BOOLEAN /\ page.motion \in BOOLEAN
  BY DEF ClosingInv, Closing!Pages
<1> DEFINE s == [scene EXCEPT !.visible = ~@]
           p == Closing!Toggled
<1>p. p \in Closing!Pages /\ p.hidden = ~page.hidden /\ p.motion = page.motion
  BY <1>0 DEF Closing!Toggled, Closing!Pages
<1>1. CASE scene.kind = "ink"
  <2>0. /\ InkFine(page, scene) /\ scene \in Closing!Ink /\ Worded(scene) /\ scene.visible \in BOOLEAN
        /\ scene.running \in BOOLEAN
        /\ (scene.running <=> Closing!CanRun(page, scene)) /\ (page.motion \/ scene.phase = "hold")
    BY <1>1, ClosingKinds, InkWritten DEF ClosingInv, InkFine, InkRuns
  <2>1. /\ s \in Closing!Ink /\ Worded(s) /\ s.running = scene.running /\ s.visible = ~scene.visible
        /\ s.phase = scene.phase
    BY <2>0, ZenonT(30) DEF Closing!Ink, Worded
  <2>2. InkFine(page, Closing!Observed(scene))
    <3>1. Closing!Observed(scene) = IF s.visible THEN Closing!start(page, s) ELSE Closing!stop(s)
      BY DEF Closing!Observed
    <3> HIDE DEF s
    <3>q. QED
      BY <1>0, <2>0, <2>1, <3>1, InkWatches DEF Closing!CanRun
  <2>3. InkFine(p, Closing!onVisibility(p, scene))
    <3> HIDE DEF p
    <3>q. QED
      BY <1>0, <1>p, <2>0, InkWatches DEF Closing!onVisibility, Closing!CanRun
  <2>q. QED
    BY <1>0, <1>p, <2>2, <2>3, ClosingBecomesFine DEF Closing!Watched, ClosingFine
<1>2. CASE scene.kind = "night"
  <2>0. /\ NightFine(page, scene) /\ scene.visible \in BOOLEAN /\ scene.running \in BOOLEAN
        /\ scene.channels \in 1 .. MaxChannels /\ scene \in Nights(scene.channels)
        /\ Titled(scene) /\ scene.drawn /\ (scene.running <=> Closing!CanRun(page, scene))
    BY <1>2, ClosingKinds, NightParts DEF ClosingInv, NightFine
  <2>1. /\ s \in Nights(scene.channels) /\ Titled(s) /\ s.drawn /\ s.running = scene.running
        /\ s.visible = ~scene.visible
    BY <2>0 DEF Nights, Titled
  <2>2. NightFine(page, Closing!Observed(scene))
    <3>1. Closing!Observed(scene) = IF s.visible THEN Closing!start(page, s) ELSE Closing!stop(s)
      BY DEF Closing!Observed
    <3> HIDE DEF s
    <3>2. CASE s.visible
      <4>1. s.running => Closing!CanRun(page, s)
        BY <2>0, <2>1, <3>2 DEF Closing!CanRun
      <4>q. QED
        BY <1>0, <2>0, <2>1, <3>1, <3>2, <4>1, NightStart
    <3>3. CASE ~s.visible
      <4>1. ~Closing!CanRun(page, s)
        BY <3>3 DEF Closing!CanRun
      <4>q. QED
        BY <2>0, <2>1, <3>1, <3>3, <4>1, NightStop
    <3>q. QED
      BY <3>2, <3>3
  <2>3. NightFine(p, Closing!onVisibility(p, scene))
    <3> HIDE DEF p
    <3>1. CASE p.hidden
      <4>1. ~Closing!CanRun(p, scene)
        BY <3>1 DEF Closing!CanRun
      <4>q. QED
        BY <2>0, <3>1, <4>1, NightStop DEF Closing!onVisibility
    <3>2. CASE ~p.hidden
      <4>1. scene.running => Closing!CanRun(p, scene)
        BY <1>p, <2>0, <3>2 DEF Closing!CanRun
      <4>q. QED
        BY <1>p, <2>0, <3>2, <4>1, NightStart DEF Closing!onVisibility
    <3>q. QED
      BY <3>1, <3>2
  <2>q. QED
    BY <1>0, <1>p, <2>2, <2>3, ClosingBecomesFine DEF Closing!Watched, ClosingFine
<1>q. QED
  BY <1>1, <1>2

\* What each preference change, or another number of links, mounts.
LEMMA ScreenFine ==
  ASSUME MaxChannels \in Nat, NEW p \in Closing!Pages, NEW n \in 0 .. MaxChannels,
         NEW orphan \in Closing!Indices \cup {Closing!None}
  PROVE  ClosingFine(p, Closing!Screen(p, n, orphan))
<1>1. CASE n = 0
  BY <1>1 DEF Closing!Screen, ClosingFine
<1>2. CASE n # 0 /\ p.theme = "dark"
  <2>1. NightFine(p, Closing!MeteorContact(p, n))
    BY <1>2, NightStarts
  <2>q. QED
    BY <1>2, <2>1 DEF Closing!Screen, ClosingFine
<1>3. CASE n # 0 /\ p.theme # "dark"
  <2>1. InkFine(p, Closing!InkWriting(p, n, orphan))
    BY <1>3, InkStarts
  <2>q. QED
    BY <1>3, <2>1 DEF Closing!Screen, ClosingFine
<1>q. QED
  BY <1>1, <1>2, <1>3

\* What is left of a screen disposed of.
LEMMA ScreenCleaned ==
  ASSUME ClosingInv, NEW p
  PROVE  LET done == Closing!cleanup(scene)
         IN /\ ~done.running /\ done.running \in BOOLEAN
            /\ Closing!Orphan(p, done) \in Closing!Indices \cup {Closing!None}
<1> DEFINE done == Closing!cleanup(scene)
<1>0. /\ scene.kind = "ink" => InkFine(page, scene)
      /\ scene.kind = "night" => NightFine(page, scene)
      /\ scene.kind \notin {"ink", "night"} => scene = Closing!Nothing
      /\ scene.kind \in {"ink", "night", "none"}
  BY ClosingKinds DEF ClosingInv
<1>1. CASE scene.kind = "ink"
  <2> DEFINE orphan == IF scene.fonts /\ Closing!Still(scene) THEN scene.idx ELSE scene.orphan
             s == Closing!stop(scene)
  <2>1. scene \in Closing!Ink
    BY <1>0, <1>1, InkWritten
  <2>2. orphan \in Closing!Indices \cup {Closing!None}
    BY <2>1 DEF Closing!Ink
  <2>3. s \in Closing!Ink /\ ~s.running /\ s.fonts = scene.fonts /\ s.idx = scene.idx /\ s.orphan = scene.orphan
    BY <2>1 DEF Closing!stop, Closing!Ink
  <2>4. done = [s EXCEPT !.written = Closing!None, !.latest = Closing!None, !.orphan = orphan]
    BY <1>1, <2>3 DEF Closing!cleanup, Closing!inkCleanup, Closing!Ink
  <2> HIDE DEF s, orphan, done
  <2>5. done \in Closing!Ink /\ ~done.running /\ done.orphan = orphan
    BY <2>2, <2>3, <2>4 DEF Closing!Ink
  <2>6. done.running \in BOOLEAN
    BY <2>5 DEF Closing!Ink
  <2>q. QED
    BY <2>2, <2>5, <2>6 DEF Closing!Orphan, done
<1>2. CASE scene.kind = "night"
  <2>1. scene \in Nights(scene.channels)
    BY <1>0, <1>2, NightParts
  <2>2. done.kind = "night" /\ ~done.running /\ done.running \in BOOLEAN
    BY <1>2, <2>1 DEF Closing!cleanup, Closing!nightCleanup, Closing!stop, Nights
  <2> HIDE DEF done
  <2>q. QED
    BY <2>2 DEF Closing!Orphan, done
<1>3. CASE scene = Closing!Nothing
  BY <1>3 DEF Closing!cleanup, Closing!Orphan, Closing!Nothing
<1>q. QED
  BY <1>0, <1>1, <1>2, <1>3

\* The ink's own steps.
LEMMA InkStep ==
  ASSUME MaxChannels \in Nat, ClosingInv,
         \/ Closing!InkAdvance \/ Closing!InkStays \/ Closing!InkPreview \/ Closing!InkHover
         \/ Closing!InkFonts \/ Closing!InkResized
  PROVE  ClosingInv'
<1>0. /\ page \in Closing!Pages /\ page' = page /\ InkFine(page, scene) /\ scene.kind = "ink"
  BY ClosingKinds DEF ClosingInv, Closing!InkAdvance, Closing!InkStays, Closing!InkPreview, Closing!InkHover,
                      Closing!InkFonts, Closing!InkResized, Closing!InkFrame
<1>i. /\ scene \in Closing!Ink /\ InkRuns(page, scene) /\ Worded(scene) /\ scene.phase \in Closing!Phases
      /\ scene.running => Closing!CanRun(page, scene)
  BY <1>0, InkWritten DEF InkFine
<1> SUFFICES \E t : InkFine(page, t) /\ Closing!Become(t)
  BY <1>0, ClosingBecomesFine DEF ClosingFine
<1>1. CASE Closing!InkAdvance
  <2>1. scene.running /\ Closing!Become(Closing!Advance(scene))
    BY <1>1 DEF Closing!InkAdvance, Closing!InkFrame
  <2>q. QED
    BY <1>0, <2>1, InkAdvances
<1>2. CASE Closing!InkStays
  <2>1. Closing!Become(scene) \/ (scene.phase # "wait" /\ Closing!Become(Closing!render(scene)))
    BY <1>2 DEF Closing!InkStays
  <2>2. InkFine(page, Closing!render(scene))
    BY <1>i, InkRendered DEF Worded
  <2>q. QED
    BY <1>0, <2>1, <2>2
<1>3. CASE Closing!InkPreview
  <2>1. PICK i \in 0 .. scene.channels - 1 : Closing!Become(Closing!drop(page, scene, i))
    BY <1>3 DEF Closing!InkPreview
  <2>q. QED
    BY <1>0, <1>i, <2>1, InkDrops
<1>4. CASE Closing!InkHover
  <2>1. PICK on \in BOOLEAN :
          LET s == [scene EXCEPT !.hover = on, !.dirty = TRUE]
          IN Closing!Become(Closing!start(page, IF page.motion THEN s ELSE Closing!render(s)))
    BY <1>4 DEF Closing!InkHover
  <2> DEFINE s == [scene EXCEPT !.hover = on, !.dirty = TRUE]
             t == IF page.motion THEN s ELSE Closing!render(s)
  <2>2. /\ s \in Closing!Ink /\ s.phase = scene.phase /\ s.idx = scene.idx /\ s.picture = scene.picture
        /\ s.written = scene.written /\ s.latest = scene.latest /\ s.running = scene.running
        /\ s.visible = scene.visible
    BY <1>i DEF Closing!Ink
  <2> HIDE DEF s
  <2>3. InkFine(page, s)
    BY <1>0, <2>2, InkFrames
  <2>4. InkFine(page, t)
    BY <2>3, InkRendered, InkWritten
  <2>5. Closing!Become(Closing!start(page, t))
    BY <2>1 DEF s
  <2> HIDE DEF t
  <2>6. InkFine(page, Closing!start(page, t))
    BY <1>0, <2>4, InkWatches, InkWritten DEF InkFine, InkRuns
  <2>q. QED
    BY <2>5, <2>6
<1>5. CASE Closing!InkFonts
  <2> DEFINE s == [scene EXCEPT !.fonts = FALSE, !.dirty = TRUE]
             o == [scene EXCEPT !.orphan = Closing!None]
  <2>1. /\ s \in Closing!Ink /\ s.phase = scene.phase /\ s.idx = scene.idx /\ s.picture = scene.picture
        /\ s.written = scene.written /\ s.latest = scene.latest /\ s.running = scene.running
        /\ s.visible = scene.visible
    BY <1>i DEF Closing!Ink
  <2>2. /\ o \in Closing!Ink /\ o.phase = scene.phase /\ o.idx = scene.idx /\ o.picture = scene.picture
        /\ o.written = scene.written /\ o.latest = scene.latest /\ o.running = scene.running
        /\ o.visible = scene.visible
    BY <1>i DEF Closing!Ink
  <2>3. \/ Closing!Become(IF Closing!Still(s) THEN Closing!placeWord(Closing!render(s), TRUE) ELSE s)
        \/ Closing!Become(o)
    BY <1>5 DEF Closing!InkFonts
  <2> HIDE DEF s, o
  <2>4. InkFine(page, s) /\ InkFine(page, o)
    BY <1>0, <2>1, <2>2, InkFrames
  <2>5. Closing!Still(s) => InkFine(page, Closing!placeWord(Closing!render(s), TRUE))
    <3>1. Closing!Still(s) => s.phase = "hold" /\ s.latest = s.idx /\ InkRuns(page, s)
      BY <2>4, InkWritten DEF Closing!Still, InkRuns
    <3>q. QED
      BY <2>1, <3>1, InkStill
  <2>q. QED
    BY <2>3, <2>4, <2>5
<1>6. CASE Closing!InkResized
  <2> DEFINE s == Closing!inkSize(scene)
  <2>1. /\ s \in Closing!Ink /\ s.phase = scene.phase /\ s.idx = scene.idx
        /\ s.written = scene.written /\ s.latest = scene.latest /\ s.running = scene.running
        /\ s.visible = scene.visible
    BY <1>i DEF Closing!inkSize, Closing!Ink, Closing!Blank
  <2>2. Closing!Become(IF Closing!Still(s) THEN Closing!placeWord(Closing!render(s), TRUE) ELSE s)
    BY <1>6 DEF Closing!InkResized
  <2> HIDE DEF s
  <2>3. InkRuns(page, s)
    BY <1>i, <2>1 DEF InkRuns, Closing!CanRun
  <2>4. Closing!Still(s) => InkFine(page, Closing!placeWord(Closing!render(s), TRUE))
    <3>1. Closing!Still(s) => s.phase = "hold" /\ s.latest = s.idx
      BY <1>i, <2>1, <2>3 DEF Closing!Still, InkRuns, Worded
    <3>q. QED
      BY <2>1, <2>3, <3>1, InkStill
  <2>5. ~Closing!Still(s) => InkFine(page, s)
    BY <1>i, <2>1, <2>3 DEF InkFine, Worded, Closing!Still
  <2>q. QED
    BY <2>2, <2>4, <2>5
<1>q. QED
  BY <1>1, <1>2, <1>3, <1>4, <1>5, <1>6

\* The meteors' own steps.
LEMMA NightStep ==
  ASSUME MaxChannels \in Nat, ClosingInv, Closing!NightTick \/ Closing!NightPointer \/ Closing!NightResized
  PROVE  ClosingInv'
<1>0. page \in Closing!Pages /\ page' = page /\ scene.kind = "night" /\ NightFine(page, scene)
  BY ClosingKinds DEF ClosingInv, Closing!NightTick, Closing!NightPointer, Closing!NightResized
<1>n. /\ scene \in Nights(scene.channels) /\ scene.channels \in 1 .. MaxChannels
      /\ DOMAIN scene.modes = 0 .. scene.channels - 1
      /\ (scene.running <=> Closing!CanRun(page, scene)) /\ Titled(scene) /\ scene.drawn
  BY <1>0, NightParts DEF NightFine
<1> SUFFICES \E t : NightFine(page, t) /\ Closing!Become(t)
  BY <1>0, ClosingBecomesFine DEF ClosingFine
<1>1. CASE Closing!NightTick
  <2> DEFINE n == scene.channels
  <2>1. PICK s \in {scene, Closing!TurnTaken(scene)} :
          \E move \in {f \in [DOMAIN s.modes -> [weight : Closing!Weights, mode : Closing!Modes]] :
                         \A m \in DOMAIN s.modes : f[m] \in Closing!Moves(s, m)} :
            \E title \in Closing!Strongest(s, move) : Closing!Become(Drawing(s, move, title))
    BY <1>1 DEF Closing!NightTick, Drawing
  <2>2. PICK move \in {f \in [DOMAIN s.modes -> [weight : Closing!Weights, mode : Closing!Modes]] :
                         \A m \in DOMAIN s.modes : f[m] \in Closing!Moves(s, m)} :
          \E title \in Closing!Strongest(s, move) : Closing!Become(Drawing(s, move, title))
    BY <2>1
  <2>3. PICK title \in Closing!Strongest(s, move) : Closing!Become(Drawing(s, move, title))
    BY <2>2
  <2>4. s \in Nights(n) /\ s.running = scene.running /\ s.visible = scene.visible
    BY <1>n, <2>1, NightTurns
  <2>5. s.running <=> Closing!CanRun(page, s)
    BY <1>n, <2>4 DEF Closing!CanRun
  <2>6. NightFine(page, Drawing(s, move, title))
    <3>1. /\ move \in [DOMAIN s.modes -> [weight : Closing!Weights, mode : Closing!Modes]]
          /\ \A m \in DOMAIN s.modes : move[m] \in Closing!Moves(s, m)
      BY <2>2
    <3> HIDE DEF n
    <3>q. QED
      BY <1>n, <2>3, <2>4, <2>5, <3>1, NightFrame DEF n
  <2>q. QED
    BY <2>3, <2>6
<1>2. CASE Closing!NightPointer
  <2>1. PICK m \in DOMAIN scene.modes \cup {Closing!None} : Closing!Become([scene EXCEPT !.pointed = m])
    BY <1>2 DEF Closing!NightPointer
  <2>2. NightFine(page, [scene EXCEPT !.pointed = m])
    BY <1>n, <2>1 DEF NightFine, Nights, Titled, Closing!CanRun
  <2>q. QED
    BY <2>1, <2>2
<1>3. CASE Closing!NightResized
  <2>1. Closing!Become(Closing!nightDraw(Closing!nightSize(scene)))
    BY <1>3 DEF Closing!NightResized
  <2>2. NightFine(page, Closing!nightDraw(Closing!nightSize(scene)))
    BY <1>n DEF NightFine, Nights, Titled, Closing!CanRun, Closing!nightDraw, Closing!nightSize
  <2>q. QED
    BY <2>1, <2>2
<1>q. QED
  BY <1>1, <1>2, <1>3

\* A step of the contact screen.
LEMMA ClosingStep == MaxChannels \in Nat /\ ClosingInv /\ Closing!Next => ClosingInv'
<1> SUFFICES ASSUME MaxChannels \in Nat, ClosingInv, Closing!Next PROVE ClosingInv'
  OBVIOUS
<1>0. page \in Closing!Pages /\ scene.running \in BOOLEAN /\ ClosingFine(page, scene)
  BY ClosingKinds DEF ClosingInv
<1>1. CASE Closing!Remount
  <2>1. PICK p \in Closing!Pages, n \in 0 .. MaxChannels :
          /\ page' = p
          /\ LET done == Closing!cleanup(scene)
             IN Closing!Rebuild(done, Closing!Screen(p, n, Closing!Orphan(p, done)))
    BY <1>1 DEF Closing!Remount
  <2> DEFINE done == Closing!cleanup(scene)
             orphan == Closing!Orphan(p, done)
             t == Closing!Screen(p, n, orphan)
  <2>2. ~done.running /\ done.running \in BOOLEAN /\ orphan \in Closing!Indices \cup {Closing!None}
    BY ScreenCleaned
  <2>3. Closing!Rebuild(done, t)
    BY <2>1
  <2> HIDE DEF done, orphan
  <2>4. ClosingFine(p, t)
    BY <2>2, ScreenFine
  <2> HIDE DEF t
  <2>5. t.running \in BOOLEAN
    BY <2>4, ClosingKinds
  <2>6. CloseBecomes(t)
    BY <1>0, <2>2, <2>3, <2>5, ClosingRebuilt DEF ClosingInv
  <2>q. QED
    BY <2>1, <2>4, <2>6
       DEF ClosingInv, CloseBecomes, ClosingFine, InkFine, NightFine, InkRuns, Closing!CanRun
<1>2. CASE Closing!EmptyToggled
  <2> DEFINE p == Closing!Toggled
  <2>1. p \in Closing!Pages
    BY <1>0 DEF Closing!Toggled, Closing!Pages
  <2>2. scene = Closing!Nothing
    BY <1>0, <1>2, ClosingKinds DEF Closing!EmptyToggled
  <2>3. page' = p /\ Closing!Become(scene)
    BY <1>2 DEF Closing!EmptyToggled
  <2> HIDE DEF p
  <2>4. ClosingFine(p, scene)
    BY <2>2 DEF ClosingFine
  <2>q. QED
    BY <2>1, <2>3, <2>4, ClosingBecomesFine
<1>3. CASE Closing!InkWatched \/ Closing!NightWatched
  BY <1>3, ClosingWatched DEF Closing!InkWatched, Closing!NightWatched
<1>q. QED
  BY <1>1, <1>2, <1>3, InkStep, NightStep DEF Closing!Next

-------------------------------------------------------------------------------
(* The pictures together, one of which a behaviour follows.                  *)

PictureInv ==
  /\ part = "hero" => HeroInv
  /\ part = "closing" => ClosingInv
  /\ part = "backdrop" => BackInv
  /\ part = "glass" => GlassInv

LEMMA PictureBounds ==
  MaxChannels \in Nat /\ LastSection \in Nat /\ MaxShooters \in Nat /\ Boxes \in Nat
  BY PublicPageAssumption DEF Closing!Bounds, Back!Bounds, Pane!Bounds

\* Each picture starts fine.
LEMMA HeroInit == Hero!Init => HeroInv
<1> SUFFICES ASSUME Hero!Init PROVE HeroInv
  OBVIOUS
<1>1. PICK device \in Hero!Devices :
        scene = IF page.theme = "dark" THEN Hero!BlackHole(page, device) ELSE Hero!InkStream(page, device)
  BY DEF Hero!Init
<1>2. page \in Hero!Pages /\ ticker = Hero!Ticks(scene)
  BY DEF Hero!Init
<1>3. HeroFine(page, scene)
  BY <1>1, <1>2, BlackHoleFine, InkStreamFine
<1>q. QED
  BY <1>2, <1>3 DEF HeroInv, Hero!OneLoop, Hero!Ticks

LEMMA ClosingInit == Closing!Init => ClosingInv
<1> SUFFICES ASSUME Closing!Init PROVE ClosingInv
  OBVIOUS
<1>1. PICK n \in 0 .. MaxChannels : scene = Closing!Screen(page, n, Closing!None)
  BY DEF Closing!Init
<1>2. page \in Closing!Pages /\ ticker = Closing!Ticks(scene)
  BY DEF Closing!Init
<1>3. ClosingFine(page, scene)
  BY <1>1, <1>2, PictureBounds, ScreenFine
<1>q. QED
  BY <1>2, <1>3 DEF ClosingInv, Closing!OneLoop, Closing!Ticks

LEMMA BackInit == Back!Init => BackInv
<1> SUFFICES ASSUME Back!Init PROVE BackInv
  OBVIOUS
<1>1. page \in Back!Pages /\ scene = Back!Scenery(page, Back!None) /\ ticker = Back!Ticks(scene)
  BY DEF Back!Init
<1>2. SceneryFine(page, scene)
  BY <1>1, PictureBounds, SceneryStarts
<1>q. QED
  BY <1>1, <1>2 DEF BackInv, Back!OneLoop, Back!Ticks

LEMMA GlassInit == Pane!Init => GlassInv
<1> SUFFICES ASSUME Pane!Init PROVE GlassInv
  OBVIOUS
<1>1. PICK near \in 0 .. Boxes : scene \in Pane!PageGlass(page, near)
  BY DEF Pane!Init
<1>2. page \in Pane!Pages /\ ticker = Pane!Ticks(scene)
  BY DEF Pane!Init
<1>3. /\ scene \in Panes /\ ~scene.running /\ ~scene.scrolling /\ scene.near = near
      /\ scene.presence = (IF near = 0 THEN "hidden" ELSE "whole") /\ (near # 0 => scene.rect = near)
  <2> DEFINE jump == TRUE
             s == [kind |-> "glass", near |-> near, rect |-> 0, presence |-> "hidden", running |-> FALSE,
                   scrolling |-> FALSE, restTimer |-> FALSE, rested |-> TRUE, moving |-> FALSE]
  <2>1. s \in Panes /\ ~s.running /\ ~s.scrolling /\ s.near = near
    BY <1>1, PictureBounds DEF Panes, Pane!Presence
  <2>2. scene \in Pane!Stepped(page, s, jump) /\ jump = TRUE
    BY <1>1 DEF Pane!PageGlass
  <2> HIDE DEF s, jump
  <2>3. Follows(page, jump, s, scene)
    BY <2>1, <2>2, PictureBounds, GlassFrame
  <2>q. QED
    BY <2>1, <2>2, <2>3 DEF Follows, Pane!Want, Pane!target
<1>q. QED
  BY <1>2, <1>3 DEF GlassInv, Pane!TypeOK, Pane!LoopFollows, Pane!GlassRests, Pane!target, Panes,
                    Pane!OneLoop, Pane!Ticks

LEMMA PictureInit == Init => PictureInv
<1> SUFFICES ASSUME Init PROVE PictureInv
  OBVIOUS
<1>1. /\ part = "hero" => Hero!Init
      /\ part = "closing" => Closing!Init
      /\ part = "backdrop" => Back!Init
      /\ part = "glass" => Pane!Init
  BY DEF Init
<1>q. QED
  BY <1>1, HeroInit, ClosingInit, BackInit, GlassInit DEF PictureInv

\* A part's step is another part's stutter.
LEMMA PictureStays ==
  ASSUME PictureInv, UNCHANGED <<part, stage>>
  PROVE  PictureInv'
<1> USE DEF stage
<1>1. HeroInv => HeroInv'
  BY DEF HeroInv, HeroFine, HeroMoves, HeroDrawn, Hero!OneLoop, Hero!Ticks, Hero!CanRun
<1>2. ClosingInv => ClosingInv'
  BY DEF ClosingInv, ClosingFine, InkFine, InkRuns, NightFine, Closing!OneLoop, Closing!Ticks, Closing!CanRun
<1>3. BackInv => BackInv'
  BY DEF BackInv, SceneryFine, SkyFine, GroveFine, Back!OneLoop, Back!Ticks, Back!CanRun
<1>4. GlassInv => GlassInv'
  BY DEF GlassInv, Pane!TypeOK, Pane!LoopFollows, Pane!GlassRests, Pane!OneLoop, Pane!Ticks
<1>q. QED
  BY <1>1, <1>2, <1>3, <1>4 DEF PictureInv

LEMMA PictureStep == PictureInv /\ [Next]_vars => PictureInv'
<1> SUFFICES ASSUME PictureInv, [Next]_vars PROVE PictureInv'
  OBVIOUS
<1>1. CASE part = "hero" /\ part' = part /\ Hero!Next
  BY <1>1, HeroStep DEF PictureInv
<1>2. CASE part = "closing" /\ part' = part /\ Closing!Next
  BY <1>2, PictureBounds, ClosingStep DEF PictureInv
<1>3. CASE part = "backdrop" /\ part' = part /\ Back!Next
  BY <1>3, PictureBounds, BackStep DEF PictureInv
<1>4. CASE part = "glass" /\ part' = part /\ Pane!Next
  BY <1>4, PictureBounds, GlassStep DEF PictureInv
<1>5. CASE UNCHANGED <<part, stage>>
  BY <1>5, PictureStays
<1>q. QED
  BY <1>1, <1>2, <1>3, <1>4, <1>5 DEF Next, Draws, Enters, Reads, Modally, vars

\* A picture's frame callback is on gsap's ticker exactly while there is something
\* to move and someone to see it, and none outlives its picture, however themes,
\* motion, tabs and content change (animations/use*.ts).
THEOREM LoopFollowsAlways == Spec => []LoopFollows
<1>1. HeroInv => Hero!LoopFollows
  BY DEF HeroInv, HeroFine, HeroMoves, Hero!LoopFollows
<1>2. ClosingInv => Closing!LoopFollows
  <2> SUFFICES ASSUME ClosingInv PROVE Closing!LoopFollows
    OBVIOUS
  <2>1. /\ scene.kind = "ink" => InkFine(page, scene)
        /\ scene.kind = "night" => NightFine(page, scene)
        /\ scene.kind \notin {"ink", "night"} => scene = Closing!Nothing
    BY ClosingKinds DEF ClosingInv
  <2>q. QED
    BY <2>1 DEF ClosingInv, InkFine, InkRuns, NightFine, Closing!Nothing, Closing!LoopFollows
<1>3. BackInv => Back!LoopFollows
  BY BackKinds DEF BackInv, SceneryFine, SkyFine, GroveFine, Back!LoopFollows
<1>4. GlassInv => Pane!LoopFollows
  BY DEF GlassInv
<1>5. PictureInv => LoopFollows
  BY <1>1, <1>2, <1>3, <1>4 DEF PictureInv, LoopFollows
<1>q. QED
  BY PictureInit, PictureStep, <1>5, PTL DEF Spec

\* No canvas is left cleared or out of date by a resize, a font, a lost context or
\* a replacement, the link laid over the contact screen is the link of what it
\* shows, and the glass comes to rest where the reader is.
THEOREM PictureTrueAlways == Spec => []PictureTrue
<1>1. HeroInv => Hero!Drawn
  BY DEF HeroInv, HeroFine, HeroMoves, HeroDrawn, Hero!Drawn
<1>2. ClosingInv => Closing!Drawn /\ Closing!LinkTrue
  <2> SUFFICES ASSUME ClosingInv PROVE Closing!Drawn /\ Closing!LinkTrue
    OBVIOUS
  <2>1. /\ scene.kind = "ink" => InkFine(page, scene)
        /\ scene.kind = "night" => NightFine(page, scene)
        /\ scene.kind \notin {"ink", "night"} => scene = Closing!Nothing
    BY ClosingKinds DEF ClosingInv
  <2>2. scene.kind = "ink" => Closing!Drawn /\ Closing!LinkTrue
    BY <2>1 DEF InkFine, InkRuns, Worded, Closing!Drawn, Closing!LinkTrue, Closing!Ink, Closing!None
  <2>3. scene.kind = "night" => Closing!Drawn /\ Closing!LinkTrue
    <3> SUFFICES ASSUME scene.kind = "night" PROVE Closing!Drawn /\ Closing!LinkTrue
      OBVIOUS
    <3>1. scene.drawn /\ Titled(scene) /\ scene \in Nights(scene.channels)
      BY <2>1 DEF NightFine
    <3>2. scene.title = [of |-> scene.title.of, weight |-> scene.title.weight]
      BY <3>1 DEF Nights
    <3>q. QED
      BY <3>1, <3>2 DEF Titled, Closing!Drawn, Closing!LinkTrue
  <2>4. scene.kind \notin {"ink", "night"} => Closing!Drawn /\ Closing!LinkTrue
    BY DEF Closing!Drawn, Closing!LinkTrue
  <2>q. QED
    BY <2>2, <2>3, <2>4
<1>3. BackInv => Back!Drawn
  BY DEF BackInv, SceneryFine, SkyFine, GroveFine, Back!Drawn
<1>4. GlassInv => Pane!GlassRests
  BY DEF GlassInv
<1>5. PictureInv => PictureTrue
  BY <1>1, <1>2, <1>3, <1>4 DEF PictureInv, PictureTrue
<1>q. QED
  BY PictureInit, PictureStep, <1>5, PTL DEF Spec

-------------------------------------------------------------------------------
(* The dialogs.                                                              *)

\* Only a dialog that is closed has a close event on its way, and React is told
\* of exactly the open dialog and those.
DialogParts ==
  /\ open # "none" => closing = {} /\ open \in expanded
  /\ expanded \subseteq closing \cup {open}

DialogInv == part = "dialogs" => Modal!TypeOK /\ Modal!ScrollFree /\ DialogParts

\* The page starts with no dialog and nothing stopped.
LEMMA DialogInit == Init => DialogInv
  BY DEF Init, DialogInv, DialogParts, Modal!Init, Modal!TypeOK, Modal!ScrollFree,
         Modal!Modals, Modal!Focuses

\* Each dialog step keeps types.
LEMMA DialogTypes == Modal!TypeOK /\ Modal!Next => Modal!TypeOK'
<1> SUFFICES ASSUME Modal!TypeOK, Modal!Next PROVE Modal!TypeOK'
  OBVIOUS
<1> USE DEF Modal!TypeOK, Modal!Modals, Modal!Focuses, Modal!stop, Modal!start, Modal!layout
<1>1. CASE Modal!openMenu \/ Modal!show
  BY <1>1 DEF Modal!openMenu, Modal!show, Modal!Show
<1>2. CASE Modal!Dismiss \/ Modal!CloseButton \/ Modal!handleClick
  BY <1>2 DEF Modal!Dismiss, Modal!CloseButton, Modal!handleClick, Modal!closeMenu, Modal!Close, Modal!Opener
<1>3. CASE Modal!scrollToSection \/ Modal!focusHeading
  BY <1>3, ZenonT(30) DEF Modal!scrollToSection, Modal!focusHeading, Modal!Headed
<1>4. CASE \E modal \in Modal!Modals : Modal!onDialogClose(modal)
  BY <1>4 DEF Modal!onDialogClose
<1>5. CASE Modal!Widen
  BY <1>5 DEF Modal!Widen, Modal!closeMenu, Modal!Close, Modal!Opener
<1>6. CASE Modal!Route
  BY <1>6 DEF Modal!Route, Modal!Unmount, Modal!Within, Modal!closeMenu, Modal!Close, Modal!Opener
<1>7. CASE Modal!SwitchLanguage
  BY <1>7 DEF Modal!SwitchLanguage, Modal!Unmount, Modal!Within
<1>8. CASE Modal!SmoothScrollProvider
  BY <1>8 DEF Modal!SmoothScrollProvider
<1>q. QED
  BY <1>1, <1>2, <1>3, <1>4, <1>5, <1>6, <1>7, <1>8 DEF Modal!Next

\* Each dialog step keeps the page free to scroll.
LEMMA DialogFree ==
  Modal!TypeOK /\ Modal!ScrollFree /\ DialogParts /\ Modal!Next => (Modal!ScrollFree /\ DialogParts)'
<1> SUFFICES ASSUME Modal!TypeOK, Modal!ScrollFree, DialogParts, Modal!Next
             PROVE  (Modal!ScrollFree /\ DialogParts)'
  OBVIOUS
<1> USE DEF Modal!TypeOK, Modal!ScrollFree, DialogParts, Modal!Modals, Modal!stop, Modal!start, Modal!layout
<1>1. CASE Modal!openMenu \/ Modal!show
  <2>1. PICK modal \in {"menu", "form"} : Modal!Show(modal)
    BY <1>1 DEF Modal!openMenu, Modal!show
  <2>2. expanded = {}
    BY <2>1 DEF Modal!Show
  <2>3. /\ open' = modal /\ closing' = {} /\ expanded' = {modal} /\ focus' = modal
        /\ lock' \in {"none", "stopped"}
    BY <2>1, <2>2 DEF Modal!Show
  <2>q. QED
    BY <2>1, <2>3
<1>2. CASE Modal!Dismiss \/ Modal!CloseButton \/ Modal!handleClick
  BY <1>2 DEF Modal!Dismiss, Modal!CloseButton, Modal!handleClick, Modal!closeMenu, Modal!Close, Modal!Opener
<1>3. CASE Modal!scrollToSection \/ Modal!focusHeading
  BY <1>3 DEF Modal!scrollToSection, Modal!focusHeading, Modal!Headed
<1>4. CASE \E modal \in Modal!Modals : Modal!onDialogClose(modal)
  BY <1>4 DEF Modal!onDialogClose
<1>5. CASE Modal!Widen
  BY <1>5 DEF Modal!Widen, Modal!closeMenu, Modal!Close, Modal!Opener
<1>6. CASE Modal!Route
  BY <1>6 DEF Modal!Route, Modal!Unmount, Modal!Within, Modal!closeMenu, Modal!Close, Modal!Opener
<1>7. CASE Modal!SwitchLanguage
  BY <1>7 DEF Modal!SwitchLanguage, Modal!Unmount, Modal!Within
<1>8. CASE Modal!SmoothScrollProvider
  BY <1>8 DEF Modal!SmoothScrollProvider
<1>q. QED
  BY <1>1, <1>2, <1>3, <1>4, <1>5, <1>6, <1>7, <1>8 DEF Modal!Next

\* A step of any part.
LEMMA DialogStep == DialogInv /\ [Next]_vars => DialogInv'
<1> SUFFICES ASSUME DialogInv, [Next]_vars PROVE DialogInv'
  OBVIOUS
<1>1. CASE part = "dialogs" /\ Modal!Next
  BY <1>1, DialogTypes, DialogFree DEF DialogInv
<1>2. CASE UNCHANGED <<part, dialogs>>
  BY <1>2 DEF dialogs, DialogInv, DialogParts, Modal!TypeOK, Modal!ScrollFree
<1>3. CASE part # "dialogs" /\ part' = part
  BY <1>3 DEF DialogInv
<1>q. QED
  BY <1>1, <1>2, <1>3 DEF Next, Draws, Enters, Reads, Modally, vars

\* The page scrolls again after a dialog, however it was closed, and behind one only
\* with a Lenis made while it was open (MobileMenu.tsx, ContactDialog.tsx).
THEOREM ScrollFreeAlways == Spec => []ScrollFree
<1>1. DialogInv => ScrollFree
  BY DEF DialogInv, ScrollFree
<1>q. QED
  BY DialogInit, DialogStep, <1>1, PTL DEF Spec

-------------------------------------------------------------------------------
(* What enters and fades.                                                    *)

\* The live context is set up for its medium, on parts that are on the page and
\* had their own look; the fades know every section they write.  A look that is
\* not a part's own is the context's or the fades', follows the scroll once
\* measured, and is the intro's last once that has played.
EnterParts ==
  /\ context.parts \subseteq dom
  /\ media = "static" => context.parts = {} /\ context.sections = {}
  /\ context.pinned => hook = "statement" /\ media = "pinnable"
  /\ \A e \in context.parts : context.before[e] = "own"
  /\ hook = "fades" => context.parts \subseteq context.sections
  /\ hook # "fades" => context.sections = {}
  /\ \A e \in dom : style[e] # "own" => e \in context.parts \cup context.sections
  /\ hook # "intro" /\ ~refresh => \A e \in context.parts : style[e] \in Enter!StylesAt(context, e, at[e])
  /\ hook = "intro" => \A e \in context.parts : style[e] # "own" /\ (played => style[e] = "to")

EnterInv == part = "entrance" => Enter!TypeOK /\ EnterParts

\* What the scroll makes of a part is a style, and its own look past the screen
\* where the tween ends at it.
LEMMA EnterStyles ==
  ASSUME NEW c \in Enter!Contexts, NEW e \in Enter!Parts, NEW place_ \in Enter!Places
  PROVE  /\ Enter!StylesAt(c, e, place_) \subseteq Enter!Styles
         /\ hook \in Enter!FromHooks /\ place_ = "past" => Enter!StylesAt(c, e, place_) = {c.before[e]}
         /\ hook = "fades" /\ place_ = "on" => "from" \notin Enter!StylesAt(c, e, place_)
<1>1. c.before[e] \in Enter!Styles
  BY DEF Enter!Contexts
<1>2. /\ hook \in Enter!FromHooks => hook # "fades"
      /\ {"own", "from", "moving", "to"} \subseteq Enter!Styles
  BY DEF Enter!FromHooks, Enter!Styles
<1>3. CASE hook = "fades"
  BY <1>2, <1>3 DEF Enter!StylesAt, Enter!Faded
<1>4. CASE hook # "fades"
  BY <1>1, <1>2, <1>4 DEF Enter!StylesAt, Enter!Places
<1>q. QED
  BY <1>3, <1>4

\* The context and the looks that a setup for medium m leaves on these parts.
EnterFresh(c, f, m, parts) ==
  /\ c \in Enter!Contexts /\ f \in [Enter!Parts -> Enter!Styles]
  /\ c.parts \subseteq parts
  /\ m = "static" => c.parts = {} /\ c.sections = {}
  /\ c.pinned => hook = "statement" /\ m = "pinnable"
  /\ \A e \in c.parts : c.before[e] = "own"
  /\ hook = "fades" => c.parts \subseteq c.sections
  /\ hook # "fades" => c.sections = {}
  /\ hook = "intro" /\ played => c.parts = {}
  /\ \A e \in Enter!Parts : f[e] # "own" => e \in c.parts \cup c.sections
  /\ hook # "intro" => \A e \in c.parts : f[e] \in Enter!StylesAt(c, e, at[e])
  /\ hook = "intro" => \A e \in c.parts : f[e] = "from"

\* What a setup on parts that have their own look leaves, whether it came to
\* its end or threw.
LEMMA EnterRuns ==
  ASSUME hook \in Enter!Hooks, at \in [Enter!Parts -> Enter!Places], NEW m \in Enter!Medias,
         NEW parts \in SUBSET Enter!Parts, NEW late \in BOOLEAN, NEW fits \in BOOLEAN,
         NEW ran \in Enter!runSafely(Enter!Setup(m, parts, Enter!Unstyled, late, fits), Enter!Unstyled)
  PROVE  EnterFresh(ran.context, ran.style, m, parts)
<1> DEFINE own == Enter!Unstyled
           c == Enter!Setup(m, parts, own, late, fits)
<1>o. own \in [Enter!Parts -> Enter!Styles] /\ \A e \in Enter!Parts : own[e] = "own"
  BY DEF Enter!Unstyled, Enter!Styles
<1>1. /\ c \in Enter!Contexts /\ c.parts \subseteq parts /\ c.before = own
      /\ m = "static" => c.parts = {} /\ c.sections = {}
      /\ c.pinned => hook = "statement" /\ m = "pinnable"
      /\ hook = "fades" => c.sections = c.parts
      /\ hook # "fades" => c.sections = {}
      /\ hook = "intro" /\ played => c.parts = {}
  <2>1. CASE m = "static" \/ (hook = "intro" /\ ~Enter!IntroStarts(late))
    <3>1. c = Enter!NoContext
      BY <2>1 DEF Enter!Setup
    <3> HIDE DEF c
    <3>q. QED
      BY <1>o, <3>1 DEF Enter!NoContext, Enter!Contexts
  <2>2. CASE ~(m = "static" \/ (hook = "intro" /\ ~Enter!IntroStarts(late)))
    <3> DEFINE pins == hook = "statement" /\ m = "pinnable" /\ fits
               cleared == IF hook = "fades" THEN parts ELSE {}
    <3>1. c = [parts |-> parts, before |-> own, pinned |-> pins, sections |-> cleared]
      BY <2>2 DEF Enter!Setup
    <3>2. pins \in BOOLEAN /\ cleared \in SUBSET Enter!Parts
      OBVIOUS
    <3>3. hook = "intro" => ~played
      BY <2>2 DEF Enter!IntroStarts
    <3> HIDE DEF c, own
    <3>q. QED
      BY <1>o, <2>2, <3>1, <3>2, <3>3 DEF Enter!Contexts
  <2>q. QED
    BY <2>1, <2>2
<1> HIDE DEF c
<1>2. \A done \in SUBSET Enter!Parts : \A f \in Enter!Shown(c, done, own) :
        /\ f \in [Enter!Parts -> Enter!Styles]
        /\ \A e \in Enter!Parts : e \notin done => f[e] = "own"
        /\ hook # "intro" => \A e \in done : f[e] \in Enter!StylesAt(c, e, at[e])
        /\ hook = "intro" => \A e \in done : f[e] = "from"
  BY <1>o DEF Enter!Shown
<1> HIDE DEF own
<1>3. CASE ran \in [context : {c}, style : Enter!Shown(c, c.parts, own)]
  <2>1. ran.context = c /\ ran.style \in Enter!Shown(c, c.parts, own) /\ c.parts \in SUBSET Enter!Parts
    BY <1>1, <1>3
  <2>2. /\ ran.style \in [Enter!Parts -> Enter!Styles]
        /\ \A e \in Enter!Parts : e \notin c.parts => ran.style[e] = "own"
        /\ hook # "intro" => \A e \in c.parts : ran.style[e] \in Enter!StylesAt(c, e, at[e])
        /\ hook = "intro" => \A e \in c.parts : ran.style[e] = "from"
    BY <1>2, <2>1
  <2>3. \A e \in c.parts : c.before[e] = "own"
    BY <1>o, <1>1
  <2>q. QED
    BY <1>1, <2>1, <2>2, <2>3 DEF EnterFresh
<1>4. CASE ran \in [context : {[Enter!NoContext EXCEPT !.sections = c.sections]},
                    style : {Enter!Reverted(c, f) : f \in UNION {Enter!Shown(c, done, own) : done \in SUBSET c.parts}}]
  <2>1. /\ ran.context = [Enter!NoContext EXCEPT !.sections = c.sections]
        /\ ran.style \in {Enter!Reverted(c, f) : f \in UNION {Enter!Shown(c, done, own) : done \in SUBSET c.parts}}
    BY <1>4
  <2>2. PICK done \in SUBSET c.parts : \E f \in Enter!Shown(c, done, own) : ran.style = Enter!Reverted(c, f)
    BY <2>1
  <2>f. PICK f \in Enter!Shown(c, done, own) : ran.style = Enter!Reverted(c, f)
    BY <2>2
  <2>3. /\ f \in [Enter!Parts -> Enter!Styles] /\ \A e \in Enter!Parts : e \notin done => f[e] = "own"
        /\ done \subseteq c.parts /\ c.parts \subseteq parts
    BY <1>1, <1>2, <2>f
  <2>4. /\ ran.style \in [Enter!Parts -> Enter!Styles]
        /\ \A e \in Enter!Parts : ran.style[e] # "own" => e \in c.sections
    BY <1>o, <1>1, <2>f, <2>3 DEF Enter!Reverted
  <2>5. /\ ran.context.parts = {} /\ ran.context.sections = c.sections /\ ~ran.context.pinned
        /\ ran.context \in Enter!Contexts
    BY <1>o, <1>1, <2>1 DEF Enter!NoContext, Enter!Contexts, own
  <2>q. QED
    BY <1>1, <2>3, <2>4, <2>5 DEF EnterFresh
<1>q. QED
  BY <1>3, <1>4 DEF Enter!runSafely, c, own

LEMMA EnterInit == Init => EnterInv
<1> SUFFICES ASSUME Init, part = "entrance" PROVE Enter!TypeOK /\ EnterParts
  BY DEF EnterInv
<1>1. Enter!Init
  BY DEF Init
<1>2. /\ hook \in Enter!Hooks /\ media \in Enter!Medias /\ dom \in {{1}, Enter!Parts}
      /\ at \in [Enter!Parts -> Enter!Places] /\ refresh = FALSE /\ played = FALSE
  BY <1>1 DEF Enter!Init
<1>3. PICK late \in BOOLEAN, fits \in BOOLEAN :
        \E ran \in Enter!runSafely(Enter!Setup(media, dom, Enter!Unstyled, late, fits), Enter!Unstyled) :
          context = ran.context /\ style = ran.style
  BY <1>1 DEF Enter!Init
<1>4. PICK ran \in Enter!runSafely(Enter!Setup(media, dom, Enter!Unstyled, late, fits), Enter!Unstyled) :
        context = ran.context /\ style = ran.style
  BY <1>3
<1>5. dom \in SUBSET Enter!Parts
  BY <1>2 DEF Enter!Parts
<1>6. EnterFresh(ran.context, ran.style, media, dom)
  BY <1>2, <1>5, EnterRuns
<1>q. QED
  BY <1>2, <1>4, <1>5, <1>6 DEF EnterFresh, Enter!TypeOK, EnterParts

\* The cleanup gives every part on the page its own look back.
LEMMA EnterCleaned ==
  ASSUME Enter!TypeOK, EnterParts
  PROVE  \A e \in dom : Enter!Cleaned[e] = "own"
<1> SUFFICES ASSUME NEW e \in dom PROVE Enter!Cleaned[e] = "own"
  OBVIOUS
<1>1. e \in Enter!Parts /\ style \in [Enter!Parts -> Enter!Styles]
  BY DEF Enter!TypeOK, Enter!Parts
<1>2. Enter!Cleaned[e] = IF e \in context.sections THEN "own"
                         ELSE IF e \in context.parts /\ hook # "fades" THEN context.before[e] ELSE style[e]
  BY <1>1 DEF Enter!Cleaned, Enter!Reverted
<1>3. /\ style[e] # "own" => e \in context.parts \cup context.sections
      /\ hook = "fades" => context.parts \subseteq context.sections
      /\ e \in context.parts => context.before[e] = "own"
  BY DEF EnterParts
<1>q. QED
  BY <1>2, <1>3

\* The hook's context is cleaned up and set up again.
LEMMA EnterRerun ==
  ASSUME Enter!TypeOK, EnterParts, NEW m \in Enter!Medias, NEW parts \in SUBSET Enter!Parts, Enter!Rerun(m, parts)
  PROVE  EnterFresh(context', style', m, parts)
<1> DEFINE base == [e \in Enter!Parts |-> IF e \in dom \cap parts THEN Enter!Cleaned[e] ELSE "own"]
<1>1. PICK late \in BOOLEAN, fits \in BOOLEAN :
        \E ran \in Enter!runSafely(Enter!Setup(m, parts, base, late, fits), base) :
          context' = ran.context /\ style' = ran.style
  BY DEF Enter!Rerun, Enter!SetUp
<1>2. base = Enter!Unstyled
  BY EnterCleaned DEF Enter!Unstyled
<1> HIDE DEF base
<1>3. PICK ran \in Enter!runSafely(Enter!Setup(m, parts, Enter!Unstyled, late, fits), Enter!Unstyled) :
        context' = ran.context /\ style' = ran.style
  BY <1>1, <1>2
<1>4. hook \in Enter!Hooks /\ at \in [Enter!Parts -> Enter!Places]
  BY DEF Enter!TypeOK
<1>5. EnterFresh(ran.context, ran.style, m, parts)
  BY <1>3, <1>4, EnterRuns
<1>q. QED
  BY <1>3, <1>5

\* Once measured, or scrolled, every part the context animates is in its place.
LEMMA EnterFollow ==
  ASSUME Enter!TypeOK, EnterParts, NEW places \in [Enter!Parts -> Enter!Places], Enter!Follow(places)
  PROVE  /\ style' \in [Enter!Parts -> Enter!Styles]
         /\ \A e \in dom : style'[e] # "own" => e \in context.parts \cup context.sections
         /\ hook # "intro" => \A e \in context.parts : style'[e] \in Enter!StylesAt(context, e, places[e])
         /\ hook = "intro" => \A e \in context.parts : style'[e] = style[e]
<1>1. /\ style' \in [Enter!Parts -> Enter!Styles]
      /\ \A e \in Enter!Parts :
           IF e \in dom \cap context.parts /\ hook # "intro"
           THEN style'[e] \in Enter!StylesAt(context, e, places[e]) ELSE style'[e] = style[e]
  BY DEF Enter!Follow
<1>2. /\ context.parts \subseteq dom /\ dom \subseteq Enter!Parts
      /\ \A e \in dom : style[e] # "own" => e \in context.parts \cup context.sections
  BY DEF EnterParts, Enter!TypeOK, Enter!Parts
<1>q. QED
  BY <1>1, <1>2

LEMMA EnterNext == Enter!TypeOK /\ EnterParts /\ Enter!Next => (Enter!TypeOK /\ EnterParts)'
<1> SUFFICES ASSUME Enter!TypeOK, EnterParts, Enter!Next PROVE (Enter!TypeOK /\ EnterParts)'
  OBVIOUS
<1>0. /\ hook \in Enter!Hooks /\ media \in Enter!Medias /\ dom \in {{1}, Enter!Parts}
      /\ at \in [Enter!Parts -> Enter!Places] /\ style \in [Enter!Parts -> Enter!Styles]
      /\ context \in Enter!Contexts /\ refresh \in BOOLEAN /\ played \in BOOLEAN
  BY DEF Enter!TypeOK
<1>p. /\ context.parts \subseteq dom
      /\ media = "static" => context.parts = {} /\ context.sections = {}
      /\ context.pinned => hook = "statement" /\ media = "pinnable"
      /\ \A e \in context.parts : context.before[e] = "own"
      /\ hook = "fades" => context.parts \subseteq context.sections
      /\ hook # "fades" => context.sections = {}
      /\ \A e \in dom : style[e] # "own" => e \in context.parts \cup context.sections
      /\ hook = "intro" => \A e \in context.parts : style[e] # "own" /\ (played => style[e] = "to")
  BY DEF EnterParts
<1>d. {1} \subseteq Enter!Parts /\ dom \subseteq Enter!Parts
  BY <1>0 DEF Enter!Parts
<1> SUFFICES /\ hook' = hook /\ media' \in Enter!Medias /\ dom' \in {{1}, Enter!Parts}
             /\ at' \in [Enter!Parts -> Enter!Places] /\ style' \in [Enter!Parts -> Enter!Styles]
             /\ context' \in Enter!Contexts /\ refresh' \in BOOLEAN /\ played' \in BOOLEAN
             /\ context'.parts \subseteq dom'
             /\ media' = "static" => context'.parts = {} /\ context'.sections = {}
             /\ context'.pinned => hook = "statement" /\ media' = "pinnable"
             /\ \A e \in context'.parts : context'.before[e] = "own"
             /\ hook = "fades" => context'.parts \subseteq context'.sections
             /\ hook # "fades" => context'.sections = {}
             /\ \A e \in dom' : style'[e] # "own" => e \in context'.parts \cup context'.sections
             /\ hook # "intro" /\ ~refresh' =>
                  \A e \in context'.parts : style'[e] \in Enter!StylesAt(context', e, at'[e])
             /\ hook = "intro" => \A e \in context'.parts : style'[e] # "own" /\ (played' => style'[e] = "to")
  BY DEF Enter!TypeOK, EnterParts, Enter!StylesAt, Enter!Contexts
<1>1. CASE Enter!Switch
  <2>0. /\ media' \in Enter!Medias \ {media} /\ hook' = hook /\ dom' = dom /\ at' = at /\ played' = played
        /\ refresh' = TRUE
    BY <1>1 DEF Enter!Switch
  <2>1. CASE Enter!Matched(media') = Enter!Matched(media)
    <3>1. context' = context /\ style' = style
      BY <1>1, <2>1 DEF Enter!Switch
    <3>2. hook # "statement" /\ media # "static" /\ media' # "static"
      BY <2>0, <2>1 DEF Enter!Matched, Enter!Medias
    <3>3. ~context'.pinned
      BY <1>p, <3>1, <3>2
    <3>4. hook = "intro" => \A e \in context'.parts : style'[e] # "own" /\ (played' => style'[e] = "to")
      BY <1>p, <2>0, <3>1
    <3>q. QED
      BY <1>0, <1>p, <2>0, <3>1, <3>2, <3>3, <3>4
  <2>2. CASE Enter!Matched(media') # Enter!Matched(media)
    <3> DEFINE m == media'
    <3>1. Enter!Rerun(m, dom) /\ m \in Enter!Medias /\ m = media'
      BY <1>1, <2>0, <2>2 DEF Enter!Switch
    <3> HIDE DEF m
    <3>2. EnterFresh(context', style', m, dom)
      BY <1>d, <3>1, EnterRerun
    <3>3. hook = "intro" => \A e \in context'.parts : style'[e] # "own" /\ (played' => style'[e] = "to")
      BY <2>0, <3>2 DEF EnterFresh
    <3>4. \A e \in dom' : style'[e] # "own" => e \in context'.parts \cup context'.sections
      BY <1>d, <2>0, <3>2 DEF EnterFresh
    <3>q. QED
      BY <1>0, <2>0, <3>1, <3>2, <3>3, <3>4 DEF EnterFresh
  <2>q. QED
    BY <2>1, <2>2
<1>2. CASE Enter!Swap
  <2>0. dom' \in {{1}, Enter!Parts} /\ hook' = hook /\ media' = media /\ at' = at /\ played' = played /\ refresh' = TRUE
    BY <1>2 DEF Enter!Swap
  <2>d. dom' \subseteq Enter!Parts
    BY <1>d, <2>0
  <2>1. CASE hook \in {"intro", "progress"}
    <3>1. /\ context' = [context EXCEPT !.parts = @ \cap dom']
          /\ style' = [e \in Enter!Parts |-> IF e \in dom \cap dom' THEN style[e] ELSE "own"]
      BY <1>2, <2>1 DEF Enter!Swap
    <3>2. /\ context' \in Enter!Contexts /\ context'.parts = context.parts \cap dom'
          /\ context'.pinned = context.pinned /\ context'.before = context.before
          /\ context'.sections = context.sections
      BY <1>0, <3>1 DEF Enter!Contexts
    <3>3. style' \in [Enter!Parts -> Enter!Styles]
      BY <1>0, <3>1 DEF Enter!Styles
    <3>4. \A e \in Enter!Parts : style'[e] = IF e \in dom \cap dom' THEN style[e] ELSE "own"
      BY <3>1
    <3>5. hook # "fades"
      BY <2>1
    <3>6. \A e \in dom' : style'[e] # "own" => e \in context'.parts \cup context'.sections
      BY <1>p, <2>d, <3>2, <3>4
    <3>7. \A e \in context'.parts : context'.before[e] = "own" /\ style'[e] = style[e] /\ e \in context.parts
      BY <1>p, <1>d, <3>2, <3>4
    <3>q. QED
      BY <1>0, <1>p, <2>0, <3>2, <3>3, <3>5, <3>6, <3>7
  <2>2. CASE hook \notin {"intro", "progress"}
    <3> DEFINE parts == dom'
    <3>1. Enter!Rerun(media, parts) /\ parts \in SUBSET Enter!Parts /\ parts = dom'
      BY <1>2, <2>0, <2>d, <2>2 DEF Enter!Swap
    <3> HIDE DEF parts
    <3>2. EnterFresh(context', style', media, parts)
      BY <1>0, <3>1, EnterRerun
    <3>q. QED
      BY <1>0, <2>0, <2>d, <2>2, <3>1, <3>2 DEF EnterFresh
  <2>q. QED
    BY <2>1, <2>2
<1>3. CASE Enter!Scroll
  <2> DEFINE places == at'
  <2>1. /\ places \in [Enter!Parts -> Enter!Places] /\ places = at' /\ Enter!Follow(places)
        /\ UNCHANGED <<hook, media, dom, context, refresh, played>>
    BY <1>3 DEF Enter!Scroll
  <2> HIDE DEF places
  <2>2. /\ style' \in [Enter!Parts -> Enter!Styles]
        /\ \A e \in dom : style'[e] # "own" => e \in context.parts \cup context.sections
        /\ hook # "intro" => \A e \in context.parts : style'[e] \in Enter!StylesAt(context, e, places[e])
        /\ hook = "intro" => \A e \in context.parts : style'[e] = style[e]
    BY <2>1, EnterFollow
  <2>q. QED
    BY <1>0, <1>p, <2>1, <2>2
<1>4. CASE Enter!Layout
  BY <1>0, <1>4, <1>p DEF Enter!Layout
<1>5. CASE Enter!Refreshed
  <2>1. Enter!Follow(at) /\ UNCHANGED <<hook, media, dom, at, context, played>> /\ refresh' = FALSE
    BY <1>5 DEF Enter!Refreshed
  <2>2. /\ style' \in [Enter!Parts -> Enter!Styles]
        /\ \A e \in dom : style'[e] # "own" => e \in context.parts \cup context.sections
        /\ hook # "intro" => \A e \in context.parts : style'[e] \in Enter!StylesAt(context, e, at[e])
        /\ hook = "intro" => \A e \in context.parts : style'[e] = style[e]
    BY <1>0, <2>1, EnterFollow
  <2>q. QED
    BY <1>0, <1>p, <2>1, <2>2
<1>6. CASE Enter!IntroPlays \/ Enter!IntroEnds
  <2>1. PICK step \in {"moving", "to"} : Enter!IntroSteps(step) /\ played' = (played \/ step = "to")
    BY <1>0, <1>6 DEF Enter!IntroPlays, Enter!IntroEnds
  <2>2. /\ hook = "intro" /\ UNCHANGED <<hook, media, dom, at, context, refresh>>
        /\ \E e \in dom \cap context.parts : style[e] # "to"
        /\ style' = [e \in Enter!Parts |-> IF e \in dom \cap context.parts THEN step ELSE style[e]]
    BY <2>1 DEF Enter!IntroSteps
  <2>3. ~played
    BY <1>p, <2>2
  <2>4. style' \in [Enter!Parts -> Enter!Styles]
    BY <1>0, <2>2 DEF Enter!Styles
  <2>5. /\ \A e \in context.parts : style'[e] = step
        /\ \A e \in dom : e \notin context.parts => style'[e] = style[e]
    BY <1>p, <1>d, <2>2
  <2>q. QED
    BY <1>0, <1>p, <2>1, <2>2, <2>3, <2>4, <2>5
<1>q. QED
  BY <1>1, <1>2, <1>3, <1>4, <1>5, <1>6 DEF Enter!Next

\* What is shown, from how the context is set up.
LEMMA EnterSeen == Enter!TypeOK /\ EnterParts => Enter!NothingHidden
<1> SUFFICES ASSUME Enter!TypeOK, EnterParts PROVE Enter!NothingHidden
  OBVIOUS
<1>1. /\ context \in Enter!Contexts /\ dom \subseteq Enter!Parts
      /\ \A e \in dom : at[e] \in Enter!Places
      /\ media = "static" => context.parts = {} /\ context.sections = {}
      /\ context.pinned => media = "pinnable"
      /\ \A e \in context.parts : context.before[e] = "own"
      /\ hook # "fades" => context.sections = {}
      /\ \A e \in dom : style[e] # "own" => e \in context.parts \cup context.sections
      /\ hook # "intro" /\ ~refresh => \A e \in context.parts : style[e] \in Enter!StylesAt(context, e, at[e])
      /\ hook = "intro" => \A e \in context.parts : style[e] # "own" /\ (played => style[e] = "to")
  BY DEF Enter!TypeOK, EnterParts, Enter!Parts
<1>2. media = "static" => \A e \in dom : style[e] = "own"
  BY <1>1
<1>3. ASSUME hook \in Enter!FromHooks, ~refresh, NEW e \in dom, at[e] = "past" PROVE style[e] = "own"
  <2>1. hook # "fades" /\ hook # "intro"
    BY <1>3 DEF Enter!FromHooks
  <2>2. CASE e \in context.parts
    <3>1. style[e] \in Enter!StylesAt(context, e, at[e]) /\ e \in Enter!Parts /\ at[e] \in Enter!Places
      BY <1>1, <1>3, <2>1, <2>2
    <3>2. Enter!StylesAt(context, e, at[e]) = {context.before[e]}
      BY <1>1, <1>3, <3>1, EnterStyles
    <3>q. QED
      BY <1>1, <2>2, <3>1, <3>2
  <2>3. CASE e \notin context.parts
    BY <1>1, <1>3, <2>1, <2>3
  <2>q. QED
    BY <2>2, <2>3
<1>4. ASSUME hook = "fades", ~refresh, NEW e \in dom \cap context.parts, at[e] = "on" PROVE style[e] # "from"
  <2>1. style[e] \in Enter!StylesAt(context, e, at[e]) /\ e \in Enter!Parts /\ at[e] \in Enter!Places
    BY <1>1, <1>4
  <2>2. "from" \notin Enter!StylesAt(context, e, at[e])
    BY <1>1, <1>4, <2>1, EnterStyles
  <2>q. QED
    BY <2>1, <2>2
<1>5. hook = "intro" /\ played => \A e \in dom : style[e] \in {"own", "to"}
  BY <1>1
<1>q. QED
  BY <1>1, <1>2, <1>3, <1>4, <1>5 DEF Enter!NothingHidden

LEMMA EnterStep == EnterInv /\ [Next]_vars => EnterInv'
<1> SUFFICES ASSUME EnterInv, [Next]_vars PROVE EnterInv'
  OBVIOUS
<1>1. CASE part = "entrance" /\ Enter!Next
  BY <1>1, EnterNext DEF EnterInv
<1>2. CASE UNCHANGED <<part, entrance>>
  <2>1. /\ hook' = hook /\ media' = media /\ dom' = dom /\ at' = at /\ style' = style
        /\ context' = context /\ refresh' = refresh /\ played' = played /\ part' = part
    BY <1>2 DEF entrance
  <2>q. QED
    BY <2>1 DEF EnterInv, EnterParts, Enter!TypeOK, Enter!StylesAt
<1>3. CASE part # "entrance" /\ part' = part
  BY <1>3 DEF EnterInv
<1>q. QED
  BY <1>1, <1>2, <1>3 DEF Next, Draws, Enters, Reads, Modally, vars

\* No part of the page stays hidden, after whatever came, went or failed, but for
\* what the fades had written when their setup failed, until the next cleanup
\* (animations/use*.ts in gsap.matchMedia and runSafely).  It rests on every
\* revert giving back a part's own look, which holds only as long as every setup
\* began on one.
THEOREM NothingHiddenAlways == Spec => []NothingHidden
<1>1. EnterInv => NothingHidden
  BY EnterSeen DEF EnterInv, NothingHidden
<1>q. QED
  BY EnterInit, EnterStep, <1>1, PTL DEF Spec

-------------------------------------------------------------------------------
(* Where the reader is.                                                      *)

\* While a page is on its way, nothing but its goal is asked for.
Arriving ==
  ~home.on =>
    /\ place = Read!Top /\ wanted = home.goal /\ rebuild = "none"
    /\ home.goal.region = 0 => home.goal = Read!Top

\* A landing is to be corrected unless it is settled; until it is, its goal is
\* what is wanted.
Landing ==
  home.on =>
    /\ home.runs = 1 <=> home.goal.region # 0 /\ ~home.settled
    /\ home.runs = 1 => wanted = home.goal

\* The page is within its content, at its anchor when it is still, and during a
\* rebuild at its top, with the anchor where the reader is to be put back.
Kept ==
  home.on =>
    /\ rebuild = "none" => /\ place.region \in Read!Has(home.content)
                           /\ moving = "still" => anchor = place
                           /\ home.runs = 0 => place = wanted
    /\ rebuild # "none" =>
         /\ place = Read!Top
         /\ home.runs = 0 => wanted = IF anchor.region \in Read!Has(home.content) THEN anchor ELSE Read!Top

ReadParts == Arriving /\ Landing /\ Kept
ReadInv == part = "reading" => Read!TypeOK /\ ReadParts

Ons ==
  [on : {TRUE}, goal : Read!Places, content : Read!Contents, fetch : BOOLEAN, runs : {0, 1}, settled : BOOLEAN]
Offs == [on : {FALSE}, goal : Read!Places]

LEMMA ReadRegions ==
  /\ LastRegion \in Nat \ {0} /\ 0 \in Read!Regions /\ Read!Top \in Read!Places
  /\ Read!Top.region = 0 /\ Read!Top.deep = 0
  /\ \A content : Read!Has(content) \subseteq Read!Regions /\ 0 \in Read!Has(content)
  BY PublicPageAssumption DEF Read!Bounds, Read!Regions, Read!Places, Read!Top, Read!Has

LEMMA ReadInit == Init => ReadInv
<1> SUFFICES ASSUME Init, part = "reading" PROVE Read!TypeOK /\ ReadParts
  BY DEF ReadInv
<1>1. Read!Init
  BY DEF Init
<1>2. PICK region \in Read!Regions : home = Read!Blank([region |-> region, deep |-> 0])
  BY <1>1 DEF Read!Init
<1>3. /\ home \in Offs /\ ~home.on /\ home.goal = [region |-> region, deep |-> 0]
  BY <1>2 DEF Read!Blank, Offs, Read!Places
<1>4. home.goal \in Read!Places /\ (home.goal.region = 0 => home.goal = Read!Top)
  BY <1>3 DEF Read!Top, Read!Places
<1>q. QED
  BY <1>1, <1>3, <1>4, ReadRegions
     DEF Read!Init, Read!TypeOK, ReadParts, Arriving, Landing, Kept, Offs

\* What a reader's move does to their landing.
LEMMA ReadTakesOver ==
  ASSUME home \in Ons, home.runs = 1 <=> home.goal.region # 0 /\ ~home.settled
  PROVE  LET h == Read!readerTookOver(home)
         IN h \in Ons /\ h.runs = 0 /\ h.goal = home.goal /\ h.content = home.content
            /\ ~(h.goal.region # 0 /\ ~h.settled)
<1>1. CASE home.runs = 0
  <2>1. Read!readerTookOver(home) = home
    BY <1>1 DEF Read!readerTookOver
  <2>2. ~(home.goal.region # 0 /\ ~home.settled)
    BY <1>1
  <2>q. QED
    BY <1>1, <2>1, <2>2
<1>2. CASE home.runs # 0
  <2>1. home.runs = 1 /\ ~home.settled
    BY <1>2 DEF Ons
  <2>2. Read!readerTookOver(home) = [home EXCEPT !.settled = TRUE, !.runs = 0]
    BY <2>1 DEF Read!readerTookOver, Ons
  <2>q. QED
    BY <2>2 DEF Ons
<1>q. QED
  BY <1>1, <1>2

LEMMA ReadNext == Read!TypeOK /\ ReadParts /\ Read!Next => (Read!TypeOK /\ ReadParts)'
<1> SUFFICES ASSUME Read!TypeOK, ReadParts, Read!Next PROVE (Read!TypeOK /\ ReadParts)'
  OBVIOUS
<1>0. /\ home \in Ons \cup Offs /\ fonts \in BOOLEAN /\ lenis \in BOOLEAN
      /\ place \in Read!Places /\ wanted \in Read!Places /\ anchor \in Read!Places
      /\ moving \in {"still", "set", "scroll"} /\ active \in Read!Regions
      /\ rebuild \in {"none", "reverted", "refreshed"}
  BY DEF Read!TypeOK, Ons, Offs
<1>r. \A h : (h \in Ons => h.on /\ h.goal \in Read!Places /\ h.content \in Read!Contents /\ h.runs \in {0, 1})
             /\ (h \in Offs => ~h.on /\ h.goal \in Read!Places)
  BY DEF Ons, Offs
<1>p. Arriving /\ Landing /\ Kept
  BY DEF ReadParts
<1>s. SUFFICES /\ home' \in Ons \cup Offs /\ fonts' \in BOOLEAN /\ lenis' \in BOOLEAN
               /\ place' \in Read!Places /\ wanted' \in Read!Places /\ anchor' \in Read!Places
               /\ moving' \in {"still", "set", "scroll"} /\ active' \in Read!Regions
               /\ rebuild' \in {"none", "reverted", "refreshed"}
               /\ Arriving' /\ Landing' /\ Kept'
  BY DEF Read!TypeOK, ReadParts, Ons, Offs
<1>1. CASE rebuild = "none" /\ Read!HomePage
  <2>1. PICK archive \in BOOLEAN : home' = Read!Mounted(home.goal, [from |-> "static", archive |-> archive])
    BY <1>1 DEF Read!HomePage
  <2>2. home \in Offs /\ home.goal \in Read!Places /\ ~home.on
    BY <1>0, <1>1, <1>r DEF Read!HomePage
  <2>3. /\ home' \in Ons /\ home'.on /\ home'.goal = home.goal /\ ~home'.settled
        /\ home'.runs = IF home.goal.region = 0 THEN 0 ELSE 1
    BY <2>1, <2>2 DEF Read!Mounted, Ons, Read!Contents
  <2>4. /\ anchor' = Read!Top /\ active' = 0 /\ UNCHANGED <<fonts, lenis, rebuild, wanted>>
        /\ \/ home.goal.region \in Read!Has(home'.content) \ {0} /\ place' = home.goal /\ moving' = "set"
           \/ home.goal.region \notin Read!Has(home'.content) \ {0} /\ place' = place /\ moving' = moving
    BY <1>1 DEF Read!HomePage, Read!Jump
  <2>5. /\ place = Read!Top /\ wanted = home.goal /\ rebuild = "none"
        /\ home.goal.region = 0 => home.goal = Read!Top
    BY <1>p, <2>2 DEF Arriving
  <2>q. QED
    BY <1>0, <2>2, <2>3, <2>4, <2>5, ReadRegions DEF Arriving, Landing, Kept
<1>2. CASE rebuild = "none" /\ (Read!switchLanguage \/ Read!Navigate)
  <2>1. PICK goal \in Read!Places :
          /\ Read!Leave(goal) /\ (goal.region = 0 => goal = Read!Top)
          /\ wanted' = goal
    <3>1. CASE Read!switchLanguage
      <4> DEFINE goal == IF active = 0 THEN Read!Top
                         ELSE [region |-> active, deep |-> IF place.region = active THEN place.deep
                                                           ELSE IF place.region > active THEN 1 ELSE 0]
      <4>1. goal \in Read!Places /\ (goal.region = 0 => goal = Read!Top)
        BY <1>0, ReadRegions DEF Read!Places
      <4>2. Read!Leave(goal)
        BY <3>1 DEF Read!switchLanguage
      <4>3. home'.goal = goal
        <5> HIDE DEF goal
        <5>q. QED
          BY <4>2 DEF Read!Leave, Read!Blank
      <4>4. active = place.region /\ active # 0 => goal = place
        BY <1>0 DEF Read!Places
      <4>5. wanted' = goal
        <5> HIDE DEF goal
        <5>q. QED
          BY <3>1, <4>3, <4>4 DEF Read!switchLanguage
      <4> HIDE DEF goal
      <4>q. QED
        BY <4>1, <4>2, <4>5
    <3>2. CASE Read!Navigate
      <4>1. PICK region \in Read!Regions :
              Read!Leave([region |-> region, deep |-> 0]) /\ wanted' = home'.goal
        BY <3>2 DEF Read!Navigate
      <4> DEFINE goal == [region |-> region, deep |-> 0]
      <4>2. goal \in Read!Places /\ (goal.region = 0 => goal = Read!Top)
        BY DEF Read!Places, Read!Top
      <4>3. Read!Leave(goal) /\ wanted' = home'.goal
        BY <4>1
      <4> HIDE DEF goal
      <4>4. home'.goal = goal
        BY <4>3 DEF Read!Leave, Read!Blank
      <4>q. QED
        BY <4>2, <4>3, <4>4
    <3>q. QED
      BY <1>2, <3>1, <3>2
  <2>2. /\ home' = Read!Blank(goal) /\ place' = Read!Top /\ moving' = "set" /\ active' = 0
        /\ UNCHANGED <<fonts, lenis, anchor, rebuild>> /\ home.on
    BY <2>1 DEF Read!Leave, Read!Jump
  <2>3. home' \in Offs /\ ~home'.on /\ home'.goal = goal
    BY <2>1, <2>2 DEF Read!Blank, Offs
  <2>q. QED
    BY <1>0, <1>2, <2>1, <2>2, <2>3, ReadRegions DEF Arriving, Landing, Kept
<1>3. CASE rebuild = "none" /\ (Read!Scroll \/ Read!scrollToSection \/ Read!scrollToTop)
  <2>0. home \in Ons /\ home.on
    BY <1>0, <1>3, <1>r DEF Read!Scroll, Read!scrollToSection, Read!scrollToTop
  <2>1. PICK p \in Read!Places : p.region \in Read!Has(home.content) /\ Read!Moves(p)
    <3>1. CASE Read!Scroll
      BY <3>1 DEF Read!Scroll, Read!Within
    <3>2. CASE Read!scrollToSection
      <4>1. PICK id \in Read!Has(home.content) \ {0} : Read!Moves([region |-> id, deep |-> 0])
        BY <3>2 DEF Read!scrollToSection
      <4> DEFINE p == [region |-> id, deep |-> 0]
      <4>2. p \in Read!Places /\ p.region \in Read!Has(home.content)
        BY <4>1, ReadRegions DEF Read!Places
      <4>q. QED
        BY <4>1, <4>2
    <3>3. CASE Read!scrollToTop
      BY <3>3, ReadRegions DEF Read!scrollToTop
    <3>q. QED
      BY <1>3, <3>1, <3>2, <3>3
  <2>2. /\ place' = p /\ moving' = "scroll" /\ wanted' = p /\ home' = Read!readerTookOver(home)
        /\ UNCHANGED <<fonts, lenis, active, anchor, rebuild>>
    BY <2>1 DEF Read!Moves
  <2>3. /\ home' \in Ons /\ home'.on /\ home'.runs = 0 /\ home'.goal = home.goal /\ home'.content = home.content
        /\ ~(home'.goal.region # 0 /\ ~home'.settled)
    BY <1>p, <1>r, <2>0, <2>2, ReadTakesOver DEF Landing
  <2>q. QED
    BY <1>0, <1>3, <2>1, <2>2, <2>3 DEF Arriving, Landing, Kept
<1>4. CASE rebuild = "none" /\ (Read!onScrollEnd \/ Read!useActiveSection)
  BY <1>0, <1>4, <1>p DEF Read!onScrollEnd, Read!useActiveSection, Read!readAnchor, Arriving, Landing, Kept,
                          Read!Places
<1>5. CASE rebuild = "none" /\ Read!FontsReady
  <2>0. home \in Ons /\ home.on
    BY <1>0, <1>5, <1>r DEF Read!FontsReady
  <2>1. /\ fonts' = TRUE /\ place' \in Read!Places /\ place'.region \in Read!Has(home.content)
        /\ wanted' = IF home.runs > 0 THEN wanted ELSE place'
        /\ anchor' = IF moving = "still" THEN place' ELSE anchor
        /\ UNCHANGED <<home, lenis, moving, active, rebuild>>
    BY <1>5, <2>0 DEF Read!FontsReady, Read!Within, Read!Due
  <2>2. home.runs \in {0, 1}
    BY <1>r, <2>0
  <2>q. QED
    BY <1>0, <1>5, <1>p, <2>0, <2>1, <2>2 DEF Arriving, Landing, Kept
<1>6. CASE rebuild = "none" /\ Read!Correct
  <2>a. home.on /\ home.runs > 0 /\ home' = [home EXCEPT !.runs = @ - 1, !.settled = TRUE]
    BY <1>6 DEF Read!Correct, Read!Due
  <2>b. home \in Ons
    BY <1>0, <1>r, <2>a
  <2>0. home \in Ons /\ home.on /\ home.runs = 1
    <3>1. home.on /\ home.runs \in {0, 1} /\ home.runs > 0
      BY <1>r, <2>a, <2>b
    <3>2. home.runs = 1
      BY <3>1
    <3>q. QED
      BY <2>b, <3>1, <3>2
  <2>1. home' = [home EXCEPT !.runs = 0, !.settled = TRUE]
    BY <2>a, <2>0
  <2>2. home' \in Ons /\ home'.on /\ home'.runs = 0 /\ home'.settled /\ home'.goal = home.goal
        /\ home'.content = home.content
    BY <2>0, <2>1 DEF Ons
  <2>3. /\ anchor' = place /\ UNCHANGED <<fonts, lenis, active, rebuild>>
        /\ \/ /\ home.goal.region \in Read!Has(home.content)
              /\ place' = home.goal /\ moving' = "set" /\ wanted' = wanted
           \/ wanted' = place /\ place' = place /\ moving' = moving
    BY <1>6 DEF Read!Correct, Read!readAnchor, Read!Jump
  <2>4. wanted = home.goal /\ home.goal \in Read!Places /\ place.region \in Read!Has(home.content)
    BY <1>6, <1>p, <1>r, <2>0 DEF Landing, Kept
  <2>q. QED
    BY <1>0, <1>6, <2>2, <2>3, <2>4 DEF Arriving, Landing, Kept
<1>7. CASE rebuild = "none" /\ Read!SmoothScrollProvider
  <2>0. home \in Ons /\ home.on
    BY <1>0, <1>7, <1>r DEF Read!SmoothScrollProvider
  <2> DEFINE again == IF home.goal.region = 0 \/ home.settled THEN 0 ELSE 1
  <2>1. again \in {0, 1} /\ again = home.runs
    BY <1>p, <1>r, <2>0 DEF Landing, Ons
  <2>2. home' = [home EXCEPT !.runs = again]
    BY <1>7 DEF Read!SmoothScrollProvider, Read!Rerun
  <2> HIDE DEF again
  <2>3. home' = home
    BY <2>0, <2>1, <2>2 DEF Ons
  <2>4. lenis' \in BOOLEAN /\ anchor' = place /\ UNCHANGED <<fonts, place, moving, active, rebuild, wanted>>
    BY <1>7 DEF Read!SmoothScrollProvider, Read!readAnchor
  <2>q. QED
    BY <1>0, <1>7, <1>p, <2>0, <2>3, <2>4 DEF Arriving, Landing, Kept
<1>8. CASE rebuild = "none" /\ Read!useContent
  <2>0. home \in Ons /\ home.on
    BY <1>0, <1>8, <1>r DEF Read!useContent
  <2>1. PICK content \in {home.content} \cup {c \in Read!Contents : c.from = "api"} :
          /\ home' = [home EXCEPT !.fetch = FALSE, !.content = content]
          /\ IF content = home.content THEN UNCHANGED <<place, moving, wanted>> ELSE Read!Swap(content)
    BY <1>8 DEF Read!useContent
  <2>2. content \in Read!Contents
    BY <1>r, <2>0, <2>1
  <2>3. /\ home' \in Ons /\ home'.on /\ home'.content = content /\ home'.goal = home.goal
        /\ home'.runs = home.runs /\ home'.settled = home.settled
    BY <2>0, <2>1, <2>2 DEF Ons
  <2>4. UNCHANGED <<fonts, lenis, active, anchor, rebuild>>
    BY <1>8 DEF Read!useContent
  <2>5. home.runs \in {0, 1}
    BY <1>r, <2>0
  <2>6. CASE content = home.content
    BY <1>0, <1>8, <1>p, <2>0, <2>1, <2>3, <2>4, <2>6 DEF Arriving, Landing, Kept
  <2>7. CASE content # home.content
    <3>1. \/ /\ place' \in Read!Places /\ place'.region \in Read!Has(content)
             /\ moving' \in {"set", "scroll"} /\ wanted' = IF home.runs > 0 THEN wanted ELSE place'
          \/ place' = place /\ place.region \in Read!Has(content) /\ moving' = "set" /\ wanted' = wanted
      BY <1>0, <2>0, <2>1, <2>7
         DEF Read!Swap, Read!Clamped, Read!Within, Read!Due, Read!restoreAnchor, Read!readAnchor, Read!Jump
    <3>q. QED
      BY <1>0, <1>8, <1>p, <2>0, <2>3, <2>4, <2>5, <3>1 DEF Arriving, Landing, Kept
  <2>q. QED
    BY <2>6, <2>7
<1>9. CASE rebuild = "none" /\ Read!onRevert
  <2>0. home \in Ons /\ home.on
    BY <1>0, <1>9, <1>r DEF Read!onRevert
  <2>1. /\ rebuild' = "reverted" /\ place' = Read!Top
        /\ wanted' = IF moving = "still" \/ home.runs > 0 THEN wanted
                     ELSE IF anchor.region \in Read!Has(home.content) THEN anchor ELSE Read!Top
        /\ UNCHANGED <<home, fonts, lenis, moving, active, anchor>>
    BY <1>9, <2>0 DEF Read!onRevert, Read!Due
  <2>2. home.runs \in {0, 1}
    BY <1>r, <2>0
  <2>q. QED
    BY <1>0, <1>9, <1>p, <2>0, <2>1, <2>2, ReadRegions DEF Arriving, Landing, Kept
<1>12. CASE rebuild = "none" /\ Read!TakesOver
  <2>0. home \in Ons /\ home.on
    BY <1>0, <1>12, <1>r DEF Read!TakesOver
  <2>1. /\ home' = Read!readerTookOver(home) /\ wanted' = IF home.runs > 0 THEN place ELSE wanted
        /\ UNCHANGED <<fonts, lenis, place, moving, active, anchor, rebuild>>
    BY <1>12, <2>0 DEF Read!TakesOver, Read!Due
  <2>2. /\ home' \in Ons /\ home'.on /\ home'.runs = 0 /\ home'.goal = home.goal /\ home'.content = home.content
        /\ ~(home'.goal.region # 0 /\ ~home'.settled)
    BY <1>p, <1>r, <2>0, <2>1, ReadTakesOver DEF Landing
  <2>3. home.runs \in {0, 1}
    BY <1>r, <2>0
  <2>q. QED
    BY <1>0, <1>12, <1>p, <2>0, <2>1, <2>2, <2>3 DEF Arriving, Landing, Kept
<1>10. CASE Read!onRefresh
  <2>1. rebuild = "reverted" /\ rebuild' = "refreshed" /\ UNCHANGED <<home, fonts, lenis, place, moving, active, wanted, anchor>>
    BY <1>10 DEF Read!onRefresh, Read!rebuilding
  <2>q. QED
    BY <1>0, <1>p, <2>1 DEF Arriving, Landing, Kept
<1>11. CASE Read!onRebuilt
  <2>1. /\ rebuild = "refreshed" /\ rebuild' = "none" /\ anchor' = place'
        /\ UNCHANGED <<home, fonts, lenis, active, wanted>>
        /\ \/ anchor.region \in Read!Has(home.content) /\ place' = anchor /\ moving' = "set"
           \/ anchor.region \notin Read!Has(home.content) /\ place' = place /\ moving' = moving
    BY <1>11 DEF Read!onRebuilt, Read!restoreAnchor, Read!Jump
  <2>2. home.on
    BY <1>p, <2>1 DEF Arriving
  <2>q. QED
    BY <1>0, <1>p, <2>1, <2>2, ReadRegions DEF Arriving, Landing, Kept
<1>q. QED
  BY <1>0, <1>1, <1>2, <1>3, <1>4, <1>5, <1>6, <1>7, <1>8, <1>9, <1>10, <1>11, <1>12
     DEF Read!Next, Read!rebuilding

LEMMA ReadStep == ReadInv /\ [Next]_vars => ReadInv'
<1> SUFFICES ASSUME ReadInv, [Next]_vars PROVE ReadInv'
  OBVIOUS
<1>1. CASE part = "reading" /\ Read!Next
  BY <1>1, ReadNext DEF ReadInv
<1>2. CASE UNCHANGED <<part, reading>>
  BY <1>2 DEF reading, ReadInv, ReadParts, Arriving, Landing, Kept, Read!TypeOK
<1>3. CASE part # "reading" /\ part' = part
  BY <1>3 DEF ReadInv
<1>q. QED
  BY <1>1, <1>2, <1>3 DEF Next, Draws, Enters, Reads, Modally, vars

\* Once a page is up, its landing corrected or taken over, it is where the reader
\* last asked to be, whatever the site does by itself (useHashScroll,
\* useScrollAnchor, useContent, LanguageSwitcher).
THEOREM PlaceKeptAlways == Spec => []PlaceKept
<1>1. ReadInv => PlaceKept
  <2> SUFFICES ASSUME ReadInv, part = "reading", home.on, ~Read!Due, ~Read!rebuilding PROVE place = wanted
    BY DEF PlaceKept, Read!PlaceKept
  <2>1. home \in Ons
    BY DEF ReadInv, Read!TypeOK, Ons
  <2>2. home.runs = 0
    BY <2>1 DEF Read!Due, Ons
  <2>q. QED
    BY <2>2 DEF ReadInv, ReadParts, Kept, Read!rebuilding
<1>q. QED
  BY ReadInit, ReadStep, <1>1, PTL DEF Spec

-------------------------------------------------------------------------------
(* Types.                                                                    *)

\* Every part's state has its type, those of the pictures included.
THEOREM TypeOKAlways == Spec => []TypeOK
<1>1. Init => part \in Parts
  BY DEF Init
<1>2. part \in Parts /\ [Next]_vars => (part \in Parts)'
  BY DEF Next, Draws, Enters, Reads, Modally, vars
<1>3. HeroInv => Hero!TypeOK
  BY DEF HeroInv, HeroFine, HeroMoves, Heroes, Hero!TypeOK
<1>4. ClosingInv => Closing!TypeOK
  <2> SUFFICES ASSUME ClosingInv PROVE Closing!TypeOK
    OBVIOUS
  <2>1. /\ scene.kind = "ink" => InkFine(page, scene)
        /\ scene.kind = "night" => NightFine(page, scene)
        /\ scene.kind \notin {"ink", "night"} => scene = Closing!Nothing
    BY ClosingKinds DEF ClosingInv
  <2>2. scene.kind = "night" => Closing!NightOK
    BY <2>1 DEF NightFine, Nights, Closing!NightOK
  <2>q. QED
    BY <2>1, <2>2 DEF ClosingInv, InkFine, Closing!TypeOK
<1>5. BackInv => Back!TypeOK
  BY BackKinds DEF BackInv, SceneryFine, SkyFine, GroveFine, Skies, Groves,
                   Back!TypeOK, Back!SkyOK, Back!GroveOK
<1>6. GlassInv => Pane!TypeOK
  BY DEF GlassInv
<1>7. part \in Parts /\ PictureInv /\ EnterInv /\ ReadInv /\ DialogInv => TypeOK
  BY <1>3, <1>4, <1>5, <1>6 DEF PictureInv, EnterInv, ReadInv, DialogInv, TypeOK
<1>q. QED
  BY PictureInit, PictureStep, EnterInit, EnterStep, ReadInit, ReadStep, DialogInit, DialogStep,
     <1>1, <1>2, <1>7, PTL DEF Spec
===============================================================================
