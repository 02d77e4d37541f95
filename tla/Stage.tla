-------------------------------- MODULE Stage --------------------------------
(***************************************************************************)
(* What the page's animated canvases share (src/animations/use*.ts): the   *)
(* visitor's preferences and tab, which rebuild a scene or pause it, and   *)
(* gsap's ticker, to which a running scene has added its frame callback.   *)
(* A scene is one mounted effect: a theme or motion change cleans it up    *)
(* and sets the next one up.                                               *)
(***************************************************************************)
EXTENDS Integers

VARIABLES
  page,          (* What the scenes ask of the page.                         *)
  scene,         (* The effect mounted now.                                  *)
  ticker         (* Frame callbacks on gsap's ticker.                        *)

stage == <<page, scene, ticker>>

Themes == {"light", "dark"}
Pages == [motion : BOOLEAN, hidden : BOOLEAN, theme : Themes]

Ticks(s) == IF s.running THEN 1 ELSE 0

\* What the effect does to itself; and what follows it after its cleanup.
Become(s) == scene' = s /\ ticker' = ticker + Ticks(s) - Ticks(scene)
Rebuild(cleaned, s) == scene' = s /\ ticker' = ticker + Ticks(cleaned) - Ticks(scene) + Ticks(s)

\* The changes for which React runs an effect again: motion, and the theme.
Rerun(p) == p \in {[page EXCEPT !.motion = ~@], [page EXCEPT !.theme = IF @ = "dark" THEN "light" ELSE "dark"]}
Toggled == [page EXCEPT !.hidden = ~@]

CanRun(p, s) == p.motion /\ s.visible /\ ~p.hidden
start(p, s) == [s EXCEPT !.running = @ \/ CanRun(p, s)]
stop(s) == [s EXCEPT !.running = FALSE]

\* An IntersectionObserver entry, and the tab shown or hidden.
Observed(s) == LET t == [s EXCEPT !.visible = ~@] IN IF t.visible THEN start(page, t) ELSE stop(t)
onVisibility(p, s) == IF p.hidden THEN stop(s) ELSE start(p, s)

Watched ==
  \/ Become(Observed(scene)) /\ UNCHANGED page
  \/ page' = Toggled /\ Become(onVisibility(Toggled, scene))

OneLoop == ticker = Ticks(scene)
=============================================================================
