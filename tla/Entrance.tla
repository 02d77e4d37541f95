------------------------------- MODULE Entrance -------------------------------
(***************************************************************************)
(* The GSAP hooks that hide, move and reveal parts of the home page as it  *)
(* loads and scrolls (src/animations/use{HeroIntro,SectionReveal,          *)
(* StatementReveal,Parallax,SectionFades,ScrollProgress}.ts), each inside  *)
(* gsap.matchMedia and runSafely (gsap.ts).  They are alike and touch      *)
(* different elements, so a behaviour follows one of them.                 *)
(*                                                                         *)
(* Part 1 of the hook's section is always there; part 2 comes and goes     *)
(* with the API's content.  A style is "own" (what CSS gives it), or       *)
(* "from", "moving" or "to" along the hook's animation.  GSAP writes its   *)
(* tweens' styles and gives them back on a revert, each as it found it;    *)
(* the fades' opacity is written by the hook itself, and GSAP knows        *)
(* nothing of it.  The time a scrubbed style takes to catch up with the    *)
(* scroll is left out.                                                     *)
(***************************************************************************)
EXTENDS Naturals

VARIABLES
  hook,          (* The hook followed.                                       *)
  media,         (* What gsap.matchMedia matches, or static without motion.  *)
  dom,           (* The parts that are on the page.                          *)
  at,            (* at[e]: where e is: below the screen, on it, or past it.  *)
  style,         (* style[e]: the inline style of e.                         *)
  context,       (* The live GSAP context.                                   *)
  refresh,       (* A ScrollTrigger refresh is scheduled.                    *)
  played         (* heroIntroPlayed.                                         *)

vars == <<hook, media, dom, at, style, context, refresh, played>>

Hooks == {"intro", "reveal", "statement", "parallax", "fades", "progress"}
Medias == {"static", "mobile", "desktop", "pinnable"}
Parts == {1, 2}
Places == {"below", "on", "past"}
Styles == {"own", "from", "moving", "to"}

\* A context: the parts it animates and the look each had when it was set up,
\* whether it pins the copy, and the sections that the fades' cleanup clears.
Unstyled == [e \in Parts |-> "own"]
NoContext == [parts |-> {}, before |-> Unstyled, pinned |-> FALSE, sections |-> {}]
Contexts ==
  [parts : SUBSET Parts, before : [Parts -> Styles], pinned : BOOLEAN, sections : SUBSET Parts]

\* The tweens that end at the look their element has, whichever that is: from().
FromHooks == {"reveal", "statement"}

\* apply: a section is faded out below and past the screen, in on it, and one
\* that is not laid out is left alone.
Faded(place) == {"own"} \cup (IF place = "on" THEN {"moving", "to"} ELSE {"from"})

\* What the scroll makes of part e of context c at a place.
StylesAt(c, e, place) ==
  CASE hook = "fades" -> Faded(place)
    [] hook # "fades" /\ place = "below" -> {"from"}
    [] hook # "fades" /\ place = "on" -> {"moving"}
    [] hook # "fades" /\ place = "past" -> IF hook \in FromHooks THEN {c.before[e]} ELSE {"to"}

-------------------------------------------------------------------------------
(* What each hook sets up where motion is allowed.                           *)

\* The intro: once, and not on a page that is entered by a hash or scrolled.
IntroStarts(late) == ~played /\ ~late

\* The context of a setup on parts that look as in base: only the statement
\* pins, on a pinnable screen that its copy fits.
Setup(m, parts, base, late, fits) ==
  IF m = "static" \/ (hook = "intro" /\ ~IntroStarts(late)) THEN NoContext
  ELSE [parts |-> parts, before |-> base,
        pinned |-> hook = "statement" /\ m = "pinnable" /\ fits,
        sections |-> IF hook = "fades" THEN parts ELSE {}]

\* The looks once the setup of c has come to the parts in done: the intro's
\* wait in their from-state, the others are where the scroll puts them.
Shown(c, done, base) ==
  {f \in [Parts -> Styles] :
     \A e \in Parts :
       f[e] \in IF e \notin done THEN {base[e]} ELSE IF hook = "intro" THEN {"from"} ELSE StylesAt(c, e, at[e])}

\* ctx.revert() gives each of its tweens' elements its look back; an opacity
\* the fades wrote themselves stays.
Reverted(c, looks) == [e \in Parts |-> IF e \in c.parts /\ hook # "fades" THEN c.before[e] ELSE looks[e]]

\* runSafely: a setup that throws is reverted, however far it had come; the
\* sections were read before it and are cleared with the next cleanup.
runSafely(c, base) ==
  [context : {c}, style : Shown(c, c.parts, base)]
    \cup [context : {[NoContext EXCEPT !.sections = c.sections]},
          style : {Reverted(c, f) : f \in UNION {Shown(c, done, base) : done \in SUBSET c.parts}}]

\* What matchMedia's cleanup leaves: local.revert() and the fades' own clearing.
Cleaned == [e \in Parts |-> IF e \in context.sections THEN "own" ELSE Reverted(context, style)[e]]

\* A setup on what is on the page now; a part that is new has its own look.
SetUp(m, parts, looks) ==
  LET base == [e \in Parts |-> IF e \in dom \cap parts THEN looks[e] ELSE "own"]
  IN \E late, fits \in BOOLEAN :
       \E ran \in runSafely(Setup(m, parts, base, late, fits), base) :
         context' = ran.context /\ style' = ran.style

\* Mutant: what the context before had written is not given back.
RerunOver(m, parts) == SetUp(m, parts, style)

\* revertOnUpdate, and matchMedia: the old context is cleaned up, then the hook
\* runs again.
Rerun(m, parts) == SetUp(m, parts, Cleaned)

Init ==
  /\ hook \in Hooks /\ media \in Medias
  /\ dom \in {{1}, Parts}
  /\ at \in [Parts -> Places]
  /\ refresh = FALSE /\ played = FALSE
  /\ \E late, fits \in BOOLEAN :
       \E ran \in runSafely(Setup(media, dom, Unstyled, late, fits), Unstyled) :
         context = ran.context /\ style = ran.style

-------------------------------------------------------------------------------

\* A breakpoint or the motion preference: matchMedia reverts and runs again,
\* and useScrollTriggerRefresh schedules a refresh.
Matched(m) == IF m = "pinnable" /\ hook # "statement" THEN "desktop" ELSE m
Switch ==
  /\ media' \in Medias \ {media}
  /\ UNCHANGED <<hook, dom, at, played>>
  /\ IF Matched(media') = Matched(media) THEN UNCHANGED <<context, style>> ELSE Rerun(media', dom)
  /\ refresh' = TRUE

\* The hooks that name the content as a dependency run again with it; the
\* intro and the progress bar do not.  A part that is new has its own style.
Swap ==
  /\ dom' \in {{1}, Parts}
  /\ UNCHANGED <<hook, media, at, played>>
  /\ IF hook \in {"intro", "progress"}
     THEN /\ context' = [context EXCEPT !.parts = @ \cap dom']
          /\ style' = [e \in Parts |-> IF e \in dom \cap dom' THEN style[e] ELSE "own"]
     ELSE Rerun(media, dom')
  /\ refresh' = TRUE

\* A scroll-linked style follows the place of its part.
Follow(places) ==
  style' \in {f \in [Parts -> Styles] :
    \A e \in Parts : IF e \in dom \cap context.parts /\ hook # "intro"
                     THEN f[e] \in StylesAt(context, e, places[e]) ELSE f[e] = style[e]}

\* The reader scrolls.
Scroll ==
  /\ at' \in [Parts -> Places] /\ Follow(at')
  /\ UNCHANGED <<hook, media, dom, context, refresh, played>>

\* Fonts, a theme or a language move things: measured again, not in mid-scroll.
Layout ==
  /\ at' \in [Parts -> Places]
  /\ refresh' = TRUE
  /\ UNCHANGED <<hook, media, dom, style, context, played>>

Refreshed ==
  /\ refresh /\ refresh' = FALSE
  /\ Follow(at)
  /\ UNCHANGED <<hook, media, dom, at, context, played>>

\* The intro's timeline plays, and is over.
IntroSteps(step) ==
  /\ hook = "intro" /\ \E e \in dom \cap context.parts : style[e] # "to"
  /\ style' = [e \in Parts |-> IF e \in dom \cap context.parts THEN step ELSE style[e]]
  /\ UNCHANGED <<hook, media, dom, at, context, refresh>>
IntroPlays == IntroSteps("moving") /\ UNCHANGED played
IntroEnds == IntroSteps("to") /\ played' = TRUE

Next == Switch \/ Swap \/ Scroll \/ Layout \/ Refreshed \/ IntroPlays \/ IntroEnds

\* gsap's ticker plays the intro to its end; a scheduled refresh is carried out.
Spec == Init /\ [][Next]_vars /\ WF_vars(IntroEnds) /\ WF_vars(Refreshed)

-------------------------------------------------------------------------------

TypeOK ==
  /\ hook \in Hooks /\ media \in Medias /\ dom \in {{1}, Parts}
  /\ at \in [Parts -> Places] /\ style \in [Parts -> Styles]
  /\ context \in Contexts
  /\ refresh \in BOOLEAN /\ played \in BOOLEAN

\* No part of the page is left hidden.  Without motion each has its own look,
\* whatever had been set up or failed before.  A look that is not its own is
\* animated by the live context, or is a section's fade that the next cleanup
\* clears.  The statement and a section's items, once measured, have their own
\* look when the reader has passed them: a setup over the remains of another
\* would take a from-state for it.  A section that fades is not faded out while
\* it is on the screen.  The intro does not start over once it has played.
\* The copy is pinned only where a pin is smooth.
NothingHidden ==
  /\ media = "static" => \A e \in dom : style[e] = "own"
  /\ \A e \in dom : style[e] # "own" => e \in context.parts \cup context.sections
  /\ hook \in FromHooks /\ ~refresh => \A e \in dom : at[e] = "past" => style[e] = "own"
  /\ hook = "fades" /\ ~refresh => \A e \in dom \cap context.parts : at[e] = "on" => style[e] # "from"
  /\ hook = "intro" /\ played => \A e \in dom : style[e] \in {"own", "to"}
  /\ context.pinned => media = "pinnable"
===============================================================================
