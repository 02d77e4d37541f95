-------------------------------- MODULE Reading --------------------------------
(***************************************************************************)
(* Where the reader of the home page is, and everything that moves them:   *)
(* their own scrolling and links, a landing on a hash and its late         *)
(* correction (useHashScroll), a language switch that carries their place  *)
(* (LanguageSwitcher), the API's content replacing the static snapshot     *)
(* (useContent), and a breakpoint that rebuilds every ScrollTrigger        *)
(* (useScrollAnchor), with Lenis or without it (SmoothScrollProvider).     *)
(*                                                                         *)
(* A place is a region (0 is the hero, the last one is the archive, which  *)
(* comes and goes with the content) and how far into it the header's line  *)
(* is; pixels and durations are left out.                                  *)
(***************************************************************************)
EXTENDS Integers

CONSTANT LastRegion
Bounds == LastRegion \in Nat \ {0}

VARIABLES
  home,          (* The mounted HomePage and its hooks, or Blank.            *)
  fonts,         (* The web fonts are ready.                                 *)
  lenis,         (* There is a Lenis instance.                               *)
  place,         (* Where the page is scrolled to.                           *)
  moving,        (* still; set by a jump, or scroll, until scrollEnd.        *)
  active,        (* useActiveSection's region, 0 for none.                   *)
  anchor,        (* useScrollAnchor's anchor.                                *)
  rebuild,       (* Where a rebuild of the triggers stands.                  *)
  wanted         (* Specification only: the place the reader asked for.      *)

vars == <<home, fonts, lenis, place, moving, active, anchor, rebuild, wanted>>

Regions == 0..LastRegion
Places == [region : Regions, deep : {0, 1}]
Top == [region |-> 0, deep |-> 0]
Contents == [from : {"static", "api"}, archive : BOOLEAN]

Has(content) == IF content.archive THEN Regions ELSE 0..(LastRegion - 1)
Within(content) == {p \in Places : p.region \in Has(content)}

\* No page yet: the frame without a layout, with what the navigation carries.
Blank(goal) == [on |-> FALSE, goal |-> goal]

\* landing is captured at mount; a navigation without a hash lands nowhere.
\* fetch: useContent's request; runs: corrections that wait and can still move
\* the page; settled: the reader took over, or the correction was made.
Mounted(goal, static) ==
  [on |-> TRUE, goal |-> goal, content |-> static, fetch |-> TRUE,
   runs |-> IF goal.region = 0 THEN 0 ELSE 1, settled |-> FALSE]

readAnchor == place
Due == home.on /\ home.runs > 0

\* land, restoreAnchor and scrollTo(0) with immediate and force.
Jump(p) == place' = p /\ moving' = "set"

\* readerTookOver: wheel, touch, key or pointer; it cancels the run it belongs to.
readerTookOver(h) == IF h.runs = 0 \/ h.settled THEN h ELSE [h EXCEPT !.settled = TRUE, !.runs = @ - 1]

\* Mutant: the effect that runs again does not make the correction again.
RerunNever(h) == [h EXCEPT !.runs = 0]

\* The late correction's effect runs again (Lenis comes or goes): the run before
\* is cancelled, and there is a new one unless the landing is settled.
Rerun(h) == [h EXCEPT !.runs = IF h.goal.region = 0 \/ h.settled THEN 0 ELSE 1]

-------------------------------------------------------------------------------
(* Navigation.                                                               *)

Init ==
  /\ \E region \in Regions : home = Blank([region |-> region, deep |-> 0])
  /\ fonts \in BOOLEAN /\ lenis = FALSE
  /\ place = Top /\ moving = "still" /\ active = 0
  /\ anchor = Top /\ rebuild = "none"
  /\ wanted = home.goal

\* HomePage mounts: the hooks of its sections make their triggers, refresh
\* measures them, and the landing comes before the first paint.
HomePage ==
  /\ ~home.on
  /\ \E archive \in BOOLEAN : home' = Mounted(home.goal, [from |-> "static", archive |-> archive])
  /\ anchor' = Top
  /\ IF home.goal.region \in Has(home'.content) \ {0} THEN Jump(home.goal) ELSE UNCHANGED <<place, moving>>
  /\ active' = 0
  /\ UNCHANGED <<fonts, lenis, rebuild, wanted>>

\* The page goes blank on the way to another one, whose hooks start afresh.
\* The document is empty for a frame, so it is at its top.
Leave(goal) ==
  /\ home.on
  /\ home' = Blank(goal)
  /\ Jump(Top)
  /\ active' = 0
  /\ UNCHANGED <<fonts, lenis, anchor, rebuild>>

\* The switcher takes the region being read and how far into it the reader is.
switchLanguage ==
  /\ Leave(IF active = 0 THEN Top
           ELSE [region |-> active, deep |-> IF place.region = active THEN place.deep
                                             ELSE IF place.region > active THEN 1 ELSE 0])
  /\ wanted' = IF active = place.region /\ active # 0 THEN place ELSE home'.goal

\* Back, Forward, or a section link of another page: the region, from its start.
Navigate ==
  \E region \in Regions :
    Leave([region |-> region, deep |-> 0]) /\ wanted' = home'.goal

-------------------------------------------------------------------------------
(* The reader.                                                               *)

\* A reader's move ends their claim to the landing.
Moves(p) ==
  /\ place' = p /\ moving' = "scroll" /\ wanted' = p
  /\ home' = readerTookOver(home)
  /\ UNCHANGED <<fonts, lenis, active, anchor, rebuild>>

Scroll == home.on /\ \E p \in Within(home.content) : p # place /\ Moves(p)

\* A key or a click that scrolls nothing takes over too: the page stays here.
TakesOver ==
  /\ home.on /\ home' = readerTookOver(home)
  /\ wanted' = IF Due THEN place ELSE wanted
  /\ UNCHANGED <<fonts, lenis, place, moving, active, anchor, rebuild>>

\* A section link on this page, through scrollToSection; the logo, and the way to
\* the top in the dock, which is inert while the page is at its top.
scrollToSection == home.on /\ \E id \in Has(home.content) \ {0} : Moves([region |-> id, deep |-> 0])
Dock == place # Top
scrollToTop == home.on /\ Dock /\ Moves(Top)

\* scrollEnd: the anchor is taken where the page has come to rest.
onScrollEnd ==
  /\ moving # "still" /\ home.on
  /\ moving' = "still" /\ anchor' = readAnchor
  /\ UNCHANGED <<home, fonts, lenis, place, active, rebuild, wanted>>

\* The observer's entry, some time after the page moved.
useActiveSection ==
  /\ home.on /\ active' = place.region /\ active' # active
  /\ UNCHANGED <<home, fonts, lenis, place, moving, anchor, rebuild, wanted>>

-------------------------------------------------------------------------------
(* What the page does by itself.                                             *)

\* The fonts change the layout, which is then measured again unless the page
\* moves.  A landing that is to be corrected keeps its goal; otherwise the place
\* they leave the reader at is theirs.
FontsReady ==
  /\ ~fonts /\ home.on /\ fonts' = TRUE
  /\ place' \in Within(home.content)
  /\ wanted' = IF Due THEN wanted ELSE place'
  /\ anchor' = IF moving = "still" THEN place' ELSE anchor
  /\ UNCHANGED <<home, lenis, moving, active, rebuild>>

\* The correction, with the fonts or a second after the landing.  One that comes
\* before the fonts is made once, and they may still move the page; there is
\* none to a region the content does not have.
Correct ==
  /\ Due
  /\ home' = [home EXCEPT !.runs = @ - 1, !.settled = TRUE]
  /\ anchor' = readAnchor
  /\ IF home.goal.region \in Has(home.content)
     THEN Jump(home.goal) /\ UNCHANGED wanted
     ELSE wanted' = place /\ UNCHANGED <<place, moving>>
  /\ UNCHANGED <<fonts, lenis, active, rebuild>>

\* The media query of Lenis, or the motion preference; the hooks that name it
\* run again.  Lenis may also fail to start, as if the query did not match.
SmoothScrollProvider ==
  /\ home.on /\ lenis' \in BOOLEAN
  /\ home' = Rerun(home) /\ anchor' = readAnchor
  /\ UNCHANGED <<fonts, place, moving, active, rebuild, wanted>>

\* restoreAnchor: nothing, if the region has gone with the content.
restoreAnchor(saved, content) ==
  IF saved.region \in Has(content) THEN Jump(saved) ELSE UNCHANGED <<place, moving>>

\* The swapped layout where the reader is not put back: the browser keeps the
\* page within its new height.
Clamped(content) ==
  /\ place' \in Within(content)
  /\ moving' = IF moving = "scroll" THEN moving ELSE "set"

\* The API's answer: refused, the same as the snapshot, or one that is swapped in
\* under the reader, whose place is read first and restored before the paint,
\* unless they are scrolling.
Swap(content) ==
  IF (lenis /\ moving = "scroll") \/ place.region \notin Has(content)
  THEN Clamped(content) /\ wanted' = IF Due THEN wanted ELSE place'
  ELSE restoreAnchor(readAnchor, content) /\ UNCHANGED wanted

useContent ==
  /\ home.on /\ home.fetch
  /\ \E content \in {home.content} \cup {c \in Contents : c.from = "api"} :
       /\ home' = [home EXCEPT !.fetch = FALSE, !.content = content]
       /\ IF content = home.content THEN UNCHANGED <<place, moving, wanted>> ELSE Swap(content)
  /\ UNCHANGED <<fonts, lenis, active, anchor, rebuild>>

\* A breakpoint: matchMedia reverts every trigger, sets up the new branches and
\* refreshes them, which leaves the page at its top, and only then says so.
\* A reader in mid-move has their last resting place.
onRevert ==
  /\ home.on /\ rebuild = "none"
  /\ rebuild' = "reverted" /\ place' = Top
  /\ wanted' = IF moving = "still" \/ Due THEN wanted
               ELSE IF anchor.region \in Has(home.content) THEN anchor ELSE Top
  /\ UNCHANGED <<home, fonts, lenis, moving, active, anchor>>

rebuilding == rebuild # "none"
\* Mutant: the anchor is read anew while the triggers are being rebuilt.
onRefreshAnew ==
  /\ rebuild = "reverted" /\ rebuild' = "refreshed"
  /\ anchor' = readAnchor
  /\ UNCHANGED <<home, fonts, lenis, place, moving, active, wanted>>

onRefresh ==
  /\ rebuild = "reverted" /\ rebuild' = "refreshed"
  /\ anchor' = IF rebuilding THEN anchor ELSE readAnchor
  /\ UNCHANGED <<home, fonts, lenis, place, moving, active, wanted>>

onRebuilt ==
  /\ rebuild = "refreshed" /\ rebuild' = "none"
  /\ restoreAnchor(anchor, home.content) /\ anchor' = place'
  /\ UNCHANGED <<home, fonts, lenis, active, wanted>>

-------------------------------------------------------------------------------

\* The rebuild is one task of the browser; nothing comes between its steps.
Next ==
  \/ onRefresh \/ onRebuilt
  \/ ~rebuilding /\
     \/ HomePage \/ switchLanguage \/ Navigate
     \/ Scroll \/ TakesOver \/ scrollToSection \/ scrollToTop \/ onScrollEnd \/ useActiveSection
     \/ FontsReady \/ Correct \/ SmoothScrollProvider \/ useContent \/ onRevert

\* A rebuild is carried out, and the fonts come or the second passes, whatever
\* else the browser has to do.
Spec == Init /\ [][Next]_vars /\ WF_vars(onRefresh \/ onRebuilt) /\ SF_vars(Correct)

-------------------------------------------------------------------------------

TypeOK ==
  /\ home \in [on : {FALSE}, goal : Places]
         \cup [on : {TRUE}, goal : Places, content : Contents, fetch : BOOLEAN, runs : {0, 1}, settled : BOOLEAN]
  /\ fonts \in BOOLEAN /\ lenis \in BOOLEAN
  /\ place \in Places /\ wanted \in Places /\ anchor \in Places
  /\ moving \in {"still", "set", "scroll"} /\ active \in Regions
  /\ rebuild \in {"none", "reverted", "refreshed"}

\* Nothing the site does by itself leaves the reader elsewhere than they asked to
\* be: once a page is up, its landing corrected or taken over, and no rebuild
\* under way, the page is where the reader last went or landed, through content
\* that replaces the snapshot, breakpoints, Lenis coming and going, refreshes,
\* and a language switch in mid-region; no late correction moves a reader who
\* has taken over.
PlaceKept == home.on /\ ~Due /\ ~rebuilding => place = wanted
===============================================================================
