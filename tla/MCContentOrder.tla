--------------------------- MODULE MCContentOrder ---------------------------
(* Small instances of ContentOrder for TLC.                                 *)
EXTENDS ContentOrder

CONSTANTS r1, r2

TwoRequests == {r1, r2}

MiddleRow == {2}

\* Three entries, two of them equally late on the timeline.
Timeline == <<1, 2, 1>>

\* Four slugs, so that three rows can be reordered; no date matters to that.
Undated == <<1, 1, 1, 1>>
=============================================================================
