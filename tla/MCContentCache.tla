--------------------------- MODULE MCContentCache ---------------------------
(* Small instances of ContentCache for TLC.                                 *)
EXTENDS ContentCache

CONSTANTS en, g1, g2, w1

OneLocale == {en}
TwoGets == {g1, g2}
OneWriter == {w1}
=============================================================================
