--------------------------- MODULE MCProjectEditor ---------------------------
(* Small instances of ProjectEditor for TLC.                                *)
EXTENDS ProjectEditor, TLC

CONSTANTS first, second, slot, ticked, mine, theirs

\* Two contents of a project, and a placeholder slot.
ThreeContents == {first, second, slot}
OneSlot == {slot}

\* The form also holds texts under a ticked "placeholder" box: a placeholder is
\* sent without them.
FourDrafts == ThreeContents \union {ticked}
SentAs == first :> first @@ second :> second @@ slot :> slot @@ ticked :> slot

\* The two contents are treated alike.
Interchangeable == Permutations({first, second})

TwoUploads == {mine, theirs}
=============================================================================
