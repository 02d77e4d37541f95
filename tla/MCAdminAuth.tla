----------------------------- MODULE MCAdminAuth -----------------------------
(* Small instances of AdminAuth for TLC.                                    *)
EXTENDS AdminAuth, TLC

CONSTANTS r1, r2

TwoRequests == {r1, r2}
Interchangeable == Permutations(Requests)
=============================================================================
