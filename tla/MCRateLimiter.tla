---------------------------- MODULE MCRateLimiter ----------------------------
(* Small instances of RateLimiter for TLC.                                  *)
EXTENDS RateLimiter, TLC

CONSTANTS ip, email

TwoKeys == {ip, email}

\* Two rules with different limits and windows; a second has two units.
TwoRules == ip :> [limit |-> 2, window |-> 3] @@ email :> [limit |-> 1, window |-> 4]
=============================================================================
