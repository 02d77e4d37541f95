----------------------------- MODULE WindowLimit -----------------------------
(***************************************************************************)
(* What the rate limiter promises (src/backend/app/core/rate_limit.py, the *)
(* module docstring), without the way it keeps its events: a key holds the *)
(* events of its last window, and an event leaves at the moment it is a    *)
(* window old.  RateLimiter is shown to implement this.                    *)
(***************************************************************************)
EXTENDS Naturals, Sequences

CONSTANTS
  Keys,            (* The limiter's keys, `login:ip:<address>` and so on.    *)
  Rule,            (* Rule[k]: the limit and the window of key k's rule.     *)
  UnitsPerSecond,  (* The clock's units in a second.                         *)
  MaxTime          (* Bound on the clock.                                    *)

VARIABLES
  now,             (* The clock.                                             *)
  recent,          (* recent[k]: the events of the last window, oldest first *)
  told             (* told[k]: when the last refusal said to come back.      *)

vars == <<now, recent, told>>

Seconds(units) == (units + UnitsPerSecond - 1) \div UnitsPerSecond

\* What is left of events s of key k at a time: the first gone of them are a
\* window old.
Left(k, s, time) ==
  LET gone == CHOOSE n \in 0 .. Len(s) :
                /\ \A i \in 1 .. n : s[i] + Rule[k].window <= time
                /\ n < Len(s) => s[n + 1] + Rule[k].window > time
  IN  SubSeq(s, gone + 1, Len(s))

Init ==
  /\ now = 0
  /\ recent = [k \in Keys |-> <<>>]
  /\ told = [k \in Keys |-> 0]

Allow(k) ==
  /\ Len(recent[k]) < Rule[k].limit
  /\ recent' = [recent EXCEPT ![k] = Append(@, now)]
  /\ told' = [told EXCEPT ![k] = 0]
  /\ UNCHANGED now

\* A refusal records nothing and names the moment the oldest event leaves.
Refuse(k) ==
  /\ Len(recent[k]) >= Rule[k].limit
  /\ told' = [told EXCEPT ![k] =
       now + UnitsPerSecond * Seconds(Head(recent[k]) + Rule[k].window - now)]
  /\ UNCHANGED <<now, recent>>

Clear(k) ==
  /\ recent' = [recent EXCEPT ![k] = <<>>]
  /\ told' = [told EXCEPT ![k] = 0]
  /\ UNCHANGED now

Tick ==
  /\ now < MaxTime
  /\ now' = now + 1
  /\ recent' = [k \in Keys |-> Left(k, recent[k], now + 1)]
  /\ UNCHANGED told

Next == Tick \/ \E k \in Keys : Allow(k) \/ Refuse(k) \/ Clear(k)

Spec == Init /\ [][Next]_vars

=============================================================================
