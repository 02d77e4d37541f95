----------------------------- MODULE RateLimiter -----------------------------
(***************************************************************************)
(* The in-process sliding-window rate limiter                              *)
(* (src/backend/app/core/rate_limit.py).  A key's events are a deque that  *)
(* is pruned only when the key is used, and all keys are swept once in     *)
(* SweepEvery operations.  Its callers only `hit` and `clear`, and give a  *)
(* key always the same rule, so a key's stored window is its rule's.       *)
(*                                                                         *)
(* Time is counted in fractions of a second, as the clock is a float and   *)
(* Retry-After whole seconds.  The calls the two halves of a hit make to   *)
(* the clock read one instant.                                             *)
(***************************************************************************)
EXTENDS Naturals, Sequences

CONSTANTS
  Keys,            (* The limiter's keys, `login:ip:<address>` and so on.    *)
  Rule,            (* Rule[k]: the limit and the window of key k's rule.     *)
  SweepEvery,      (* _SWEEP_EVERY                                           *)
  UnitsPerSecond,  (* The clock's units in a second.                         *)
  MaxTime          (* Bound on the clock.                                    *)

ASSUME LimiterAssumption ==
  /\ Rule \in [Keys -> [limit : Nat \ {0}, window : Nat \ {0}]]
  /\ SweepEvery \in Nat \ {0}
  /\ UnitsPerSecond \in Nat \ {0}
  /\ MaxTime \in Nat

VARIABLES
  now,             (* time.monotonic()                                       *)
  events,          (* events[k]: the deque of key k, empty when it has none. *)
  operations,      (* The operations counted, modulo SweepEvery.             *)
  told,            (* told[k]: when the last refusal said to come back.      *)
  log              (* History: every event of k since it was last cleared.   *)

vars == <<now, events, operations, told, log>>

Init ==
  /\ now = 0
  /\ events = [k \in Keys |-> <<>>]
  /\ operations = 0
  /\ told = [k \in Keys |-> 0]
  /\ log = [k \in Keys |-> <<>>]

-------------------------------------------------------------------------------

Expired(k, e) == e + Rule[k].window <= now

Counted(n) == (n + 1) % SweepEvery

\* Mutant: a key goes when its oldest event has expired.
SweptByOldest(ev) ==
  [k \in Keys |-> IF ev[k] # <<>> /\ Expired(k, Head(ev[k])) THEN <<>> ELSE ev[k]]

\* _tick's sweep: a key goes when its newest event has expired.
Swept(ev) ==
  [k \in Keys |-> IF ev[k] # <<>> /\ Expired(k, ev[k][Len(ev[k])]) THEN <<>> ELSE ev[k]]

\* _tick: the n-th operation sweeps when n reaches SweepEvery.
Ticked(n, ev) == IF n = 0 THEN Swept(ev) ELSE ev

\* _prune drops the first n events of s: those from the left that have expired.
Drops(k, s, n) ==
  /\ n \in 0 .. Len(s)
  /\ \A i \in 1 .. n : Expired(k, s[i])
  /\ n < Len(s) => ~Expired(k, s[n + 1])

Pruned(s, n) == SubSeq(s, n + 1, Len(s))

\* Mutant: one event more than the limit.
FullTooLate(k, s) == Len(s) > Rule[k].limit

\* check's decision on the pruned events.
Full(k, s) == Len(s) >= Rule[k].limit

\* Mutant: seconds are rounded down.
SecondsDown(units) == units \div UnitsPerSecond

\* math.ceil
Seconds(units) == (units + UnitsPerSecond - 1) \div UnitsPerSecond

\* check's Retry-After: the time until the oldest event leaves the window.
RetryAfter(k, s) ==
  LET left == Seconds(Head(s) + Rule[k].window - now)
  IN  IF left > 1 THEN left ELSE 1

\* Mutant: the newest event goes first in the deque.
RecordedFirst(k, s) == <<now>> \o s

\* record's append.
Recorded(k, s) == Append(s, now)

\* hit: check, then record when it is allowed.
Allow(k) ==
  LET ops == Counted(operations)
      ev  == Ticked(ops, events)
  IN  \E n \in 0 .. Len(ev[k]) :
        LET s == Pruned(ev[k], n) IN
        /\ Drops(k, ev[k], n) /\ ~Full(k, s)
        /\ operations' = Counted(ops)
        /\ events' = [Ticked(Counted(ops), [ev EXCEPT ![k] = s])
                        EXCEPT ![k] = Recorded(k, s)]
        /\ log' = [log EXCEPT ![k] = Append(@, now)]
        /\ told' = [told EXCEPT ![k] = 0]
        /\ UNCHANGED now

\* Mutant: a refused request is recorded too.
RefuseRecording(k) ==
  LET ops == Counted(operations)
      ev  == Ticked(ops, events)
  IN  \E n \in 0 .. Len(ev[k]) :
        LET s == Pruned(ev[k], n) IN
        /\ Drops(k, ev[k], n) /\ Full(k, s)
        /\ operations' = ops
        /\ events' = [ev EXCEPT ![k] = Append(s, now)]
        /\ told' = [told EXCEPT ![k] = now + UnitsPerSecond * RetryAfter(k, s)]
        /\ UNCHANGED <<now, log>>

\* hit: check refuses, nothing is recorded.
Refuse(k) ==
  LET ops == Counted(operations)
      ev  == Ticked(ops, events)
  IN  \E n \in 0 .. Len(ev[k]) :
        LET s == Pruned(ev[k], n) IN
        /\ Drops(k, ev[k], n) /\ Full(k, s)
        /\ operations' = ops
        /\ events' = [ev EXCEPT ![k] = s]
        /\ told' = [told EXCEPT ![k] = now + UnitsPerSecond * RetryAfter(k, s)]
        /\ UNCHANGED <<now, log>>

\* clear, after a success (a sign-in, a confirmed change).
Clear(k) ==
  /\ events' = [events EXCEPT ![k] = <<>>]
  /\ log' = [log EXCEPT ![k] = <<>>]
  /\ told' = [told EXCEPT ![k] = 0]
  /\ UNCHANGED <<now, operations>>

Tick ==
  /\ now < MaxTime
  /\ now' = now + 1
  /\ UNCHANGED <<events, operations, told, log>>

Hit(k) == Allow(k) \/ Refuse(k)

Next == Tick \/ \E k \in Keys : Hit(k) \/ Clear(k)

Spec == Init /\ [][Next]_vars

-------------------------------------------------------------------------------
(* Properties                                                               *)

Ordered(s) == \A i, j \in 1 .. Len(s) : i <= j => s[i] <= s[j]

\* Every variable has its type; a deque is in the order of its times, none of
\* them later than now.
TypeOK ==
  /\ now \in Nat
  /\ events \in [Keys -> Seq(Nat)]
  /\ operations \in Nat /\ operations < SweepEvery
  /\ told \in [Keys -> Nat]
  /\ log \in [Keys -> Seq(Nat)]
  /\ \A k \in Keys : Ordered(events[k]) /\ \A i \in 1 .. Len(events[k]) : events[k][i] <= now

\* No window of a key's rule, wherever it starts, holds more allowed requests
\* than the rule's limit (since the key was last cleared), however the lazy
\* pruning and the sweeps fall.
LimitHolds ==
  \A k \in Keys : \A i \in 1 .. Len(log[k]) :
    i + Rule[k].limit <= Len(log[k]) =>
      log[k][i] + Rule[k].window <= log[k][i + Rule[k].limit]

\* A flood cannot make a key grow: its deque never exceeds its limit.
KeptAtMostLimit == \A k \in Keys : Len(events[k]) <= Rule[k].limit

\* Retry-After is honest and exact to the second: a caller who waits that long,
\* with nobody else allowed on the key meanwhile, is allowed; one who comes a
\* second or more too early is refused again.
RetryExact ==
  [][\A k \in Keys : told[k] # 0 =>
       /\ Refuse(k) => now < told[k]
       /\ Allow(k) => now + UnitsPerSecond > told[k]]_vars

\* A deque as a prune would leave it now.
Live(k, s) == Pruned(s, CHOOSE n \in 0 .. Len(s) : Drops(k, s, n))

\* The limiter implements the sliding window: that expired events linger until
\* the key is used or swept is never seen.
Window == INSTANCE WindowLimit WITH
  recent <- [k \in Keys |-> Live(k, events[k])]

ImplementsWindow == Window!Spec

=============================================================================
