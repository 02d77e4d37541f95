---------------------------- MODULE LoginAttempts ----------------------------
(***************************************************************************)
(* What a sign-in must pass: the limits of api/v1/auth.py in their order,  *)
(* each counted on arrival, and one of the slots for password checks       *)
(* (services/auth.py), which the reauthentication of api/v1/admin_totp.py  *)
(* takes as well.  The limiter is what WindowLimit promises, its events    *)
(* known by their age.  All attempts are on the owner's email; the         *)
(* password is known only where the owner is.                              *)
(***************************************************************************)
EXTENDS Naturals, Sequences, FiniteSets

CONSTANTS
  Addresses,     (* Where attempts come from.                                *)
  Home,          (* Where the owner is.                                      *)
  MaxTries,      (* Bound: attempts at a time.                               *)
  Window, Day,   (* How old an event of the rules gets.                      *)
  IpLimit, EmailIpLimit, EmailLimit, CodeLimit, DayLimit, ReauthLimit,
  Slots          (* PASSWORD_CHECK_CONCURRENCY.                              *)

AttemptBounds ==
  /\ Home \in Addresses /\ MaxTries \in Nat \ {0}
  /\ {Window, Day, IpLimit, EmailIpLimit, EmailLimit, CodeLimit, DayLimit, ReauthLimit, Slots} \subseteq Nat \ {0}

VARIABLES
  recent,        (* recent[k]: what key k counts, oldest first: [age, by].   *)
  tries,         (* tries[t]: how many such attempts are under way.          *)
  free,          (* The semaphore's value.                                   *)
  queue,         (* Its waiters, those woken and not yet running included.   *)
  second,        (* Two-factor sign-in is on.                                *)
  pending,       (* The owner has the cookie of a first step.                *)
  guessed        (* History: the logins let through to the check, by         *)
                 (* address, since its last success.                         *)

vars == <<recent, tries, free, queue, second, pending, guessed>>

Kinds == {"login", "code", "reauth"}
Keys == ({"ip", "email-ip"} \X Addresses) \cup {<<"email">>, <<"code">>, <<"day">>, <<"reauth">>}
Limit(k) ==
  CASE k[1] = "ip" -> IpLimit [] k[1] = "email-ip" -> EmailIpLimit [] k[1] = "email" -> EmailLimit
    [] k[1] = "code" -> CodeLimit [] k[1] = "day" -> DayLimit [] k[1] = "reauth" -> ReauthLimit
email_limit_keys(a) == <<<<"email-ip", a>>, <<"email">>>>
totp_limit_keys == <<<<"code">>, <<"day">>>>

Going == [at : {"asking", "checking", "code"}, kind : Kinds, by : Addresses]
Waiters == [at : {"waiting", "woken"}, kind : Kinds, by : Addresses]
UnderWay == {t \in Going : tries[t] > 0}

Init ==
  /\ recent = [k \in Keys |-> <<>>] /\ tries = [t \in Going |-> 0]
  /\ free = Slots /\ queue = <<>> /\ second \in BOOLEAN
  /\ pending = FALSE /\ guessed = [a \in Addresses |-> <<>>]

-------------------------------------------------------------------------------
(* The limiter and the semaphore.                                            *)

Allows(log, k) == Len(log[k]) < Limit(k)
Event(a) == [age |-> 0, by |-> a]
Recorded(log, k, a) == [log EXCEPT ![k] = Append(@, Event(a))]
Cleared(log, keys) == [k \in Keys |-> IF \E j \in DOMAIN keys : keys[j] = k THEN <<>> ELSE log[k]]

\* Mutant: the email's key is counted before the address's.
hitsInReverse(keys, a) ==
  IF ~Allows(recent, keys[2]) THEN [ok |-> FALSE, log |-> recent]
  ELSE [ok |-> Allows(recent, keys[1]),
        log |-> IF Allows(recent, keys[1]) THEN Recorded(Recorded(recent, keys[2], a), keys[1], a)
                ELSE Recorded(recent, keys[2], a)]

\* A hit on each key in turn: the first refusal ends it, with the earlier ones counted.
hits(keys, a) ==
  IF ~Allows(recent, keys[1]) THEN [ok |-> FALSE, log |-> recent]
  ELSE [ok |-> Allows(recent, keys[2]),
        log |-> IF Allows(recent, keys[2]) THEN Recorded(Recorded(recent, keys[1], a), keys[2], a)
                ELSE Recorded(recent, keys[1], a)]

At(place, t) == [t EXCEPT !.at = place]
Joined(count, t) == [count EXCEPT ![t] = @ + 1]
Left(t) == [tries EXCEPT ![t] = @ - 1]
Moved(t, place) == Joined(Left(t), At(place, t))
without(q, n) == [m \in 1 .. Len(q) - 1 |-> IF m < n THEN q[m] ELSE q[m + 1]]

\* The attempts of some kinds, one by one.
Each(count, S) == UNION {{t} \X (1 .. count[t]) : t \in S}

\* acquire: at once when a slot is free and nobody waits, else at the end of the queue.
acquire(t, others) ==
  IF free > 0 /\ queue = <<>>
  THEN tries' = Joined(others, At("checking", t)) /\ free' = free - 1 /\ UNCHANGED queue
  ELSE tries' = others /\ queue' = Append(queue, At("waiting", t)) /\ UNCHANGED free

\* _wake_up_next, up to most times while the value is not 0: the first of the queue
\* that still wait are woken, and have their slot.
waiting(q, n) == {m \in 1 .. n : q[m].at = "waiting"}
called(q, most) == {n \in waiting(q, Len(q)) : Cardinality(waiting(q, n)) <= most}
wakeUp(value, most, q) ==
  /\ queue' = [n \in DOMAIN q |-> IF n \in called(q, most) THEN At("woken", q[n]) ELSE q[n]]
  /\ free' = value - Cardinality(called(q, most))

\* release wakes one.
release == wakeUp(free + 1, 1, queue)

-------------------------------------------------------------------------------
(* The handlers.                                                             *)

\* The request comes in, and counts on its first key.
Arrives(kind, a) ==
  LET key == IF kind = "reauth" THEN <<"reauth">> ELSE <<"ip", a>>
      t == [at |-> "asking", kind |-> kind, by |-> a]
  IN /\ Cardinality(Each(tries, Going)) + Len(queue) < MaxTries
     /\ kind # "login" => a = Home /\ (kind = "code" => pending)
     /\ Allows(recent, key) /\ recent' = Recorded(recent, key, a)
     /\ IF kind = "reauth" THEN acquire(t, tries) ELSE tries' = Joined(tries, t) /\ UNCHANGED <<free, queue>>
     /\ UNCHANGED <<second, pending, guessed>>

\* Turnstile did not accept the token, or could not be asked.
NotHuman(t) ==
  /\ t.at = "asking" /\ t.kind = "login"
  /\ tries' = Left(t) /\ UNCHANGED <<recent, free, queue, second, pending, guessed>>

Human(t) ==
  LET counted == hits(email_limit_keys(t.by), t.by)
  IN /\ t.at = "asking" /\ t.kind = "login"
     /\ recent' = counted.log
     /\ IF counted.ok THEN acquire(t, Left(t)) /\ guessed' = [guessed EXCEPT ![t.by] = Append(@, Event(t.by))]
        ELSE tries' = Left(t) /\ UNCHANGED <<free, queue, guessed>>
     /\ UNCHANGED <<second, pending>>

\* A woken waiter runs, and wakes those who came after it and found a slot free.
Resumes(n) ==
  /\ queue[n].at = "woken"
  /\ tries' = Joined(tries, At("checking", queue[n])) /\ wakeUp(free, free, without(queue, n))
  /\ UNCHANGED <<recent, second, pending, guessed>>

\* Mutant: the slot that was just handed to it is lost.
TimesOutHolding(n) ==
  /\ wakeUp(free, free, without(queue, n))
  /\ UNCHANGED <<recent, tries, second, pending, guessed>>

\* The five seconds are over: a slot that was just handed to it goes to the next.
TimesOut(n) ==
  /\ LET value == IF queue[n].at = "woken" THEN free + 1 ELSE free
     IN wakeUp(value, value, without(queue, n))
  /\ UNCHANGED <<recent, tries, second, pending, guessed>>

\* The password is wrong or its check fails, and the slot is released.
Wrong(t) ==
  /\ t.at = "checking" /\ tries' = Left(t) /\ release
  /\ UNCHANGED <<recent, second, pending, guessed>>

\* Signed in from a: the email's counters are cleared.
SignedIn(a, keys) ==
  recent' = Cleared(recent, keys \o email_limit_keys(a)) /\ guessed' = [guessed EXCEPT ![a] = <<>>]

\* The password is right: signed in, or the code is next.
Right(t) ==
  /\ t.at = "checking" /\ t.by = Home /\ release /\ UNCHANGED second
  /\ tries' = IF t.kind = "reauth" THEN Moved(t, "code") ELSE Left(t)
  /\ CASE t.kind = "reauth" -> UNCHANGED <<recent, pending, guessed>>
       [] t.kind = "login" /\ second -> pending' = TRUE /\ UNCHANGED <<recent, guessed>>
       [] t.kind = "login" /\ ~second -> SignedIn(t.by, <<>>) /\ UNCHANGED pending

\* The second step counts on the admin's keys if the pending cookie still stands.
CodeCounted(t) ==
  LET counted == hits(totp_limit_keys, t.by) IN
     /\ t.at = "asking" /\ t.kind = "code"
     /\ recent' = IF pending THEN counted.log ELSE recent
     /\ tries' = IF pending /\ counted.ok THEN Moved(t, "code") ELSE Left(t)
     /\ UNCHANGED <<free, queue, second, pending, guessed>>

WrongCode(t) ==
  /\ t.at = "code" /\ tries' = Left(t)
  /\ UNCHANGED <<recent, free, queue, second, pending, guessed>>

\* The code is right: signed in, or two-factor sign-in switched, and the counters of
\* the way here are cleared.
RightCode(t) ==
  /\ t.at = "code" /\ (t.kind = "code" => second)
  /\ tries' = Left(t) /\ UNCHANGED <<free, queue>>
  /\ IF t.kind = "code"
     THEN SignedIn(t.by, totp_limit_keys) /\ pending' = FALSE /\ UNCHANGED second
     ELSE recent' = Cleared(recent, <<<<"reauth">>>>) /\ second' = ~second /\ pending' = FALSE /\ UNCHANGED guessed

\* Time passes, and what is a window old no longer counts: it is at the front.
expired(log, window) == CHOOSE c \in 0 .. Len(log) : \A n \in DOMAIN log : n <= c <=> log[n].age + 1 >= window
older(log, window) ==
  LET gone == expired(log, window)
  IN [n \in 1 .. Len(log) - gone |-> [log[n + gone] EXCEPT !.age = @ + 1]]

Tick ==
  /\ recent' = [k \in Keys |-> older(recent[k], IF k = <<"day">> THEN Day ELSE Window)]
  /\ guessed' = [a \in Addresses |-> older(guessed[a], Window)]
  /\ UNCHANGED <<tries, free, queue, second, pending>>

Next ==
  \/ Tick
  \/ \E kind \in Kinds, a \in Addresses : Arrives(kind, a)
  \/ \E t \in UnderWay :
       NotHuman(t) \/ Human(t) \/ Wrong(t) \/ Right(t) \/ CodeCounted(t) \/ WrongCode(t) \/ RightCode(t)
  \/ \E n \in DOMAIN queue : Resumes(n) \/ TimesOut(n)

Spec == Init /\ [][Next]_vars

-------------------------------------------------------------------------------

TypeOK ==
  /\ \A k \in Keys : Len(recent[k]) <= Limit(k)
  /\ tries \in [Going -> Nat] /\ queue \in Seq(Waiters)
  /\ free \in 0 .. Slots /\ second \in BOOLEAN /\ pending \in BOOLEAN

By(log, a) == {n \in DOMAIN log : log[n].by = a}

\* "Failures from one address never lock the owner out elsewhere" (docs/backend/auth.md):
\* of what counts against the email, at most EmailIpLimit came from any one address;
\* and no more of its attempts in a window come to the check, in whatever burst.
OneAddressCannotLock ==
  \A a \in Addresses :
    /\ Cardinality(By(recent[<<"email">>], a)) <= EmailIpLimit
    /\ Len(guessed[a]) <= EmailIpLimit

\* The attempts that hold a slot, and who is where in the queue.
Checks(count) == Each(count, {t \in Going : t.at = "checking"})
Placed(q, place) == {n \in DOMAIN q : q[n].at = place}

\* The checks that run or are about to, and the free slots, are always
\* PASSWORD_CHECK_CONCURRENCY, and nobody waits while a slot is free but behind one
\* who was woken: none is lost to a wait that ends just as the slot comes, nor to a
\* check that fails.
SlotsKept ==
  /\ free + Cardinality(Checks(tries)) + Cardinality(Placed(queue, "woken")) = Slots
  /\ free > 0 /\ Placed(queue, "waiting") # {} => Placed(queue, "woken") # {}
===============================================================================
