-------------------------- MODULE RateLimiterProofs --------------------------
(***************************************************************************)
(* What RateLimiter keeps true for all keys, rules and sweep intervals: the *)
(* limit holds in every window, whatever is pruned or swept when.          *)
(***************************************************************************)
EXTENDS RateLimiter, Integers, WellFoundedInduction, SequenceTheorems, TLAPS

\* A history is in order and none of it is in the future.
Past(h) == Ordered(h) /\ \A i \in 1 .. Len(h) : h[i] <= now

\* s holds the end of history h, and what it lacks has expired.
EndOf(k, s, h) ==
  /\ s \in Seq(Nat) /\ Len(s) <= Len(h)
  /\ \A i \in 1 .. Len(s) : s[i] = h[Len(h) - Len(s) + i]
  /\ \A i \in 1 .. Len(h) - Len(s) : Expired(k, h[i])

\* Any limit + 1 successive events span a window.
Spaced(k, h) ==
  \A i \in 1 .. Len(h) :
    i + Rule[k].limit <= Len(h) => h[i] + Rule[k].window <= h[i + Rule[k].limit]

Shape ==
  /\ now \in Nat
  /\ events \in [Keys -> Seq(Nat)]
  /\ operations \in Nat /\ operations < SweepEvery
  /\ told \in [Keys -> Nat]
  /\ log \in [Keys -> Seq(Nat)]

LogInv ==
  \A k \in Keys :
    /\ Past(log[k])
    /\ EndOf(k, events[k], log[k])
    /\ Len(events[k]) <= Rule[k].limit
    /\ Spaced(k, log[k])

Inv == Shape /\ LogInv

-------------------------------------------------------------------------------

\* Two facts of arithmetic.
LEMMA AtMostNext ==
  ASSUME NEW x \in Nat, NEW n \in Nat, x <= n + 1
  PROVE  x = n + 1 \/ x <= n
OBVIOUS

LEMMA EndIndex ==
  ASSUME NEW m \in Nat, NEW n \in Nat, m <= n, NEW i \in 1 .. m
  PROVE  n - m + i \in 1 .. n
OBVIOUS

LEMMA RuleType ==
  ASSUME NEW k \in Keys
  PROVE  Rule[k].limit \in Nat \ {0} /\ Rule[k].window \in Nat \ {0}
BY LimiterAssumption

LEMMA CountedType ==
  ASSUME NEW n \in Nat
  PROVE  Counted(n) \in Nat /\ Counted(n) < SweepEvery
<1>1. SweepEvery \in Nat \ {0}
  BY LimiterAssumption
<1> QED BY <1>1 DEF Counted

\* A sweep leaves every deque at the end of its history.
LEMMA SweptEnd ==
  ASSUME now \in Nat,
         NEW h \in [Keys -> Seq(Nat)], NEW ev \in [Keys -> Seq(Nat)],
         \A k \in Keys : Past(h[k]) /\ EndOf(k, ev[k], h[k])
  PROVE  /\ Swept(ev) \in [Keys -> Seq(Nat)]
         /\ \A k \in Keys : EndOf(k, Swept(ev)[k], h[k]) /\ Len(Swept(ev)[k]) <= Len(ev[k])
<1>1. Swept(ev) \in [Keys -> Seq(Nat)]
  BY DEF Swept
<1>2. ASSUME NEW k \in Keys
      PROVE  EndOf(k, Swept(ev)[k], h[k]) /\ Len(Swept(ev)[k]) <= Len(ev[k])
  <2>1. CASE ~(ev[k] # <<>> /\ Expired(k, ev[k][Len(ev[k])]))
    BY <2>1 DEF Swept
  <2>2. CASE ev[k] # <<>> /\ Expired(k, ev[k][Len(ev[k])])
    <3>1. Swept(ev)[k] = <<>>
      BY <2>2 DEF Swept
    <3>2. Len(ev[k]) \in Nat \ {0} /\ Len(h[k]) \in Nat /\ h[k] \in Seq(Nat)
      BY <2>2
    <3>3. Len(ev[k]) <= Len(h[k]) /\ ev[k][Len(ev[k])] = h[k][Len(h[k])]
      BY <3>2 DEF EndOf
    <3>4. ASSUME NEW i \in 1 .. Len(h[k])
          PROVE  Expired(k, h[k][i])
      <4>1. h[k][i] <= h[k][Len(h[k])] /\ h[k][i] \in Nat /\ h[k][Len(h[k])] \in Nat
        BY <3>2, <3>3 DEF Past, Ordered
      <4> QED BY <4>1, <3>3, <2>2, RuleType, SMTT(30) DEF Expired
    <3>5. EndOf(k, <<>>, h[k])
      BY <3>2, <3>4 DEF EndOf
    <3> QED BY <3>1, <3>2, <3>5
  <2> QED BY <2>1, <2>2
<1> QED BY <1>1, <1>2

\* An operation leaves every deque at the end of its history, sweeping or not.
LEMMA TickedEnd ==
  ASSUME now \in Nat, NEW n,
         NEW h \in [Keys -> Seq(Nat)], NEW ev \in [Keys -> Seq(Nat)],
         \A k \in Keys : Past(h[k]) /\ EndOf(k, ev[k], h[k])
  PROVE  /\ Ticked(n, ev) \in [Keys -> Seq(Nat)]
         /\ \A k \in Keys : EndOf(k, Ticked(n, ev)[k], h[k]) /\ Len(Ticked(n, ev)[k]) <= Len(ev[k])
<1>1. CASE n = 0
  BY <1>1, SweptEnd DEF Ticked
<1>2. CASE n # 0
  <2>1. Ticked(n, ev) = ev
    BY <1>2 DEF Ticked
  <2>2. ASSUME NEW k \in Keys PROVE Len(ev[k]) <= Len(ev[k])
    <3>1. ev[k] \in Seq(Nat)
      OBVIOUS
    <3> QED BY <3>1
  <2> QED BY <2>1, <2>2
<1> QED BY <1>1, <1>2

\* Pruning leaves a deque at the end of its history.
LEMMA PrunedEnd ==
  ASSUME NEW k \in Keys, NEW h \in Seq(Nat), NEW s \in Seq(Nat), NEW n \in 0 .. Len(s),
         EndOf(k, s, h), Drops(k, s, n)
  PROVE  /\ Pruned(s, n) \in Seq(Nat)
         /\ Len(Pruned(s, n)) = Len(s) - n
         /\ EndOf(k, Pruned(s, n), h)
<1>1. Len(s) \in Nat /\ Len(h) \in Nat /\ n \in Nat /\ n <= Len(s)
  OBVIOUS
<1>2. /\ Pruned(s, n) \in Seq(Nat) /\ Len(Pruned(s, n)) = Len(s) - n
      /\ \A i \in 1 .. Len(s) - n : Pruned(s, n)[i] = s[n + i]
  BY <1>1 DEF Pruned
<1>3. ASSUME NEW i \in 1 .. Len(Pruned(s, n))
      PROVE  Pruned(s, n)[i] = h[Len(h) - Len(Pruned(s, n)) + i]
  <2>1. i \in 1 .. Len(s) - n /\ n + i \in 1 .. Len(s)
    BY <1>1, <1>2
  <2>2. Len(h) - Len(s) + (n + i) = Len(h) - Len(Pruned(s, n)) + i
    BY <1>1, <1>2, <2>1
  <2>3. s[n + i] = h[Len(h) - Len(s) + (n + i)]
    BY <2>1 DEF EndOf
  <2> QED BY <1>2, <2>1, <2>2, <2>3
<1>4. ASSUME NEW i \in 1 .. Len(h) - Len(Pruned(s, n))
      PROVE  Expired(k, h[i])
  <2>1. CASE i <= Len(h) - Len(s)
    BY <2>1, <1>1 DEF EndOf
  <2>2. CASE i > Len(h) - Len(s)
    <3> DEFINE j == i - (Len(h) - Len(s))
    <3>1. j \in 1 .. n /\ Len(h) - Len(s) + j = i /\ j \in 1 .. Len(s)
      BY <2>2, <1>1, <1>2, SMTT(30) DEF EndOf
    <3>2. h[i] = s[j]
      BY <3>1 DEF EndOf
    <3> QED BY <3>1, <3>2 DEF Drops
  <2> QED BY <2>1, <2>2, <1>1
<1> QED BY <1>1, <1>2, <1>3, <1>4 DEF EndOf

\* Recording an event that the limit allowed keeps the deque at the end of the
\* history, and the history spaced.
LEMMA RecordedEnd ==
  ASSUME NEW k \in Keys, NEW h \in Seq(Nat), NEW s \in Seq(Nat),
         now \in Nat, Past(h), EndOf(k, s, h), Spaced(k, h), ~Full(k, s)
  PROVE  /\ Past(Append(h, now)) /\ EndOf(k, Recorded(k, s), Append(h, now))
         /\ Spaced(k, Append(h, now)) /\ Len(Recorded(k, s)) <= Rule[k].limit
<1> DEFINE g == Append(h, now)
           t == Append(s, now)
           L == Rule[k].limit
           W == Rule[k].window
<1>1. /\ g \in Seq(Nat) /\ Len(h) \in Nat /\ Len(g) = Len(h) + 1 /\ g[Len(h) + 1] = now
      /\ \A i \in 1 .. Len(h) : g[i] = h[i] /\ h[i] \in Nat
  OBVIOUS
<1>2. /\ t \in Seq(Nat) /\ Len(s) \in Nat /\ Len(t) = Len(s) + 1 /\ t[Len(s) + 1] = now
      /\ \A i \in 1 .. Len(s) : t[i] = s[i]
  OBVIOUS
<1>3. L \in Nat /\ L >= 1 /\ W \in Nat
  BY RuleType
<1>4. Len(s) < L /\ Len(s) <= Len(h)
  BY <1>2, <1>3 DEF Full, EndOf
<1>9. \A i \in 1 .. Len(h) : i + L <= Len(h) => h[i] + W <= h[i + L]
  BY DEF Spaced
<1>10. \A i \in 1 .. Len(h) - Len(s) : h[i] + W <= now
  BY DEF EndOf, Expired
<1> HIDE DEF g, t, L, W
<1>5. Past(g)
  <2>1. ASSUME NEW i \in 1 .. Len(g) PROVE g[i] <= now
    <3>1. CASE i = Len(h) + 1
      BY <3>1, <1>1
    <3>2. CASE i \in 1 .. Len(h)
      BY <3>2, <1>1 DEF Past
    <3> QED BY <3>1, <3>2, <1>1
  <2>2. ASSUME NEW i \in 1 .. Len(g), NEW j \in 1 .. Len(g), i <= j
        PROVE  g[i] <= g[j]
    <3>1. CASE j = Len(h) + 1
      BY <3>1, <2>1, <1>1
    <3>2. CASE j \in 1 .. Len(h)
      <4>1. i \in 1 .. Len(h) /\ g[i] = h[i] /\ g[j] = h[j]
        BY <3>2, <2>2, <1>1, SMTT(30)
      <4> QED BY <4>1, <3>2, <2>2 DEF Past, Ordered
    <3> QED BY <3>1, <3>2, <1>1
  <2> QED BY <2>1, <2>2 DEF Past, Ordered
<1>6. EndOf(k, t, g)
  <2>1. \A i \in 1 .. Len(t) : t[i] = g[Len(g) - Len(t) + i]
    <3> SUFFICES ASSUME NEW i \in 1 .. Len(t) PROVE t[i] = g[Len(g) - Len(t) + i]
      OBVIOUS
    <3>1. CASE i = Len(s) + 1
      BY <3>1, <1>1, <1>2, <1>4
    <3>2. CASE i \in 1 .. Len(s)
      <4>1. Len(h) - Len(s) + i \in 1 .. Len(h) /\ Len(g) - Len(t) + i = Len(h) - Len(s) + i
        BY <3>2, <1>1, <1>2, <1>4
      <4> QED BY <4>1, <3>2, <1>1, <1>2 DEF EndOf
    <3> QED BY <3>1, <3>2, <1>2
  <2>2. ASSUME NEW i \in 1 .. Len(g) - Len(t) PROVE Expired(k, g[i])
    <3>1. i \in 1 .. Len(h) - Len(s) /\ i \in 1 .. Len(h)
      BY <1>1, <1>2, <1>4, SMTT(30)
    <3> QED BY <3>1, <1>1 DEF EndOf
  <2> QED BY <2>1, <2>2, <1>1, <1>2, <1>4 DEF EndOf
<1>7. ASSUME NEW i \in 1 .. Len(g), i + L <= Len(g)
      PROVE  g[i] + W <= g[i + L]
  <2>1. i \in Nat /\ i <= Len(h) /\ i >= 1 /\ i + L \in Nat /\ i + L >= 1
    BY <1>1, <1>3, <1>7
  <2>2. CASE i + L = Len(h) + 1
    <3>1. i \in 1 .. Len(h) - Len(s) /\ i \in 1 .. Len(h)
      BY <2>1, <2>2, <1>1, <1>2, <1>3, <1>4
    <3>2. g[i] = h[i] /\ g[i + L] = now
      BY <3>1, <2>2, <1>1
    <3> QED BY <3>1, <3>2, <1>10
  <2>3. CASE i + L <= Len(h)
    <3>1. i \in 1 .. Len(h) /\ i + L \in 1 .. Len(h)
      BY <2>1, <2>3, <1>1
    <3>2. g[i] = h[i] /\ g[i + L] = h[i + L]
      BY <3>1, <1>1
    <3> QED BY <3>1, <3>2, <2>3, <1>9
  <2>4. i + L = Len(h) + 1 \/ i + L <= Len(h)
    <3>1. i + L <= Len(h) + 1
      BY <1>7, <1>1
    <3>2. i + L \in Nat /\ Len(h) \in Nat
      BY <2>1, <1>1
    <3> QED BY <3>1, <3>2, AtMostNext
  <2> QED BY <2>2, <2>3, <2>4
<1>8. Len(t) <= L
  BY <1>2, <1>3, <1>4
<1>11. Spaced(k, g)
  BY <1>7 DEF Spaced, L, W
<1> QED BY <1>5, <1>6, <1>8, <1>11 DEF Recorded, g, t, L

-------------------------------------------------------------------------------

\* The state once hit's check has counted itself and pruned key k: every deque
\* is at the end of its history and within its limit.
LEMMA Checked ==
  ASSUME Inv, NEW k \in Keys, NEW m,
         NEW n \in 0 .. Len(Ticked(m, events)[k]), Drops(k, Ticked(m, events)[k], n)
  PROVE  LET ev == Ticked(m, events)
             s  == Pruned(ev[k], n)
             e  == [ev EXCEPT ![k] = s]
         IN  /\ s \in Seq(Nat) /\ EndOf(k, s, log[k]) /\ Len(s) <= Rule[k].limit
             /\ e \in [Keys -> Seq(Nat)]
             /\ \A j \in Keys : EndOf(j, e[j], log[j]) /\ Len(e[j]) <= Rule[j].limit
<1> DEFINE ev == Ticked(m, events)
           s  == Pruned(ev[k], n)
           e  == [ev EXCEPT ![k] = s]
<1>1. /\ ev \in [Keys -> Seq(Nat)]
      /\ \A j \in Keys : EndOf(j, ev[j], log[j]) /\ Len(ev[j]) <= Len(events[j])
  BY TickedEnd DEF Inv, Shape, LogInv
<1> HIDE DEF ev
<1>2. ASSUME NEW j \in Keys
      PROVE  /\ Len(ev[j]) <= Rule[j].limit /\ Rule[j].limit \in Nat
             /\ Len(ev[j]) \in Nat /\ log[j] \in Seq(Nat) /\ ev[j] \in Seq(Nat)
  <2>1. events[j] \in Seq(Nat) /\ log[j] \in Seq(Nat) /\ Len(events[j]) <= Rule[j].limit
    BY DEF Inv, Shape, LogInv
  <2>2. ev[j] \in Seq(Nat) /\ Len(ev[j]) <= Len(events[j])
    BY <1>1
  <2>3. Rule[j].limit \in Nat
    BY RuleType
  <2>4. Len(events[j]) \in Nat /\ Len(ev[j]) \in Nat
    BY <2>1, <2>2
  <2> QED BY <2>1, <2>2, <2>3, <2>4
<1>3. s \in Seq(Nat) /\ Len(s) = Len(ev[k]) - n /\ EndOf(k, s, log[k])
  BY <1>1, <1>2, PrunedEnd DEF ev
<1>4. n \in Nat
  BY <1>2 DEF ev
<1>5. Len(s) <= Rule[k].limit
  BY <1>1, <1>2, <1>3, <1>4
<1> HIDE DEF s
<1>6. e \in [Keys -> Seq(Nat)]
  BY <1>1, <1>3
<1>7. ASSUME NEW j \in Keys PROVE EndOf(j, e[j], log[j]) /\ Len(e[j]) <= Rule[j].limit
  <2>1. CASE j = k
    BY <2>1, <1>1, <1>3, <1>5
  <2>2. CASE j # k
    <3>1. e[j] = ev[j]
      BY <2>2, <1>1
    <3> QED BY <3>1, <1>1, <1>2
  <2> QED BY <2>1, <2>2
<1> QED BY <1>3, <1>5, <1>6, <1>7 DEF s, ev

\* Nothing has happened to a key without events.
LEMMA EmptyEnd ==
  ASSUME NEW k \in Keys
  PROVE  /\ Past(<<>>) /\ EndOf(k, <<>>, <<>>) /\ Spaced(k, <<>>)
         /\ Len(<<>>) <= Rule[k].limit
<1>1. Len(<<>>) = 0 /\ 1 .. 0 = {} /\ <<>> \in Seq(Nat)
  OBVIOUS
<1>2. Past(<<>>)
  BY <1>1 DEF Past, Ordered
<1>3. EndOf(k, <<>>, <<>>)
  <2>1. 1 .. Len(<<>>) - Len(<<>>) = {}
    BY <1>1
  <2> QED BY <1>1, <2>1 DEF EndOf
<1>4. Spaced(k, <<>>)
  BY <1>1 DEF Spaced
<1>5. 0 <= Rule[k].limit
  BY RuleType
<1> QED BY <1>1, <1>2, <1>3, <1>4, <1>5

LEMMA InitInv == Init => Inv
<1> SUFFICES ASSUME Init PROVE Inv
  OBVIOUS
<1>1. Shape
  BY LimiterAssumption DEF Init, Shape
<1>2. ASSUME NEW k \in Keys
      PROVE  events[k] = <<>> /\ log[k] = <<>>
  BY DEF Init
<1> QED BY <1>1, <1>2, EmptyEnd DEF Inv, LogInv

LEMMA AllowKeepsInv == ASSUME Inv, NEW k \in Keys, Allow(k) PROVE Inv'
<1> DEFINE ops == Counted(operations)
           ev  == Ticked(ops, events)
<1>1. PICK n \in 0 .. Len(ev[k]) :
        LET s == Pruned(ev[k], n) IN
        /\ Drops(k, ev[k], n) /\ ~Full(k, s)
        /\ operations' = Counted(ops)
        /\ events' = [Ticked(Counted(ops), [ev EXCEPT ![k] = s])
                        EXCEPT ![k] = Recorded(k, s)]
        /\ log' = [log EXCEPT ![k] = Append(@, now)]
        /\ told' = [told EXCEPT ![k] = 0]
        /\ UNCHANGED now
  BY DEF Allow
<1> DEFINE s == Pruned(ev[k], n)
           e == [ev EXCEPT ![k] = s]
           f == Ticked(Counted(ops), e)
<1>2. /\ s \in Seq(Nat) /\ EndOf(k, s, log[k]) /\ e \in [Keys -> Seq(Nat)]
      /\ \A j \in Keys : EndOf(j, e[j], log[j]) /\ Len(e[j]) <= Rule[j].limit
  BY <1>1, Checked
<1>3. /\ now \in Nat /\ log \in [Keys -> Seq(Nat)] /\ operations \in Nat
      /\ told \in [Keys -> Nat]
      /\ \A j \in Keys : Past(log[j]) /\ Spaced(j, log[j])
  BY DEF Inv, Shape, LogInv
<1>4. /\ ~Full(k, s) /\ operations' = Counted(ops)
      /\ events' = [f EXCEPT ![k] = Recorded(k, s)]
      /\ log' = [log EXCEPT ![k] = Append(@, now)]
      /\ told' = [told EXCEPT ![k] = 0] /\ now' = now
  BY <1>1
<1>5. ops \in Nat /\ Counted(ops) \in Nat /\ Counted(ops) < SweepEvery
  BY <1>3, CountedType
<1> HIDE DEF s, e, ev, ops
<1>6. /\ f \in [Keys -> Seq(Nat)]
      /\ \A j \in Keys : EndOf(j, f[j], log[j]) /\ Len(f[j]) <= Len(e[j])
  BY <1>2, <1>3, TickedEnd
<1> HIDE DEF f
<1>7. /\ Past(Append(log[k], now)) /\ EndOf(k, Recorded(k, s), Append(log[k], now))
      /\ Spaced(k, Append(log[k], now)) /\ Len(Recorded(k, s)) <= Rule[k].limit
  BY <1>2, <1>3, <1>4, RecordedEnd
<1>8. Shape'
  <2>1. Recorded(k, s) \in Seq(Nat) /\ Append(log[k], now) \in Seq(Nat)
    BY <1>2, <1>3 DEF Recorded
  <2> QED BY <2>1, <1>3, <1>4, <1>5, <1>6 DEF Shape
<1>9. LogInv'
  <2> SUFFICES ASSUME NEW j \in Keys
               PROVE  /\ Past(log[j])' /\ EndOf(j, events[j], log[j])'
                      /\ Len(events'[j]) <= Rule[j].limit /\ Spaced(j, log[j])'
    BY DEF LogInv
  <2>1. CASE j = k
    <3>1. log'[k] = Append(log[k], now) /\ events'[k] = Recorded(k, s)
      BY <1>3, <1>4, <1>6
    <3> QED BY <2>1, <3>1, <1>4, <1>7 DEF Past, EndOf, Spaced, Expired
  <2>2. CASE j # k
    <3>1. log'[j] = log[j] /\ events'[j] = f[j]
      BY <2>2, <1>3, <1>4, <1>6
    <3>2. Len(f[j]) <= Rule[j].limit
      <4>1. Len(f[j]) \in Nat /\ Len(e[j]) \in Nat /\ Rule[j].limit \in Nat
        BY <1>2, <1>6, RuleType
      <4> QED BY <4>1, <1>2, <1>6
    <3>3. Past(log[j])' /\ Spaced(j, log[j])'
      BY <3>1, <1>3, <1>4 DEF Past, Spaced
    <3>4. EndOf(j, events[j], log[j])'
      BY <3>1, <1>4, <1>6 DEF EndOf, Expired
    <3> QED BY <3>1, <3>2, <3>3, <3>4
  <2> QED BY <2>1, <2>2
<1> QED BY <1>8, <1>9 DEF Inv

LEMMA RefuseKeepsInv == ASSUME Inv, NEW k \in Keys, Refuse(k) PROVE Inv'
<1> DEFINE ops == Counted(operations)
           ev  == Ticked(ops, events)
<1>1. PICK n \in 0 .. Len(ev[k]) :
        LET s == Pruned(ev[k], n) IN
        /\ Drops(k, ev[k], n) /\ Full(k, s)
        /\ operations' = ops
        /\ events' = [ev EXCEPT ![k] = s]
        /\ told' = [told EXCEPT ![k] = now + UnitsPerSecond * RetryAfter(k, s)]
        /\ UNCHANGED <<now, log>>
  BY DEF Refuse
<1> DEFINE s == Pruned(ev[k], n)
           e == [ev EXCEPT ![k] = s]
<1>2. /\ s \in Seq(Nat) /\ EndOf(k, s, log[k]) /\ e \in [Keys -> Seq(Nat)]
      /\ \A j \in Keys : EndOf(j, e[j], log[j]) /\ Len(e[j]) <= Rule[j].limit
  BY <1>1, Checked
<1>3. Full(k, s) /\ operations' = ops /\ events' = e /\ now' = now /\ log' = log
  BY <1>1
<1>4. told' = [told EXCEPT ![k] = now + UnitsPerSecond * RetryAfter(k, s)]
  BY <1>1
<1>5. ops \in Nat /\ ops < SweepEvery
  BY CountedType DEF Inv, Shape
<1> HIDE DEF s, e, ev, ops
<1>6. now + UnitsPerSecond * RetryAfter(k, s) \in Nat
  <2>1. UnitsPerSecond \in Nat \ {0} /\ now \in Nat
    BY LimiterAssumption DEF Inv, Shape
  <2>2. Rule[k].limit \in Nat \ {0} /\ Rule[k].window \in Nat
    BY RuleType
  <2>3. Len(s) \in Nat \ {0} /\ Head(s) \in Nat
    BY <1>2, <1>3, <2>2 DEF Full
  <2>4. Seconds(Head(s) + Rule[k].window - now) \in Int
    BY <2>1, <2>2, <2>3 DEF Seconds
  <2>5. RetryAfter(k, s) \in Nat
    BY <2>4 DEF RetryAfter
  <2>6. UnitsPerSecond * RetryAfter(k, s) \in Nat
    BY <2>1, <2>5
  <2> QED BY <2>1, <2>6
<1>7. Shape'
  BY <1>2, <1>3, <1>4, <1>5, <1>6 DEF Inv, Shape
<1>8. LogInv'
  BY <1>2, <1>3 DEF Inv, LogInv, Past, EndOf, Spaced, Expired
<1> QED BY <1>7, <1>8 DEF Inv

LEMMA NextKeepsInv == Inv /\ [Next]_vars => Inv'
<1> SUFFICES ASSUME Inv, [Next]_vars PROVE Inv'
  OBVIOUS
<1>1. CASE Tick
  <2>1. Shape'
    BY <1>1 DEF Tick, Inv, Shape
  <2>2. ASSUME NEW k \in Keys
        PROVE  /\ log[k] \in Seq(Nat) /\ now \in Nat /\ Past(log[k])
               /\ EndOf(k, events[k], log[k]) /\ Rule[k].window \in Nat
    BY RuleType DEF Inv, Shape, LogInv
  <2>3. ASSUME NEW k \in Keys
        PROVE  Past(log[k])' /\ EndOf(k, events[k], log[k])'
    <3>1. \A i \in 1 .. Len(log[k]) : log[k][i] \in Nat
      BY <2>2
    <3>2. Past(log[k])'
      <4>1. ASSUME NEW i \in 1 .. Len(log[k]) PROVE log[k][i] <= now + 1
        <5>1. log[k][i] <= now /\ log[k][i] \in Nat /\ now \in Nat
          BY <2>2, <3>1 DEF Past
        <5> QED BY <5>1
      <4>2. now' = now + 1 /\ log' = log /\ Ordered(log[k])
        BY <1>1, <2>2 DEF Tick, Past
      <4> QED BY <4>1, <4>2 DEF Past, Ordered
    <3>3. \A i \in 1 .. Len(log[k]) - Len(events[k]) : i \in 1 .. Len(log[k])
      <4>1. Len(log[k]) \in Nat /\ Len(events[k]) \in Nat
        BY <2>2 DEF EndOf
      <4> QED BY <4>1
    <3>4. EndOf(k, events[k], log[k])'
      <4>1. ASSUME NEW i \in 1 .. Len(log[k]) - Len(events[k])
            PROVE  log[k][i] + Rule[k].window <= now + 1
        <5>1. /\ log[k][i] + Rule[k].window <= now /\ log[k][i] \in Nat
              /\ Rule[k].window \in Nat /\ now \in Nat
          BY <2>2, <3>1, <3>3 DEF EndOf, Expired
        <5> QED BY <5>1
      <4>2. now' = now + 1 /\ log' = log /\ events' = events
        BY <1>1 DEF Tick
      <4> QED BY <4>1, <4>2, <2>2 DEF EndOf, Expired
    <3> QED BY <3>2, <3>4
  <2>4. LogInv'
    BY <1>1, <2>3 DEF Tick, Inv, LogInv, Spaced
  <2> QED BY <2>1, <2>4 DEF Inv
<1>2. ASSUME NEW k \in Keys, Allow(k) PROVE Inv'
  BY <1>2, AllowKeepsInv
<1>3. ASSUME NEW k \in Keys, Refuse(k) PROVE Inv'
  BY <1>3, RefuseKeepsInv
<1>4. ASSUME NEW k \in Keys, Clear(k) PROVE Inv'
  <2>1. Shape'
    BY <1>4 DEF Clear, Inv, Shape
  <2>2. ASSUME NEW j \in Keys
        PROVE  /\ Past(log[j])' /\ EndOf(j, events[j], log[j])'
               /\ Len(events'[j]) <= Rule[j].limit /\ Spaced(j, log[j])'
    <3>1. CASE j = k
      <4>1. events'[j] = <<>> /\ log'[j] = <<>> /\ Rule[j].limit \in Nat
        BY <3>1, <1>4, RuleType DEF Clear, Inv, Shape
      <4> QED BY <4>1 DEF Past, Ordered, EndOf, Spaced
    <3>2. CASE j # k
      <4>1. events'[j] = events[j] /\ log'[j] = log[j] /\ now' = now
        BY <3>2, <1>4 DEF Clear, Inv, Shape
      <4> QED BY <4>1 DEF Inv, LogInv, Past, EndOf, Spaced, Expired
    <3> QED BY <3>1, <3>2
  <2> QED BY <2>1, <2>2 DEF Inv, LogInv
<1>5. CASE UNCHANGED vars
  BY <1>5 DEF vars, Inv, Shape, LogInv, Past, Ordered, EndOf, Spaced, Expired
<1> QED BY <1>1, <1>2, <1>3, <1>4, <1>5 DEF Next, Hit

LEMMA Invariance == Spec => []Inv
BY InitInv, NextKeepsInv, PTL DEF Spec

-------------------------------------------------------------------------------

\* The types hold, and a deque is in the order of its times: it is the end of a
\* history that is.
THEOREM TypeCorrect == Spec => []TypeOK
<1>1. Inv => TypeOK
  <2> SUFFICES ASSUME Inv, NEW k \in Keys
               PROVE  /\ Ordered(events[k])
                      /\ \A i \in 1 .. Len(events[k]) : events[k][i] <= now
    BY DEF Inv, Shape, TypeOK
  <2>1. EndOf(k, events[k], log[k]) /\ Past(log[k])
    BY DEF Inv, LogInv
  <2>2. Len(events[k]) \in Nat /\ Len(log[k]) \in Nat
    BY DEF Inv, Shape
  <2>3. ASSUME NEW i \in 1 .. Len(events[k])
        PROVE  /\ Len(log[k]) - Len(events[k]) + i \in 1 .. Len(log[k])
               /\ events[k][i] = log[k][Len(log[k]) - Len(events[k]) + i]
    <3>1. Len(events[k]) <= Len(log[k])
      BY <2>1 DEF EndOf
    <3>2. Len(log[k]) - Len(events[k]) + i \in 1 .. Len(log[k])
      BY <3>1, <2>2, EndIndex
    <3> QED BY <3>2, <2>1 DEF EndOf
  <2>4. \A i, j \in 1 .. Len(events[k]) : i <= j =>
          Len(log[k]) - Len(events[k]) + i <= Len(log[k]) - Len(events[k]) + j
    BY <2>2
  <2> QED BY <2>1, <2>3, <2>4 DEF Past, Ordered
<1> QED BY <1>1, Invariance, PTL

\* No window holds more allowed requests than its rule's limit: what the deque
\* lacks of the history has expired, so a deque below the limit proves it.
THEOREM LimitCorrect == Spec => []LimitHolds
<1>1. Inv => LimitHolds
  BY DEF Inv, LogInv, Spaced, LimitHolds
<1> QED BY <1>1, Invariance, PTL

\* A deque never exceeds its limit, refused requests being recorded nowhere.
THEOREM MemoryCorrect == Spec => []KeptAtMostLimit
<1>1. Inv => KeptAtMostLimit
  BY DEF Inv, LogInv, KeptAtMostLimit
<1> QED BY <1>1, Invariance, PTL

-------------------------------------------------------------------------------
(* Retry-After                                                              *)

\* Of a refused key, the limit-th last event is the one to wait for: told is the
\* first whole number of seconds at which that event has left the window.
ToldInv ==
  \A k \in Keys : told[k] # 0 =>
    /\ Rule[k].limit <= Len(log[k])
    /\ LET gone == log[k][Len(log[k]) - Rule[k].limit + 1] + Rule[k].window
       IN  gone <= told[k] /\ told[k] < gone + UnitsPerSecond

\* Rounding up to seconds adds less than one.
LEMMA SecondsUp ==
  ASSUME NEW units \in Nat \ {0}
  PROVE  /\ Seconds(units) \in Nat \ {0}
         /\ units <= UnitsPerSecond * Seconds(units)
         /\ UnitsPerSecond * Seconds(units) < units + UnitsPerSecond
<1> DEFINE U == UnitsPerSecond
           n == units + U - 1
           q == n \div U
<1>1. U \in Nat \ {0} /\ n \in Nat
  BY LimiterAssumption
<1>2. q \in Nat /\ U * q <= n /\ n < U * q + U
  BY <1>1
<1>3. units <= U * q /\ U * q < units + U
  BY <1>1, <1>2
<1>4. q # 0
  BY <1>1, <1>3
<1> QED BY <1>2, <1>3, <1>4 DEF Seconds

\* What a refusal tells: the head of the pruned deque has not expired, so it
\* leaves at a later time, which rounding up does not pass by a second.
LEMMA RefusedFor ==
  ASSUME NEW k \in Keys, now \in Nat, NEW s \in Seq(Nat), NEW ev \in Seq(Nat),
         NEW n \in 0 .. Len(ev), Drops(k, ev, n), s = Pruned(ev, n), Full(k, s)
  PROVE  /\ Len(s) \in Nat \ {0} /\ Head(s) = s[1] /\ s[1] \in Nat
         /\ ~Expired(k, s[1])
         /\ RetryAfter(k, s) = Seconds(Head(s) + Rule[k].window - now)
         /\ Head(s) + Rule[k].window - now \in Nat \ {0}
<1>1. Rule[k].limit \in Nat \ {0} /\ Rule[k].window \in Nat \ {0}
  BY RuleType
<1>2. Len(s) \in Nat \ {0} /\ Head(s) = s[1] /\ s[1] \in Nat
  BY <1>1 DEF Full
<1>3. s[1] = ev[n + 1] /\ n < Len(ev)
  BY <1>2 DEF Pruned
<1>4. ~Expired(k, s[1])
  BY <1>3 DEF Drops
<1>5. s[1] + Rule[k].window - now \in Nat \ {0}
  BY <1>1, <1>2, <1>4, SMTT(30) DEF Expired
<1>6. Seconds(s[1] + Rule[k].window - now) \in Nat \ {0}
  BY <1>5, SecondsUp
<1>7. RetryAfter(k, s) = Seconds(s[1] + Rule[k].window - now)
  BY <1>2, <1>6 DEF RetryAfter
<1> QED BY <1>2, <1>4, <1>5, <1>7

LEMMA RefuseTells ==
  ASSUME Inv, ToldInv, NEW k \in Keys, Refuse(k)
  PROVE  ToldInv'
<1> DEFINE ops == Counted(operations)
           ev  == Ticked(ops, events)
<1>1. PICK n \in 0 .. Len(ev[k]) :
        LET s == Pruned(ev[k], n) IN
        /\ Drops(k, ev[k], n) /\ Full(k, s)
        /\ told' = [told EXCEPT ![k] = now + UnitsPerSecond * RetryAfter(k, s)]
        /\ UNCHANGED log
  BY DEF Refuse
<1> DEFINE s == Pruned(ev[k], n)
           L == Rule[k].limit
           W == Rule[k].window
<1>2. /\ s \in Seq(Nat) /\ EndOf(k, s, log[k]) /\ Len(s) <= L
  BY <1>1, Checked
<1>3. ev \in [Keys -> Seq(Nat)] /\ now \in Nat /\ log \in [Keys -> Seq(Nat)]
  BY TickedEnd DEF Inv, Shape, LogInv
<1>4. /\ Full(k, s) /\ Drops(k, ev[k], n) /\ log' = log
      /\ told' = [told EXCEPT ![k] = now + UnitsPerSecond * RetryAfter(k, s)]
  BY <1>1
<1> HIDE DEF ev, ops
<1>5. /\ Len(s) \in Nat \ {0} /\ Head(s) = s[1] /\ s[1] \in Nat
      /\ RetryAfter(k, s) = Seconds(Head(s) + W - now)
      /\ Head(s) + W - now \in Nat \ {0}
  BY <1>2, <1>3, <1>4, RefusedFor
<1> HIDE DEF s
<1>6. L \in Nat \ {0} /\ W \in Nat \ {0} /\ Len(s) = L /\ UnitsPerSecond \in Nat
  BY <1>2, <1>4, <1>5, RuleType, LimiterAssumption DEF Full
<1>7. Len(log[k]) \in Nat /\ L <= Len(log[k]) /\ s[1] = log[k][Len(log[k]) - L + 1]
  BY <1>2, <1>3, <1>6 DEF EndOf
<1> DEFINE left == s[1] + W - now
           gone == s[1] + W
           wait == UnitsPerSecond * Seconds(left)
<1>8. left \in Nat \ {0}
  BY <1>5
<1>9. told'[k] = now + wait
  BY <1>4, <1>5 DEF Inv, Shape
<1>10. gone <= told'[k] /\ told'[k] < gone + UnitsPerSecond
  <2>1. left <= wait /\ wait < left + UnitsPerSecond /\ Seconds(left) \in Nat
    <3> HIDE DEF left
    <3> QED BY <1>8, SecondsUp
  <2>2. wait \in Nat
    BY <2>1, <1>6
  <2> DEFINE head == s[1]
  <2>3. /\ head \in Nat /\ W \in Nat /\ now \in Nat /\ UnitsPerSecond \in Nat
        /\ told'[k] = now + wait
        /\ head + W - now <= wait /\ wait < head + W - now + UnitsPerSecond
    BY <2>1, <1>3, <1>5, <1>6, <1>9
  <2> HIDE DEF wait, head, W
  <2>4. head + W <= told'[k] /\ told'[k] < head + W + UnitsPerSecond
    BY <2>2, <2>3
  <2> QED BY <2>4 DEF head
<1>11. \A j \in Keys : j # k => told'[j] = told[j]
  BY <1>4 DEF Inv, Shape
<1> HIDE DEF L, W
<1> QED BY <1>4, <1>7, <1>10, <1>11 DEF ToldInv, L, W

LEMMA ToldStep == Inv /\ ToldInv /\ [Next]_vars => ToldInv'
<1> SUFFICES ASSUME Inv, ToldInv, [Next]_vars PROVE ToldInv'
  OBVIOUS
<1>1. ASSUME NEW k \in Keys, told' = [told EXCEPT ![k] = 0],
             \A j \in Keys : j # k => log'[j] = log[j]
      PROVE  ToldInv'
  <2>1. told'[k] = 0 /\ \A j \in Keys : j # k => told'[j] = told[j]
    BY <1>1 DEF Inv, Shape
  <2> QED BY <1>1, <2>1 DEF ToldInv
<1>2. ASSUME NEW k \in Keys, Allow(k) PROVE ToldInv'
  <2>1. told' = [told EXCEPT ![k] = 0] /\ log' = [log EXCEPT ![k] = Append(@, now)]
    BY <1>2 DEF Allow
  <2> QED BY <1>1, <2>1 DEF Inv, Shape
<1>3. ASSUME NEW k \in Keys, Clear(k) PROVE ToldInv'
  BY <1>1, <1>3 DEF Clear, Inv, Shape
<1>4. CASE Tick \/ UNCHANGED vars
  BY <1>4 DEF Tick, vars, ToldInv
<1> QED BY <1>2, <1>3, <1>4, RefuseTells DEF Next, Hit

LEMMA ToldAlways == Spec => []ToldInv
<1>1. Init => ToldInv
  BY DEF Init, ToldInv
<1>2. QED BY <1>1, ToldStep, Invariance, PTL DEF Spec

\* A key that is still full is asked before the time it was told: what heads the
\* deque is the event that time is about.
LEMMA RefusedEarly ==
  ASSUME Inv, ToldInv, NEW k \in Keys, told[k] # 0, Refuse(k)
  PROVE  now < told[k]
<1> DEFINE ev == Ticked(Counted(operations), events)
<1>1. PICK n \in 0 .. Len(ev[k]) : Drops(k, ev[k], n) /\ Full(k, Pruned(ev[k], n))
  BY DEF Refuse
<1> DEFINE s == Pruned(ev[k], n)
           L == Rule[k].limit
           W == Rule[k].window
<1>2. s \in Seq(Nat) /\ EndOf(k, s, log[k]) /\ Len(s) <= L
  BY <1>1, Checked
<1>3. /\ ev \in [Keys -> Seq(Nat)] /\ now \in Nat /\ log \in [Keys -> Seq(Nat)]
      /\ told[k] \in Nat
  BY TickedEnd DEF Inv, Shape, LogInv
<1> HIDE DEF ev
<1>4. Len(s) \in Nat \ {0} /\ s[1] \in Nat /\ ~Expired(k, s[1])
  BY <1>1, <1>2, <1>3, RefusedFor
<1>5. Full(k, s)
  BY <1>1
<1> HIDE DEF s
<1>6. L \in Nat \ {0} /\ W \in Nat \ {0} /\ Len(s) = L
  BY <1>2, <1>4, <1>5, RuleType DEF Full
<1>7. s[1] = log[k][Len(log[k]) - L + 1]
  BY <1>2, <1>3, <1>6 DEF EndOf
<1>8. s[1] + W <= told[k]
  BY <1>7 DEF ToldInv
<1> QED BY <1>3, <1>4, <1>6, <1>8 DEF Expired

\* A key that is below its limit again has lost the event the time is about.
LEMMA AllowedLate ==
  ASSUME Inv, ToldInv, NEW k \in Keys, told[k] # 0, Allow(k)
  PROVE  now + UnitsPerSecond > told[k]
<1> DEFINE ev == Ticked(Counted(operations), events)
<1>1. PICK n \in 0 .. Len(ev[k]) : Drops(k, ev[k], n) /\ ~Full(k, Pruned(ev[k], n))
  BY DEF Allow
<1> DEFINE s == Pruned(ev[k], n)
           L == Rule[k].limit
           W == Rule[k].window
           i == Len(log[k]) - L + 1
<1>2. s \in Seq(Nat) /\ EndOf(k, s, log[k])
  BY <1>1, Checked
<1>3. /\ now \in Nat /\ log[k] \in Seq(Nat) /\ told[k] \in Nat
      /\ UnitsPerSecond \in Nat
  BY LimiterAssumption DEF Inv, Shape
<1>4. ~Full(k, s)
  BY <1>1
<1> HIDE DEF s, ev
<1>5. Len(s) \in Nat /\ Len(s) < L /\ L \in Nat /\ W \in Nat
  BY <1>2, <1>4, RuleType DEF Full
<1>6. /\ L <= Len(log[k])
      /\ told[k] < log[k][i] + W + UnitsPerSecond
  BY DEF ToldInv
<1>7. i \in 1 .. Len(log[k]) - Len(s) /\ i \in 1 .. Len(log[k])
  <2>1. Len(log[k]) \in Nat /\ Len(s) <= Len(log[k])
    BY <1>2, <1>3 DEF EndOf
  <2> HIDE DEF L
  <2> QED BY <2>1, <1>5, <1>6
<1>8. log[k][i] + W <= now /\ log[k][i] \in Nat
  <2> HIDE DEF i
  <2> QED BY <1>2, <1>3, <1>7, SMTT(30) DEF EndOf, Expired
<1> DEFINE e == log[k][i]
<1>9. told[k] < e + W + UnitsPerSecond /\ e + W <= now /\ e \in Nat
  BY <1>6, <1>8
<1> HIDE DEF e, W
<1> QED BY <1>3, <1>5, <1>9

\* Retry-After is exact to the second, whatever was pruned, swept or allowed on
\* other keys since the refusal.
THEOREM RetryCorrect == Spec => RetryExact
<1>1. Inv /\ ToldInv /\ [Next]_vars =>
        [\A k \in Keys : told[k] # 0 =>
           /\ Refuse(k) => now < told[k]
           /\ Allow(k) => now + UnitsPerSecond > told[k]]_vars
  BY RefusedEarly, AllowedLate
<1>2. QED BY <1>1, Invariance, ToldAlways, PTL DEF Spec, RetryExact

-------------------------------------------------------------------------------
(* The sliding window                                                       *)

\* The first n events of s, and no more, are a window old at a time.
Gone(k, s, n, time) ==
  /\ \A i \in 1 .. n : s[i] + Rule[k].window <= time
  /\ n < Len(s) => s[n + 1] + Rule[k].window > time

\* How many are is determined: the events before the first that is not.
LEMMA GoneExists ==
  ASSUME NEW k \in Keys, NEW s \in Seq(Nat), NEW time \in Nat
  PROVE  \E n \in 0 .. Len(s) : Gone(k, s, n, time)
<1> DEFINE W == Rule[k].window
           S == {i \in 1 .. Len(s) : s[i] + W > time}
<1>1. W \in Nat /\ Len(s) \in Nat /\ \A i \in 1 .. Len(s) : s[i] \in Nat
  BY RuleType
<1> HIDE DEF W
<1>2. CASE S = {}
  <2>1. ASSUME NEW i \in 1 .. Len(s) PROVE s[i] + W <= time
    <3>1. ~(s[i] + W > time) /\ s[i] \in Nat
      BY <1>1, <1>2
    <3> QED BY <1>1, <3>1
  <2> QED BY <1>1, <2>1 DEF Gone, W
<1>3. CASE S # {}
  <2>1. S \in SUBSET Nat
    BY <1>1
  <2>2. PICK m \in S : \A n \in S : ~ (<<n, m>> \in OpToRel(<, Nat))
    BY <1>3, <2>1, NatLessThanWellFounded, WFMin
  <2>3. ASSUME NEW i \in 1 .. m - 1 PROVE s[i] + W <= time
    <3>1. m \in 1 .. Len(s) /\ i \in 1 .. Len(s) /\ i < m /\ i \in Nat /\ m \in Nat
      BY <1>1, <2>1
    <3>2. <<i, m>> \in OpToRel(<, Nat)
      BY <3>1 DEF OpToRel
    <3>3. i \notin S
      BY <2>2, <3>2
    <3> QED BY <1>1, <3>1, <3>3
  <2>4. m - 1 \in 0 .. Len(s) /\ s[(m - 1) + 1] + W > time
    BY <1>1, <2>1
  <2> QED BY <2>3, <2>4 DEF Gone, W
<1> QED BY <1>2, <1>3

LEMMA GoneUnique ==
  ASSUME NEW k \in Keys, NEW s \in Seq(Nat), NEW time \in Nat,
         NEW n \in 0 .. Len(s), Gone(k, s, n, time),
         NEW m \in 0 .. Len(s), Gone(k, s, m, time)
  PROVE  n = m
<1>1. ASSUME NEW a \in 0 .. Len(s), NEW b \in 0 .. Len(s), a < b,
             Gone(k, s, a, time), Gone(k, s, b, time)
      PROVE  FALSE
  <2>1. a + 1 \in 1 .. b /\ a < Len(s) /\ a + 1 \in 1 .. Len(s)
    BY <1>1
  <2>2. s[a + 1] \in Nat /\ Rule[k].window \in Nat
    BY <2>1, RuleType
  <2> QED BY <1>1, <2>1, <2>2 DEF Gone
<1>2. ~(n < m) /\ ~(m < n)
  BY <1>1
<1> QED BY <1>2

\* What is left is what follows them.
LEMMA LeftIs ==
  ASSUME NEW k \in Keys, NEW s \in Seq(Nat), NEW time \in Nat,
         NEW n \in 0 .. Len(s), Gone(k, s, n, time)
  PROVE  /\ Window!Left(k, s, time) = Pruned(s, n)
         /\ Pruned(s, n) \in Seq(Nat) /\ Len(Pruned(s, n)) = Len(s) - n
         /\ \A i \in 1 .. Len(s) - n : Pruned(s, n)[i] = s[n + i]
<1> DEFINE P(m) == /\ \A i \in 1 .. m : s[i] + Rule[k].window <= time
                   /\ m < Len(s) => s[m + 1] + Rule[k].window > time
           gone == CHOOSE m \in 0 .. Len(s) : P(m)
<1>1. P(n) /\ \A m \in 0 .. Len(s) : P(m) => m = n
  BY GoneUnique DEF Gone
<1>2. gone = n
  <2> HIDE DEF P
  <2> QED BY <1>1
<1>3. Window!Left(k, s, time) = SubSeq(s, gone + 1, Len(s))
  BY DEF Window!Left
<1> HIDE DEF gone
<1>4. Len(s) \in Nat /\ n \in Nat /\ n <= Len(s)
  OBVIOUS
<1>5. /\ Pruned(s, n) \in Seq(Nat) /\ Len(Pruned(s, n)) = Len(s) - n
      /\ \A i \in 1 .. Len(s) - n : Pruned(s, n)[i] = s[n + i]
  BY <1>4 DEF Pruned
<1> QED BY <1>2, <1>3, <1>5 DEF Pruned

\* The prune that check makes drops what is a window old by now.
LEMMA DropsGone ==
  ASSUME NEW k \in Keys, NEW s \in Seq(Nat), now \in Nat, NEW n \in 0 .. Len(s)
  PROVE  Drops(k, s, n) <=> Gone(k, s, n, now)
<1>1. Rule[k].window \in Nat /\ n < Len(s) => n + 1 \in 1 .. Len(s)
  OBVIOUS
<1>2. n < Len(s) => s[n + 1] \in Nat
  BY <1>1
<1> QED BY <1>2, RuleType DEF Drops, Gone, Expired

LEMMA LiveIsLeft ==
  ASSUME NEW k \in Keys, NEW s \in Seq(Nat), now \in Nat
  PROVE  Live(k, s) = Window!Left(k, s, now)
<1>1. PICK n \in 0 .. Len(s) : Gone(k, s, n, now)
  BY GoneExists
<1>2. \A m \in 0 .. Len(s) : Drops(k, s, m) <=> m = n
  BY <1>1, DropsGone, GoneUnique
<1>3. (CHOOSE m \in 0 .. Len(s) : Drops(k, s, m)) = n
  BY <1>2
<1> QED BY <1>1, <1>3, LeftIs DEF Live

\* The events of the last window of every key, as the promise has them.
recent == [k \in Keys |-> Live(k, events[k])]

LEMMA RecentIs == Shape => recent = [k \in Keys |-> Window!Left(k, events[k], now)]
BY LiveIsLeft DEF Shape, recent

\* What has left by a time has left by any later one.
LEMMA LeftLater ==
  ASSUME NEW k \in Keys, NEW s \in Seq(Nat), NEW time \in Nat, NEW later \in Nat, time <= later
  PROVE  Window!Left(k, Window!Left(k, s, time), later) = Window!Left(k, s, later)
<1>1. PICK n \in 0 .. Len(s) : Gone(k, s, n, time)
  BY GoneExists
<1> DEFINE t == Pruned(s, n)
<1>2. /\ Window!Left(k, s, time) = t /\ t \in Seq(Nat) /\ Len(t) = Len(s) - n
      /\ \A i \in 1 .. Len(s) - n : t[i] = s[n + i]
  BY <1>1, LeftIs
<1> HIDE DEF t
<1>3. PICK m \in 0 .. Len(t) : Gone(k, t, m, later)
  BY <1>2, GoneExists
<1>4. /\ n \in Nat /\ m \in Nat /\ Len(s) \in Nat /\ n + m \in 0 .. Len(s) /\ m <= Len(s) - n
      /\ Rule[k].window \in Nat
  BY <1>2, RuleType
<1>5. Gone(k, s, n + m, later)
  <2>1. ASSUME NEW i \in 1 .. n + m PROVE s[i] + Rule[k].window <= later
    <3>1. CASE i <= n
      <4>1. s[i] + Rule[k].window <= time /\ s[i] \in Nat
        BY <1>1, <1>4, <3>1 DEF Gone
      <4> QED BY <4>1, <1>4, SMTT(30)
    <3>2. CASE i > n
      <4>1. i - n \in 1 .. m /\ i - n \in 1 .. Len(s) - n /\ n + (i - n) = i
        BY <1>4, <3>2
      <4>2. t[i - n] = s[i]
        BY <1>2, <4>1
      <4> QED BY <1>3, <4>1, <4>2 DEF Gone
    <3> QED BY <1>4, <3>1, <3>2
  <2>2. ASSUME n + m < Len(s) PROVE s[n + m + 1] + Rule[k].window > later
    <3>1. m + 1 \in 1 .. Len(s) - n /\ m < Len(t) /\ n + (m + 1) = n + m + 1
      BY <1>2, <1>4, <2>2
    <3>2. t[m + 1] = s[n + m + 1]
      BY <1>2, <3>1
    <3> QED BY <1>3, <3>1, <3>2 DEF Gone
  <2> QED BY <2>1, <2>2 DEF Gone
<1>6. Window!Left(k, t, later) = Pruned(t, m) /\ Len(Pruned(t, m)) = Len(t) - m
      /\ Pruned(t, m) \in Seq(Nat)
      /\ \A i \in 1 .. Len(t) - m : Pruned(t, m)[i] = t[m + i]
  BY <1>2, <1>3, LeftIs, ZenonT(30)
<1>7. /\ Window!Left(k, s, later) = Pruned(s, n + m)
      /\ Pruned(s, n + m) \in Seq(Nat) /\ Len(Pruned(s, n + m)) = Len(s) - (n + m)
      /\ \A i \in 1 .. Len(s) - (n + m) : Pruned(s, n + m)[i] = s[(n + m) + i]
  BY <1>4, <1>5, LeftIs
<1>8. Pruned(t, m) = Pruned(s, n + m)
  <2>0. Len(Pruned(t, m)) = Len(t) - m /\ Len(t) = Len(s) - n
    BY <1>2, <1>6
  <2>1. Len(Pruned(t, m)) = Len(Pruned(s, n + m)) /\ Len(t) - m = Len(s) - (n + m)
    <3>1. Len(Pruned(s, n + m)) = Len(s) - (n + m)
      BY <1>7
    <3>2. n \in Nat /\ m \in Nat /\ Len(s) \in Nat
      BY <1>4
    <3> DEFINE N == Len(s)
               T == Len(t)
    <3>3. n \in Nat /\ m \in Nat /\ N \in Nat /\ T = N - n
      BY <3>2, <2>0
    <3>4. Len(Pruned(t, m)) = T - m /\ Len(Pruned(s, n + m)) = N - (n + m)
      BY <3>1, <2>0
    <3> HIDE DEF N, T
    <3>5. T - m = N - (n + m)
      BY <3>3
    <3> QED BY <3>4, <3>5 DEF N, T
  <2>2. ASSUME NEW i \in 1 .. Len(Pruned(t, m)) PROVE Pruned(t, m)[i] = Pruned(s, n + m)[i]
    <3>1. /\ i \in 1 .. Len(t) - m /\ i \in 1 .. Len(s) - (n + m) /\ m + i \in 1 .. Len(s) - n
          /\ n + (m + i) = (n + m) + i
      BY <1>4, <2>0, <2>1
    <3>2. Pruned(t, m)[i] = t[m + i] /\ t[m + i] = s[n + (m + i)]
      BY <1>2, <1>6, <3>1
    <3> QED BY <1>7, <3>1, <3>2
  <2> QED BY <1>6, <1>7, <2>1, <2>2, SeqEqual
<1> QED BY <1>2, <1>6, <1>7, <1>8

\* An empty deque has nothing left, nor has one whose newest event is old.
LEMMA LeftEmpty ==
  ASSUME NEW k \in Keys, NEW time \in Nat
  PROVE  Window!Left(k, <<>>, time) = <<>>
<1>1. Len(<<>>) = 0 /\ <<>> \in Seq(Nat) /\ 1 .. 0 = {}
  OBVIOUS
<1>2. Gone(k, <<>>, 0, time)
  BY <1>1 DEF Gone
<1>3. 0 \in 0 .. Len(<<>>)
  BY <1>1
<1>4. /\ Window!Left(k, <<>>, time) = Pruned(<<>>, 0) /\ Pruned(<<>>, 0) \in Seq(Nat)
      /\ Len(Pruned(<<>>, 0)) = Len(<<>>) - 0
  <2> DEFINE e == <<>>
  <2>1. e \in Seq(Nat) /\ 0 \in 0 .. Len(e) /\ Gone(k, e, 0, time)
    BY <1>1, <1>2, <1>3
  <2> HIDE DEF e
  <2>2. /\ Window!Left(k, e, time) = Pruned(e, 0) /\ Pruned(e, 0) \in Seq(Nat)
        /\ Len(Pruned(e, 0)) = Len(e) - 0
    BY <2>1, LeftIs
  <2> QED BY <2>2 DEF e
<1>5. Len(Pruned(<<>>, 0)) = 0
  BY <1>1, <1>4
<1> QED BY <1>4, <1>5, EmptySeq

LEMMA LeftSwept ==
  ASSUME NEW k \in Keys, NEW ev \in [Keys -> Seq(Nat)], now \in Nat, Ordered(ev[k]), NEW n
  PROVE  Window!Left(k, Ticked(n, ev)[k], now) = Window!Left(k, ev[k], now)
<1> DEFINE s == ev[k]
<1>1. s \in Seq(Nat) /\ Len(s) \in Nat
  OBVIOUS
<1>2. CASE n = 0 /\ s # <<>> /\ Expired(k, s[Len(s)])
  <2>1. Ticked(n, ev)[k] = <<>>
    BY <1>2 DEF Ticked, Swept
  <2>2. Gone(k, s, Len(s), now)
    <3>1. ASSUME NEW i \in 1 .. Len(s) PROVE s[i] + Rule[k].window <= now
      <4>1. s[i] <= s[Len(s)] /\ s[i] \in Nat /\ s[Len(s)] \in Nat /\ Rule[k].window \in Nat
        BY <1>1, RuleType DEF Ordered
      <4> QED BY <1>2, <4>1 DEF Expired
    <3> QED BY <3>1, <1>1 DEF Gone
  <2>3. /\ Window!Left(k, s, now) = Pruned(s, Len(s)) /\ Len(Pruned(s, Len(s))) = 0
        /\ Pruned(s, Len(s)) \in Seq(Nat)
    BY <1>1, <2>2, LeftIs
  <2>4. Pruned(s, Len(s)) = <<>>
    BY <2>3
  <2> QED BY <2>1, <2>3, <2>4, LeftEmpty
<1>3. CASE ~(n = 0 /\ s # <<>> /\ Expired(k, s[Len(s)]))
  BY <1>3 DEF Ticked, Swept
<1> QED BY <1>2, <1>3

\* A deque without its old events is all that is left of it, also with one more.
LEMMA LeftRecorded ==
  ASSUME NEW k \in Keys, NEW s \in Seq(Nat), now \in Nat, Gone(k, s, 0, now)
  PROVE  /\ Window!Left(k, s, now) = s
         /\ Window!Left(k, Recorded(k, s), now) = Append(s, now)
<1> DEFINE t == Append(s, now)
<1>1. ASSUME NEW u \in Seq(Nat), Gone(k, u, 0, now) PROVE Window!Left(k, u, now) = u
  <2>1. /\ Window!Left(k, u, now) = Pruned(u, 0)
        /\ Pruned(u, 0) \in Seq(Nat) /\ Len(Pruned(u, 0)) = Len(u) - 0
        /\ \A i \in 1 .. Len(u) - 0 : Pruned(u, 0)[i] = u[0 + i]
    BY <1>1, LeftIs
  <2>4. Len(u) \in Nat /\ Len(u) - 0 = Len(u) /\ \A i \in 1 .. Len(u) : 0 + i = i
    BY <1>1
  <2>2. Len(Pruned(u, 0)) = Len(u) /\ \A i \in 1 .. Len(u) : Pruned(u, 0)[i] = u[i]
    BY <2>1, <2>4
  <2>3. Pruned(u, 0) = u
    BY <1>1, <2>1, <2>2, SeqEqual
  <2> QED BY <2>1, <2>3
<1>2. t \in Seq(Nat) /\ Len(t) = Len(s) + 1 /\ t[Len(s) + 1] = now /\ Len(s) \in Nat
      /\ \A i \in 1 .. Len(s) : t[i] = s[i]
  OBVIOUS
<1> HIDE DEF t
<1>3. t[1] + Rule[k].window > now
  <2>1. CASE Len(s) = 0
    <3>1. Rule[k].window \in Nat \ {0} /\ t[1] = now
      BY <1>2, <2>1, RuleType
    <3> QED BY <3>1
  <2>2. CASE Len(s) > 0
    <3>1. t[1] = s[1] /\ s[0 + 1] + Rule[k].window > now
      BY <1>2, <2>2 DEF Gone
    <3> QED BY <3>1
  <2> QED BY <1>2, <2>1, <2>2
<1>4. Gone(k, t, 0, now)
  BY <1>3 DEF Gone
<1>5. Window!Left(k, t, now) = t /\ Window!Left(k, s, now) = s
  BY <1>1, <1>2, <1>4
<1> QED BY <1>5 DEF Recorded, t

LEMMA RecentNext ==
  Shape' => recent' = [k \in Keys |-> Window!Left(k, events'[k], now')]
<1>1. (Shape => recent = [k \in Keys |-> Window!Left(k, events[k], now)])'
  BY RecentIs, PTL
<1> QED BY <1>1

\* Every deque is in order: it is the end of a history that is.
LEMMA DequesOrdered ==
  ASSUME Inv, NEW k \in Keys
  PROVE  Ordered(events[k]) /\ events[k] \in Seq(Nat)
<1>1. EndOf(k, events[k], log[k]) /\ Ordered(log[k])
  BY DEF Inv, LogInv, Past
<1>2. /\ events[k] \in Seq(Nat) /\ Len(events[k]) \in Nat /\ Len(log[k]) \in Nat
      /\ Len(events[k]) <= Len(log[k])
  BY <1>1 DEF Inv, Shape, EndOf
<1> DEFINE d == Len(log[k]) - Len(events[k])
<1>3. ASSUME NEW i \in 1 .. Len(events[k])
      PROVE  d + i \in 1 .. Len(log[k]) /\ events[k][i] = log[k][d + i]
  BY <1>1, <1>2, EndIndex DEF EndOf
<1>4. ASSUME NEW i \in 1 .. Len(events[k]), NEW j \in 1 .. Len(events[k]), i <= j
      PROVE  events[k][i] <= events[k][j]
  <2>1. d + i <= d + j
    BY <1>2, <1>4
  <2> QED BY <1>1, <1>3, <2>1 DEF Ordered
<1> QED BY <1>2, <1>4 DEF Ordered

\* hit's check: what the promise has of k is what is left after the prune, and
\* the sweep takes nothing of the other keys that counts.
LEMMA CheckedRecent ==
  ASSUME Inv, NEW k \in Keys, NEW m,
         NEW n \in 0 .. Len(Ticked(m, events)[k]), Drops(k, Ticked(m, events)[k], n)
  PROVE  LET ev == Ticked(m, events)
             s  == Pruned(ev[k], n)
         IN  /\ s \in Seq(Nat) /\ ev \in [Keys -> Seq(Nat)] /\ Gone(k, s, 0, now)
             /\ recent[k] = s
             /\ \A j \in Keys : Ordered(ev[j]) /\ recent[j] = Window!Left(j, ev[j], now)
<1> DEFINE ev == Ticked(m, events)
           s  == Pruned(ev[k], n)
<1>1. now \in Nat /\ events \in [Keys -> Seq(Nat)] /\ Shape
  BY DEF Inv, Shape
<1>2. ev \in [Keys -> Seq(Nat)]
  BY TickedEnd DEF Inv, Shape, LogInv
<1>3. \A j \in Keys : Ordered(events[j])
  BY DequesOrdered
<1>4. ASSUME NEW j \in Keys
      PROVE  Ordered(ev[j]) /\ recent[j] = Window!Left(j, ev[j], now)
  <2>1. ev[j] = events[j] \/ ev[j] = <<>>
    BY <1>1 DEF Ticked, Swept
  <2>2. Ordered(<<>>)
    BY Len(<<>>) = 0 DEF Ordered
  <2>3. recent[j] = Window!Left(j, events[j], now)
    BY <1>1, RecentIs
  <2>4. Window!Left(j, ev[j], now) = Window!Left(j, events[j], now)
    BY <1>1, <1>3, LeftSwept
  <2> QED BY <1>3, <2>1, <2>2, <2>3, <2>4
<1> HIDE DEF ev
<1>5. Drops(k, ev[k], n) /\ ev[k] \in Seq(Nat) /\ n \in 0 .. Len(ev[k]) /\ Len(ev[k]) \in Nat
  BY <1>2 DEF ev
<1>6. Gone(k, ev[k], n, now)
  BY <1>1, <1>5, DropsGone
<1>7. /\ Window!Left(k, ev[k], now) = s /\ s \in Seq(Nat) /\ Len(s) = Len(ev[k]) - n
      /\ \A i \in 1 .. Len(ev[k]) - n : s[i] = ev[k][n + i]
  BY <1>1, <1>5, <1>6, LeftIs, ZenonT(30)
<1> HIDE DEF s
<1>8. Gone(k, s, 0, now)
  <2>1. ASSUME 0 < Len(s) PROVE s[0 + 1] + Rule[k].window > now
    <3>1. 1 \in 1 .. Len(ev[k]) - n /\ n < Len(ev[k])
      BY <1>5, <1>7, <2>1
    <3>2. s[1] = ev[k][n + 1]
      BY <1>7, <3>1
    <3> QED BY <1>6, <3>1, <3>2 DEF Gone
  <2> QED BY <2>1 DEF Gone
<1>9. recent[k] = s
  BY <1>4, <1>7
<1> QED BY <1>2, <1>4, <1>7, <1>8, <1>9 DEF s, ev

LEMMA AllowRefines ==
  ASSUME Inv, Shape', NEW k \in Keys, Allow(k)
  PROVE  /\ Len(recent[k]) < Rule[k].limit
         /\ recent' = [recent EXCEPT ![k] = Append(@, now)]
         /\ told' = [told EXCEPT ![k] = 0] /\ now' = now
<1> DEFINE ops == Counted(operations)
           ev  == Ticked(ops, events)
<1>1. PICK n \in 0 .. Len(ev[k]) :
        LET s == Pruned(ev[k], n) IN
        /\ Drops(k, ev[k], n) /\ ~Full(k, s)
        /\ events' = [Ticked(Counted(ops), [ev EXCEPT ![k] = s])
                        EXCEPT ![k] = Recorded(k, s)]
        /\ told' = [told EXCEPT ![k] = 0]
        /\ UNCHANGED now
  BY DEF Allow
<1> DEFINE s == Pruned(ev[k], n)
           e == [ev EXCEPT ![k] = s]
           f == Ticked(Counted(ops), e)
<1>2. /\ s \in Seq(Nat) /\ ev \in [Keys -> Seq(Nat)] /\ Gone(k, s, 0, now)
      /\ recent[k] = s
      /\ \A j \in Keys : Ordered(ev[j]) /\ recent[j] = Window!Left(j, ev[j], now)
  BY <1>1, CheckedRecent
<1>3. /\ ~Full(k, s) /\ events' = [f EXCEPT ![k] = Recorded(k, s)]
      /\ told' = [told EXCEPT ![k] = 0] /\ now' = now
  BY <1>1
<1>4. now \in Nat
  BY DEF Inv, Shape
<1> HIDE DEF ev, s
<1>5. e \in [Keys -> Seq(Nat)] /\ \A j \in Keys : j # k => e[j] = ev[j]
  BY <1>2
<1>6. f \in [Keys -> Seq(Nat)]
  BY <1>5 DEF Ticked, Swept
<1> HIDE DEF e
<1>7. ASSUME NEW j \in Keys, j # k PROVE Window!Left(j, f[j], now) = recent[j]
  BY <1>2, <1>4, <1>5, <1>7, LeftSwept
<1> HIDE DEF f
<1>8. Window!Left(k, Recorded(k, s), now) = Append(s, now)
  BY <1>2, <1>4, LeftRecorded
<1>9. ASSUME NEW j \in Keys
      PROVE  Window!Left(j, events'[j], now') = [recent EXCEPT ![k] = Append(@, now)][j]
  <2>1. CASE j = k
    BY <1>2, <1>3, <1>6, <1>8, <2>1 DEF recent
  <2>2. CASE j # k
    BY <1>3, <1>6, <1>7, <2>2 DEF recent
  <2> QED BY <2>1, <2>2
<1>10. recent' = [recent EXCEPT ![k] = Append(@, now)]
  BY <1>9, RecentNext DEF recent
<1>11. Len(recent[k]) < Rule[k].limit
  BY <1>2, <1>3, RuleType DEF Full
<1> QED BY <1>3, <1>10, <1>11

LEMMA RefuseRefines ==
  ASSUME Inv, Shape', NEW k \in Keys, Refuse(k)
  PROVE  /\ Len(recent[k]) >= Rule[k].limit
         /\ told' = [told EXCEPT ![k] =
              now + UnitsPerSecond * Seconds(Head(recent[k]) + Rule[k].window - now)]
         /\ now' = now /\ recent' = recent
<1> DEFINE ops == Counted(operations)
           ev  == Ticked(ops, events)
<1>1. PICK n \in 0 .. Len(ev[k]) :
        LET s == Pruned(ev[k], n) IN
        /\ Drops(k, ev[k], n) /\ Full(k, s)
        /\ events' = [ev EXCEPT ![k] = s]
        /\ told' = [told EXCEPT ![k] = now + UnitsPerSecond * RetryAfter(k, s)]
        /\ UNCHANGED now
  BY DEF Refuse
<1> DEFINE s == Pruned(ev[k], n)
<1>2. /\ s \in Seq(Nat) /\ ev \in [Keys -> Seq(Nat)] /\ Gone(k, s, 0, now)
      /\ recent[k] = s
      /\ \A j \in Keys : recent[j] = Window!Left(j, ev[j], now)
  BY <1>1, CheckedRecent
<1>3. /\ Full(k, s) /\ Drops(k, ev[k], n) /\ events' = [ev EXCEPT ![k] = s]
      /\ told' = [told EXCEPT ![k] = now + UnitsPerSecond * RetryAfter(k, s)]
      /\ now' = now
  BY <1>1
<1>4. now \in Nat
  BY DEF Inv, Shape
<1>5. ev[k] \in Seq(Nat) /\ n \in 0 .. Len(ev[k])
  BY <1>2
<1> HIDE DEF ev
<1>6. RetryAfter(k, s) = Seconds(Head(s) + Rule[k].window - now)
  BY <1>2, <1>3, <1>4, <1>5, RefusedFor
<1> HIDE DEF s
<1>7. Window!Left(k, s, now) = s
  BY <1>2, <1>4, LeftRecorded
<1>8. ASSUME NEW j \in Keys PROVE Window!Left(j, events'[j], now') = recent[j]
  <2>1. CASE j = k
    BY <1>2, <1>3, <1>7, <2>1
  <2>2. CASE j # k
    BY <1>2, <1>3, <2>2
  <2> QED BY <2>1, <2>2
<1>9. recent' = recent
  BY <1>8, RecentNext DEF recent
<1> QED BY <1>2, <1>3, <1>6, <1>9 DEF Full

LEMMA ClearRefines ==
  ASSUME Inv, Shape', NEW k \in Keys, Clear(k)
  PROVE  /\ recent' = [recent EXCEPT ![k] = <<>>]
         /\ told' = [told EXCEPT ![k] = 0] /\ now' = now
<1>1. /\ events' = [events EXCEPT ![k] = <<>>] /\ now' = now /\ told' = [told EXCEPT ![k] = 0]
      /\ now \in Nat /\ events \in [Keys -> Seq(Nat)] /\ Shape
  BY DEF Clear, Inv, Shape
<1>2. ASSUME NEW j \in Keys
      PROVE  Window!Left(j, events'[j], now') = [recent EXCEPT ![k] = <<>>][j]
  <2>1. CASE j = k
    BY <1>1, <2>1, LeftEmpty DEF recent
  <2>2. CASE j # k
    <3>1. recent[j] = Window!Left(j, events[j], now)
      BY <1>1, RecentIs
    <3> QED BY <1>1, <2>2, <3>1 DEF recent
  <2> QED BY <2>1, <2>2
<1>3. recent' = [recent EXCEPT ![k] = <<>>]
  BY <1>2, RecentNext DEF recent
<1> QED BY <1>1, <1>3

LEMMA TickRefines ==
  ASSUME Inv, Shape', Tick
  PROVE  recent' = [k \in Keys |-> Window!Left(k, recent[k], now + 1)]
<1>1. now' = now + 1 /\ events' = events /\ now \in Nat /\ events \in [Keys -> Seq(Nat)] /\ Shape
  BY DEF Tick, Inv, Shape
<1>2. ASSUME NEW k \in Keys
      PROVE  Window!Left(k, events'[k], now') = Window!Left(k, recent[k], now + 1)
  <2>1. recent[k] = Window!Left(k, events[k], now)
    BY <1>1, RecentIs
  <2>2. Window!Left(k, Window!Left(k, events[k], now), now + 1) = Window!Left(k, events[k], now + 1)
    <3>1. events[k] \in Seq(Nat) /\ now + 1 \in Nat /\ now <= now + 1
      BY <1>1
    <3> QED BY <1>1, <3>1, LeftLater
  <2> QED BY <1>1, <2>1, <2>2
<1> QED BY <1>2, RecentNext

LEMMA StepRefines == Inv /\ Shape' /\ [Next]_vars => [Window!Next]_(Window!vars)
<1> SUFFICES ASSUME Inv, Shape', [Next]_vars PROVE [Window!Next]_(Window!vars)
  OBVIOUS
<1>1. CASE Tick
  <2>1. now < MaxTime /\ now' = now + 1 /\ told' = told
    BY <1>1 DEF Tick
  <2>2. Window!Tick
    BY <1>1, <2>1, TickRefines DEF Window!Tick, recent
  <2> QED BY <2>2 DEF Window!Next
<1>2. ASSUME NEW k \in Keys, Allow(k) PROVE [Window!Next]_(Window!vars)
  <2>1. Window!Allow(k)
    BY <1>2, AllowRefines DEF Window!Allow, recent
  <2> QED BY <2>1 DEF Window!Next
<1>3. ASSUME NEW k \in Keys, Refuse(k) PROVE [Window!Next]_(Window!vars)
  <2>1. Window!Refuse(k)
    BY <1>3, RefuseRefines DEF Window!Refuse, Window!Seconds, Seconds, recent
  <2> QED BY <2>1 DEF Window!Next
<1>4. ASSUME NEW k \in Keys, Clear(k) PROVE [Window!Next]_(Window!vars)
  <2>1. Window!Clear(k)
    BY <1>4, ClearRefines DEF Window!Clear, recent
  <2> QED BY <2>1 DEF Window!Next
<1>5. CASE UNCHANGED vars
  <2>1. Shape /\ now' = now /\ told' = told /\ events' = events
    BY <1>5 DEF vars, Inv
  <2>2. recent' = recent
    BY <2>1, RecentIs, RecentNext
  <2> QED BY <2>1, <2>2 DEF Window!vars, recent
<1> QED BY <1>1, <1>2, <1>3, <1>4, <1>5 DEF Next, Hit

\* The limiter implements the sliding window: neither a lazy prune nor a sweep
\* is ever seen by a caller.
THEOREM WindowCorrect == Spec => ImplementsWindow
<1>1. Init => Window!Init
  <2> SUFFICES ASSUME Init PROVE Window!Init
    OBVIOUS
  <2>1. now = 0 /\ told = [k \in Keys |-> 0] /\ \A k \in Keys : events[k] = <<>>
    BY DEF Init
  <2>2. ASSUME NEW k \in Keys PROVE Live(k, events[k]) = <<>>
    BY <2>1, EmptySeq, LiveIsLeft, LeftEmpty, ZenonT(30)
  <2> QED BY <2>1, <2>2 DEF Window!Init
<1>2. Inv /\ Inv' /\ [Next]_vars => [Window!Next]_(Window!vars)
  BY StepRefines DEF Inv
<1>3. QED BY <1>1, <1>2, Invariance, PTL DEF Spec, ImplementsWindow, Window!Spec
=============================================================================
